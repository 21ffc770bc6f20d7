CONSTANTS
  chainType = "bft"
  allowBlockGaps = FALSE
  maxBlocksPerPoll = 3
  threshold = 2
  Standings <- Downtime
  Lag = 0
  MaxHeight = 4
  QueryFaults = 0
  DbFaults = 0
  Crashes = 0
SPECIFICATION Spec
INVARIANTS
  MissOnlyWhenActive
