CONSTANTS
  chainType = "bft"
  allowBlockGaps = FALSE
  maxBlocksPerPoll = 3
  threshold = 2
  Standings <- Tombstoning
  Lag = 0
  MaxHeight = 3
  QueryFaults = 1
  DbFaults = 0
  Crashes = 0
SPECIFICATION Spec
PROPERTIES
  TombstoneStands
