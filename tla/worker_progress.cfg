CONSTANTS
  chainType = "bft"
  allowBlockGaps = FALSE
  maxBlocksPerPoll = 1
  threshold = 2
  Standings <- Tombstoning
  Lag = 0
  MaxHeight = 3
  QueryFaults = 1
  DbFaults = 1
  Crashes = 1
SPECIFICATION FairSpec
INVARIANTS
  PeriodsDisjoint
PROPERTIES
  CatchesUp
  AlertSettles
  InactivityConverges
