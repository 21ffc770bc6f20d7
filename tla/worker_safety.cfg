CONSTANTS
  chainType = "bft"
  allowBlockGaps = FALSE
  maxBlocksPerPoll = 3
  threshold = 2
  Standings <- Downtime
  Lag = 1
  MaxHeight = 4
  QueryFaults = 1
  DbFaults = 1
  Crashes = 0
SPECIFICATION Spec
INVARIANTS
  TypeOK
  PollsKeepApart
  MisattributionExplained
  NoMissWhileKnownInactive
  PeriodsTruthful
PROPERTIES
  ImplementsLedger
  ClosedBySigning
