CONSTANTS
  rpcUrls <- TwoRpcs
  apiUrls <- OneApi
  NodeStates <- Nodes
  retryAttempts = 2
  rangeChunkSize = 2
  RangeLength = 3
  MaxPages = 2
  IndexCycle <- Cycle
  Moves = 1
  Faults = 1
SPECIFICATION Spec
INVARIANTS
  TypeOK
  OneCheck
  TriesEverybody
PROPERTIES
  CallsReturn
  HealthConverges
