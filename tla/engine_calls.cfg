CONSTANTS
  knownChainIds = {k1, k2}
  otherChainIds = {other}
  noChain = noChain
  types = {"touchAlertNotified", "getAlert", "getOverviewLatestBlocks"}
  Connections = {"dp", "api"}
  Role <- OneOfEach
  bodies <- DpAndApi
  k1 = k1
  other = other
  MaxRequests <- TwoAndOne
  Deaths = 1
  DbFaults = 1
SPECIFICATION FairSpec
INVARIANTS
  NothingForgotten
PROPERTIES
  ImplementsStore
  EveryCallReturns
CHECK_DEADLOCK FALSE
