CONSTANTS
  consecutiveMissAlert <- EveryTick
  percentageMissedBlocksAlert <- Escalating
  stalledAlert <- Off
  alertIfInactive = TRUE
  endpointDownAlertAfter = 1
  rpcUrls = {r1}
  apiUrls = {a1}
  formerUrls = {}
  alertIfDown = {}
  chainWide = chainWide
  Worlds <- Decline
  healthCheckInterval = 1
  MaxTime = 2
  Changes = 2
  LastChange = 2
  QueryFaults = 0
  ReadFaults = 0
  WriteFaults = 0
  SendFaults = 1
  Crashes = 1
  a1 = a1
  r1 = r1
SPECIFICATION Spec
INVARIANTS
  TypeOK
  OneOpenPerSubject
  StatusExclusive
  ToldBudget
  SilencedOneByOne
