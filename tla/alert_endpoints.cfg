CONSTANTS
  consecutiveMissAlert <- NoMisses
  percentageMissedBlocksAlert <- Silent
  stalledAlert <- Off
  alertIfInactive = FALSE
  endpointDownAlertAfter = 2
  rpcUrls = {r1, r2}
  apiUrls = {a1}
  formerUrls = {}
  alertIfDown = {r1, a1}
  chainWide = chainWide
  Worlds <- Quiet
  healthCheckInterval = 1
  MaxTime = 3
  Changes = 3
  LastChange = 3
  QueryFaults = 0
  ReadFaults = 1
  WriteFaults = 0
  SendFaults = 0
  Crashes = 1
  a1 = a1
  r1 = r1
  r2 = r2
SPECIFICATION Spec
INVARIANTS
  DownLongEnough
  RpcAlarmsFresh
