CONSTANTS
  consecutiveMissAlert <- NoMisses
  percentageMissedBlocksAlert <- Silent
  stalledAlert <- Off
  alertIfInactive = FALSE
  endpointDownAlertAfter = 1
  rpcUrls = {r1}
  apiUrls = {a1}
  formerUrls = {}
  alertIfDown = {a1}
  chainWide = chainWide
  Worlds <- Quiet
  healthCheckInterval = 1
  MaxTime = 3
  Changes = 3
  LastChange = 3
  QueryFaults = 0
  ReadFaults = 0
  WriteFaults = 0
  SendFaults = 0
  Crashes = 0
  a1 = a1
  r1 = r1
SPECIFICATION Spec
INVARIANTS
  ApiAlarmsFresh
