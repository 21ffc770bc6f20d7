CONSTANTS
  consecutiveMissAlert <- NoMisses
  percentageMissedBlocksAlert <- Once
  stalledAlert <- On
  alertIfInactive = TRUE
  endpointDownAlertAfter = 0
  rpcUrls = {r1}
  apiUrls = {a1}
  formerUrls = {f1}
  alertIfDown = {r1, a1}
  chainWide = chainWide
  Worlds <- Standstill
  healthCheckInterval = 1
  MaxTime = 2
  Changes = 2
  LastChange = 0
  QueryFaults = 1
  ReadFaults = 0
  WriteFaults = 1
  SendFaults = 0
  Crashes = 0
  a1 = a1
  f1 = f1
  r1 = r1
SPECIFICATION FairSpec
PROPERTIES
  ChainAlertsSettle
  EndpointAlertsSettle
