SPECIFICATION FairSpec
CONSTANTS
  Vcpus = {v1, v2}
  NumDevices = 2
  MaxAddr = 3
  BarSize = 2
  BarValues = {3}
  Accesses <- MCAccesses
  Values = {"queue"}
  HitLimit = 1
  MaxFds = 1
  None = None
INVARIANTS
  CacheCoherent
  BarsDecode
PROPERTIES
  NotifyArrives
CHECK_DEADLOCK FALSE
