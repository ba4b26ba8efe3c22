SPECIFICATION FairSpec
CONSTANTS
  c1 = c1
  c2 = c2
  c3 = c3
  h1 = h1
  h2 = h2
  v1 = v1
  v2 = v2
  NoOne = NoOne
  Callers <- TwoCallers
  Handlers <- TwoHandlers
  Vcpus <- TwoVcpus
  MaxPaused = 6
INVARIANTS
  TypeOK
  HeldMeansQuiet
  RunLockFollowsPauses
PROPERTIES
  ImplementsGate
  DevicePauseReturns
  RequestAnswered
CHECK_DEADLOCK FALSE
