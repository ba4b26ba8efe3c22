SPECIFICATION FairSpec
CONSTANTS
  c1 = c1
  c2 = c2
  c3 = c3
  Callers <- ThreeCallers
  ManualOps = TRUE
  VcpuMayEnd = TRUE
  InterruptResults <- BothResults
INVARIANTS
  TypeOK
  HeldMeansStopped
  HeldReadsFresh
  NoLostResume
  InterruptInFlight
  PausedCountsCallers
PROPERTIES
  ImplementsGate
  InternalPauseReturns
  ResumedVcpuRuns
CHECK_DEADLOCK FALSE
