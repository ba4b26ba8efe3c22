SPECIFICATION Spec
CONSTANTS
  QueueSize = 2
  CounterMod = 4
INVARIANTS
  BuffersConserved
  WakeupInFlight
CHECK_DEADLOCK FALSE
