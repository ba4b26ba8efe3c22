SPECIFICATION FairSpec
CONSTANTS
  QueueSize = 1
  CounterMod = 4
PROPERTIES
  QueuePauseReturns
  BufferReturns
CHECK_DEADLOCK FALSE
