SPECIFICATION MsiXSpec
CONSTANTS
  w1 = w1
  w2 = w2
  Workers <- MCWorkers
  Vectors = 3
  ByteBits = 2
  MaxRaised = 1
  MaxWrites = 4
  Table = Table
  Conf = Conf
SYMMETRY Symmetry
INVARIANTS
  NoInterruptVanishes
  PendingIsDelivered
CHECK_DEADLOCK FALSE
