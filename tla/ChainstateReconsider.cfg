SPECIFICATION Spec
CONSTANTS
  g = g
  a1 = a1
  a2 = a2
  b1 = b1
  b2 = b2
  c3 = c3
  d2 = d2
  Null = Null
  Genesis = g
  Blocks = {g, a1, a2, d2}
  Parent <- Siblings
  Work <- SiblingsWork
  Address <- SiblingsAddress
  CheckFails = {}
  ConnectFails = {}
  KeepBlocks = 1
  ConnectBatch = 32
  MaxWaiting = 1
  MaxCalls = 2
INVARIANT FailureHasCause
CHECK_DEADLOCK FALSE
