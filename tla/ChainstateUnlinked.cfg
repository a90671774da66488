SPECIFICATION Spec
CONSTANTS
  g = g
  a1 = a1
  a2 = a2
  b1 = b1
  b2 = b2
  c3 = c3
  d2 = d2
  Null = Null
  Genesis = g
  Blocks = {g, b1, b2, c3}
  Parent <- Line
  Work <- LineWork
  Address <- LineAddress
  CheckFails = {}
  ConnectFails = {}
  KeepBlocks = 2
  ConnectBatch = 32
  MaxWaiting = 1
  MaxCalls = 2
INVARIANT UnlinkedIsComplete
CHECK_DEADLOCK FALSE
