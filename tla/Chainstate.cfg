SPECIFICATION Spec
CONSTANTS
  g = g
  a1 = a1
  a2 = a2
  b1 = b1
  b2 = b2
  c3 = c3
  d2 = d2
  Null = Null
  Genesis = g
  Blocks = {g, a1, a2, b1, b2, c3}
  Parent <- Tree
  Work <- TreeWork
  Address <- TreeAddress
  CheckFails = {a2}
  ConnectFails = {b2}
  KeepBlocks = 1
  ConnectBatch = 1
  MaxWaiting = 1
  MaxCalls = 2
INVARIANTS TypeOK CandidatesExact LinkedExact FailureReaches NoInvalidInChain TipIsBest NoCandidateRenumbered
PROPERTIES NoWorseTip CallsReturn
CHECK_DEADLOCK FALSE
