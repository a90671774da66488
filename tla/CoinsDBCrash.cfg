SPECIFICATION Spec
CONSTANTS
    g = g
    r1 = r1
    a2 = a2
    b2 = b2
    x = x
    y = y
    Null = Null
    Spent = Spent
    Genesis = g
    Outpoints <- AllOutpoints
    Blocks <- AllBlocks
    Coins <- AllBlocks
    Parent <- Tree
    Txs <- Contents
    PruneDepths = {}
    KeepBlocks = 1
    Faults = {}
    MaxCrashes = 2
INVARIANT UnmarkedIsRecoverable
INVARIANT TipIsExact
INVARIANT MarkedIsExact
PROPERTY Recovers
