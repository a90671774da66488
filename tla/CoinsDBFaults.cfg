SPECIFICATION Spec
CONSTANTS
    g = g
    r1 = r1
    a2 = a2
    b2 = b2
    x = x
    y = y
    Null = Null
    Spent = Spent
    Genesis = g
    Outpoints <- AllOutpoints
    Blocks <- AllBlocks
    Coins <- AllBlocks
    Parent <- Tree
    Txs <- Contents
    PruneDepths = {1}
    KeepBlocks = 1
    Faults = {"index", "coins", "undo"}
    MaxCrashes = 1
INVARIANT MarkedIsExact
INVARIANT HeadsAreKnown
CHECK_DEADLOCK FALSE
