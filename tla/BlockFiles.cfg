SPECIFICATION Spec
CONSTANTS
    g = g
    a1 = a1
    a2 = a2
    b1 = b1
    None = None
    Genesis = g
    Blocks <- AllBlocks
    Parent <- Tree
    HeightOf <- Heights
    MaxFile = 2
    MaxBlockfileSize = 3
    KeepBlocks = 1
    MaxFailures = 1
INVARIANT TypeOK
INVARIANT BlocksReadable
INVARIANT UndoReadable
 
PROPERTY PruneKeepsRecent
