SPECIFICATION Spec
CONSTANTS
    c1 = c1
    c2 = c2
    Outpoints = {o1, o2}
    Coins <- MCCoins
    DynamicMemoryUsage <- MCDynamicMemoryUsage
    Spent = Spent
INVARIANTS
    CachesCoherent
    NoLogicError
    UsageExact
PROPERTIES
    ImplementsUtxoMaps
