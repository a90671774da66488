SPECIFICATION Spec
CONSTANTS
    h1 = h1
    h2 = h2
    TxHashes <- OneHash
    Peers <- ThreePeers
    Times <- LongTimes
    LowBits <- Ranking
    PreferredBit = 4
INVARIANTS
    SanityCheck
    PostGetRequestableSanityCheck
PROPERTIES
    NeverRequestedTwice
    CallsReturn
