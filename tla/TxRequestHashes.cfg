SPECIFICATION Spec
CONSTANTS
    h1 = h1
    h2 = h2
    TxHashes <- TwoHashes
    Peers <- TwoPeers
    Times <- ShortTimes
    LowBits <- Ranking
    PreferredBit = 4
INVARIANTS
    PeerInfoExact
PROPERTIES
    NoCandidateLost
