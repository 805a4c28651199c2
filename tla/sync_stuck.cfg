SPECIFICATION FairSpec
CONSTANTS
    g = g
    a1 = a1
    a2 = a2
    a3 = a3
    b1 = b1
    b2 = b2
    Block <- MCBlock
    Chain <- MCChain
    None = None
    ChunkSize = 1
    MaxMoves = 3
    MaxFaults = 0

PROPERTY
    TipFollowed
