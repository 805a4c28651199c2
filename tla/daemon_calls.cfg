SPECIFICATION Spec
CONSTANTS
    g = g
    a1 = a1
    a2 = a2
    a3 = a3
    b1 = b1
    b2 = b2
    Block <- MCBlock
    Chain <- MCChain
    None = None
    Client = {c1, c2}
    Calls <- AllCalls
    BatchChunk = 2
    HeightChunk = 3
    MaxMoves = 1
    MaxFaults = 1
SYMMETRY Symmetry
INVARIANTS
    TypeOK
    OwnReply
    NewHeadersAttach
    AllHeadersExact
    PanicsOnReorg
