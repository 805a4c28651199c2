SPECIFICATION Spec
CONSTANTS
    a = a
    b = b
    None = None
    Rpc = {w1, w2}
    Req = {r1, r2}
    Kinds = {"GetSlot", "GetTransaction"}
    Slots = {1, 2}
    Blobs <- MCBlobs
    Lists = {}
    MaxAttempts = 2
    TaskCap = 1
    BroadcastCap = 1
    Patience = 1
    Horizon = 2
SYMMETRY Symmetry
INVARIANTS
    TypeOK
    CollectorSound
    ServedOnce
    TakenOnce
    EventFaithful
    NobodyMissed
PROPERTIES
    BallotFinal
    ImplementsQuorumRead
