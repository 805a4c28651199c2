SPECIFICATION Spec
CONSTANTS
    a = a
    b = b
    None = None
    Rpc = {w1}
    Req = {r1}
    Kinds = {"GetAccountInfo", "GetTransaction"}
    Slots = {1}
    Blobs <- MCBlobs
    Lists = {}
    MaxAttempts = 3
    TaskCap = 1
    BroadcastCap = 1
    Patience = 60
    Horizon = 61
SYMMETRY Symmetry
INVARIANTS
    NeverUnreachable
