SPECIFICATION Spec
CONSTANTS
    a = a
    b = b
    None = None
    Rpc = {w1, w2, w3}
    Req = {r1}
    Kinds = {"GetSlot", "GetTransaction", "GetAccountInfo", "GetSignaturesForAddress", "GetProgramAccounts"}
    Slots = {1, 2, 3}
    Blobs <- MCBlobs
    Lists <- MCLists
    MaxAttempts = 2
    TaskCap = 1
    BroadcastCap = 1
    Patience = 2
    Horizon = 3
SYMMETRY Symmetry
INVARIANTS
    AnswerBacked
    RefusalJustified
    ListBacked
PROPERTIES
    ImplementsQuorumRead
