SPECIFICATION FairSpec
CONSTANTS
    a = a
    b = b
    None = None
    Rpc = {w1, w2}
    Req = {r1, r2}
    Kinds = {"GetSlot"}
    Slots = {1}
    Blobs <- MCBlobs
    Lists = {}
    MaxAttempts = 1
    TaskCap = 1
    BroadcastCap = 1
    Patience = 1
    Horizon = 2

PROPERTIES
    CallerAnswered
    DispatcherFreed
