SPECIFICATION FairSpec
CONSTANTS
    Configs <- AllConfigs
    Req = {r1}
    MaxFaults = 3
INVARIANTS
    TypeOK
    NoneUnwrapped
    RefusedForCause
PROPERTIES
    Heals
