SPECIFICATION Spec
CONSTANTS
    None = None
    k1 = k1
    k2 = k2
    k3 = k3
    Key = {k1, k2, k3}
    Rank <- MCRank
    Size = 2
    Op = {p1, p2, p3, p4, p5}
    Methods = {"insert", "get", "write", "remove"}
SYMMETRY Symmetry
INVARIANTS
    TypeOK
    Bounded
    ReadsTheKey
PROPERTIES
    StoredWhenDone
    LostOnlyWhenFull
