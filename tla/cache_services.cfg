SPECIFICATION FairSpec
CONSTANTS
    Call = {c1, c2}
    Requests <- AllRequests
    Key <- MCKey
    Rank <- MCRank
    Size = 2
    Hashes <- MCHashes
    Heights <- MCHeights
    Signatures <- MCSignatures
    TxHashes <- MCTxHashes
    Worlds <- MCWorlds
    Root <- MCRoot
    Proofs <- MCProofs
    Unreadable <- MCUnreadable
    MaxMoves = 2
INVARIANTS
    TypeOK
    NothingInvented
    ProofBacked
PROPERTIES
    CallEnds
