SPECIFICATION Spec
CONSTANTS
    Call = {c1, c2}
    Requests <- HashRequests
    Key <- MCKey
    Rank <- MCRank
    Size = 2
    Hashes <- MCHashes
    Heights <- MCHeights
    Signatures <- MCSignatures
    TxHashes <- MCTxHashes
    Worlds <- MCWorlds
    Root <- MCRoot
    Proofs <- MCProofs
    Unreadable <- MCUnreadable
    MaxMoves = 0
INVARIANTS
    AnsweredAsAsked
