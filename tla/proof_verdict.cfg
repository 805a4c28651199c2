SPECIFICATION FairSpec
CONSTANTS
    Call = {c1, c2}
    Requests <- BitcoinRequests
    Key <- MCKey
    Rank <- MCRank
    Size = 2
    Hashes <- MCHashes
    Heights <- MCHeights
    Signatures <- MCSignatures
    TxHashes <- MCTxHashes
    Worlds <- MCWorlds
    Root <- MCRoot
    Proofs <- HonestProofs
    Unreadable <- MCUnreadable
    MaxMoves = 0
PROPERTIES
    VerdictRight
