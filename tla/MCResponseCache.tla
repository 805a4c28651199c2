--------------------------- MODULE MCResponseCache ---------------------------
(* Instances of ResponseCache for TLC. *)
EXTENDS ResponseCache, TLC

\* Hashes of two Bitcoin blocks that compete for height 5 and of a Dogecoin
\* block; a signature; an Ethereum transaction; two transactions of blocks.
MCHashes     == {"b1", "b2", "d1"}
MCHeights    == {"5"}
MCSignatures == {"sig"}
MCTxHashes   == {"t"}
MCKey        == MCHashes \cup MCHeights \cup MCSignatures \cup MCTxHashes

\* Heights are eight bytes that begin with zeros: they come first.
MCRank == [b1 |-> 3, b2 |-> 2, d1 |-> 4, t |-> 5, sig |-> 6] @@ ("5" :> 1)

ChainWith(b) == b :> b @@ "5" :> b

\* Bitcoin is reorganised, an Ethereum transaction is mined, or moves to another
\* block; the others stay.
MCWorlds == [btc  |-> {ChainWith("b1"), ChainWith("b2")},
             doge |-> {ChainWith("d1")},
             sol  |-> {"sig" :> "tx"},
             eth  |-> {Empty, "t" :> "receipt1", "t" :> "receipt2"},
             op   |-> {Empty}]

MCRoot == [b1 |-> "root1", b2 |-> "root2", d1 |-> "root3"]

\* What the Bitcoin daemon answers: the proof asked for, one with another tree,
\* and one of another transaction.
MCProofs == {[block |-> "b1", root |-> "root1", matches |-> {"tx1"}],
             [block |-> "b1", root |-> "root2", matches |-> {"tx1"}],
             [block |-> "b2", root |-> "root2", matches |-> {"tx2"}]}

\* A daemon that returns the proof it was asked for.
HonestProofs == {[block |-> "b1", root |-> "root1", matches |-> {"tx1"}]}

Request(s, m, k, o) == [svc |-> s, method |-> m, key |-> k, opt |-> o]

HashRequests == {Request(s, "getblockhash", "5", "") : s \in {"btc", "doge"}}

HeaderRequests ==
    {Request("btc", "getblockheader", "b1", o) : o \in {"verbose", "hex"}} \cup HashRequests

ProofRequests == {Request("btc", "verify_tx", "tx1", "")}

SolRequests == {Request("sol", "getTransaction", "sig", o) : o \in {"json", "base64", "badconfig"}}

EthRequests == {Request(s, "receipt", "t", "receipt") : s \in {"eth", "op"}}

Uncached == {Request("eth", "uncached", "t", "block")}

MCUnreadable == {[svc |-> "sol", item |-> "tx", form |-> "base64"]}

BitcoinRequests == HeaderRequests \cup ProofRequests
OtherRequests   == SolRequests \cup EthRequests \cup Uncached
AllRequests     == (BitcoinRequests \cup OtherRequests) \ {Request("sol", "getTransaction", "sig", "json")}
=============================================================================
