---------------------------- MODULE ResponseCache ----------------------------
(***************************************************************************)
(* The services that share the one response cache, as calls of their       *)
(* handlers run against one another: the header service of Bitcoin and     *)
(* Dogecoin (src/src/btcrpc/mod.rs), the verification of transaction       *)
(* proofs (src/src/chainstate.rs, src/src/btcrpc/proof.rs), the Solana     *)
(* service (src/src/solrpc/mod.rs) and the Ethereum and Optimism services  *)
(* (src/src/ethrpc/mod.rs).                                                *)
(*                                                                         *)
(* A handler looks its key up, asks its source on a miss, and inserts what *)
(* it got; awaits separate the three, and the source may change in         *)
(* between.  SimpleCache justifies taking get, insert and remove as atomic *)
(* steps.  A source is a function from keys to items: the block on the     *)
(* best chain of a P2P client by hash or height, the transaction by        *)
(* signature, the receipt by transaction hash.  A cached value is an item, *)
(* the service it came from, and the form it was stored in.                *)
(***************************************************************************)
EXTENDS CacheMap, Functions

CONSTANTS
    Call,        \* calls of the handlers, concurrent
    Requests,    \* the requests they may be given
    Hashes,      \* cache keys of 32 bytes: block hashes
    Heights,     \* cache keys of 8 bytes
    Signatures,  \* cache keys of 64 bytes
    TxHashes,    \* cache keys of 32 bytes: Ethereum transactions
    Worlds,      \* what each source may answer: a set of functions per service
    Root,        \* the Merkle root in the header with a given hash
    Proofs,      \* the Merkle blocks a daemon may answer
    Unreadable,  \* Solana transactions that do not deserialize from the cache
    MaxMoves     \* bound of the model: changes of the sources

Coins    == {"btc", "doge"}
Ethers   == {"eth", "op"}
Services == Coins \cup Ethers \cup {"sol"}

ASSUME KeyAssumption ==
    /\ Key = Hashes \cup Heights \cup Signatures \cup TxHashes
    /\ Hashes \cap (Heights \cup Signatures \cup TxHashes) = {}

\* A block is found under its hash; its header holds one Merkle root.
ASSUME WorldAssumption ==
    /\ DOMAIN Worlds = Services
    /\ \A s \in Coins : \A w \in Worlds[s] : \A b \in DOMAIN w \cap Hashes : w[b] = b
\* The methods of the services, and the keys under which they cache.
ASSUME RequestAssumption ==
    \A r \in Requests :
        \/ r.method = "getblockheader" /\ r.svc \in Coins /\ r.key \in Hashes
           /\ r.opt \in {"verbose", "hex"}
        \/ r.method = "getblockhash" /\ r.svc \in Coins /\ r.key \in Heights
        \/ r.method = "verify_tx" /\ r.svc \in Coins
        \/ r.method = "getTransaction" /\ r.svc = "sol" /\ r.key \in Signatures
        \/ r.method = "receipt" /\ r.svc \in Ethers /\ r.key \in TxHashes
        \/ r.method = "uncached" /\ r.svc \in Services
ASSUME ProofAssumption == \A p \in Proofs : p.block \in Hashes
ASSUME BoundAssumption == MaxMoves \in Nat

VARIABLES
    pc,      \* idle, proof, lookup, remove, fetch, insert, done or gone
    req,     \* the request of a call
    proof,   \* the Merkle block a verification has got from its daemon
    fetched, \* the value a call is about to insert
    answer,  \* what a call returned
    cache,   \* the response cache
    world,   \* what each source answers now
    moves,   \* changes of the sources so far
    seen     \* history: <<service, key, item>> that a source has answered or could have

callVars == <<pc, req, proof, fetched, answer>>
vars == <<pc, req, proof, fetched, answer, cache, world, moves, seen>>

Nothing == [item |-> "nothing"]
Failure == [item |-> "error"]
Null    == [item |-> "null"]

TrueOf(s, w) == {<<s, k, w[k]>> : k \in DOMAIN w}

NoRequest == [svc |-> "none", method |-> "none", key |-> "none", opt |-> "none"]

Init ==
    /\ pc = [c \in Call |-> "idle"]
    /\ req = [c \in Call |-> NoRequest]
    /\ proof = [c \in Call |-> Nothing]
    /\ fetched = [c \in Call |-> Nothing]
    /\ answer = [c \in Call |-> Nothing]
    /\ cache = Empty
    /\ world \in {w \in [Services -> UNION {Worlds[s] : s \in Services}] :
                    \A s \in Services : w[s] \in Worlds[s]}
    /\ moves = 0
    /\ seen = UNION {TrueOf(s, world[s]) : s \in Services}

-----------------------------------------------------------------------------
Goto(c, label) == pc' = [pc EXCEPT ![c] = label]
Return(c, a) == Goto(c, "done") /\ answer' = [answer EXCEPT ![c] = a]

\* The form in which a request stores its value.  getblockhash stores the
\* header, and a verification the header without the height.
StoredForm(r) ==
    CASE r.method = "getblockheader" -> r.opt
      [] r.method \in {"getblockhash", "verify_tx"} -> "header"
      [] r.method = "getTransaction" -> r.opt
      [] r.method = "receipt" -> "receipt"

ValueOf(r, item) == [svc |-> r.svc, item |-> item, form |-> StoredForm(r)]

\* The cache key of a call: a verification looks up the block of its proof.
CacheKey(c) == IF req[c].method = "verify_tx" THEN proof[c].block ELSE req[c].key

\* A verification ends with the comparison of the Merkle roots.
\* (Mutant: the comparison is dropped.)
VerdictUnchecked(c, v) == v
Verdict(c, v) == IF Root[v.item] = proof[c].root THEN v ELSE Failure

-----------------------------------------------------------------------------
\* A handler is called.  Parameters that do not parse are refused at once; a
\* verification asks its daemon first; methods without a cache go to their source.
Begin(c, r) ==
    /\ pc[c] = "idle"
    /\ req' = [req EXCEPT ![c] = r]
    /\ \/ Return(c, Failure)
       \/ /\ Goto(c, CASE r.method = "verify_tx" -> "proof"
                       [] r.method = "uncached" -> "fetch"
                       [] OTHER -> "lookup")
          /\ UNCHANGED answer
    /\ UNCHANGED <<proof, fetched, cache, world, moves, seen>>

\* gettxoutproof, and extract_matches on the reply: the daemon may fail, and the
\* tree may be malformed.
AskDaemon(c) ==
    /\ pc[c] = "proof"
    /\ \/ Return(c, Failure) /\ UNCHANGED proof
       \/ /\ \E p \in Proofs : proof' = [proof EXCEPT ![c] = p]
          /\ Goto(c, "lookup")
          /\ UNCHANGED answer
    /\ UNCHANGED <<req, fetched, cache, world, moves, seen>>

\* What a hit answers: the cached value as it is, but a verification needs a
\* header, and the Solana service a transaction.
Hit(c, v) ==
    CASE req[c].method = "verify_tx" ->
           IF v.form \in {"verbose", "header"} THEN Return(c, Verdict(c, v)) ELSE Return(c, Failure)
      [] req[c].method = "getTransaction" /\ v \in Unreadable ->
           Goto(c, "remove") /\ UNCHANGED answer
      [] OTHER -> Return(c, v)

LookUp(c) ==
    /\ pc[c] = "lookup"
    /\ IF CacheKey(c) \in DOMAIN cache
       THEN Hit(c, cache[CacheKey(c)])
       ELSE Goto(c, "fetch") /\ UNCHANGED answer
    /\ UNCHANGED <<req, proof, fetched, cache, world, moves, seen>>

\* (Mutant: `continue` instead of a removal.)
LookUpAgain(c) ==
    /\ pc[c] = "remove"
    /\ Goto(c, "lookup")
    /\ UNCHANGED <<req, proof, fetched, answer, cache, world, moves, seen>>

\* A cached transaction that did not deserialize is removed; by now another
\* call may have replaced it.
RemoveUnreadable(c) ==
    /\ pc[c] = "remove"
    /\ cache' = Removed(cache, CacheKey(c))
    /\ Goto(c, "fetch")
    /\ UNCHANGED <<req, proof, fetched, answer, world, moves, seen>>

\* A source that does not know the key: Ethereum answers null, which is not
\* cached, the others an error.
\* (Mutant: a receipt of null is cached as well.)
AbsentCached(c, r) ==
    IF r.method = "receipt"
    THEN /\ fetched' = [fetched EXCEPT ![c] = ValueOf(r, "null")]
         /\ Goto(c, "insert")
         /\ UNCHANGED answer
    ELSE Return(c, Failure) /\ UNCHANGED fetched
Absent(c, r) == Return(c, IF r.svc \in Ethers THEN Null ELSE Failure) /\ UNCHANGED fetched

\* The source is asked on a miss.  A Solana config is parsed only now.
Fetch(c) ==
    /\ pc[c] = "fetch"
    /\ LET r == req[c]
           k == CacheKey(c)
           known == world[r.svc]
       IN  \/ Return(c, Failure) /\ UNCHANGED fetched
           \/ r.opt # "badconfig" /\ k \notin DOMAIN known /\ Absent(c, r)
           \/ r.opt # "badconfig" /\ k \in DOMAIN known
              /\ IF r.method = "uncached"
                 THEN Return(c, [svc |-> r.svc, item |-> known[k], form |-> r.opt]) /\ UNCHANGED fetched
                 ELSE /\ fetched' = [fetched EXCEPT ![c] = ValueOf(r, known[k])]
                      /\ Goto(c, "insert")
                      /\ UNCHANGED answer
    /\ UNCHANGED <<req, proof, cache, world, moves, seen>>

\* What a miss answers: the value fetched, but getblockhash the hash only.
MissAnswer(c) ==
    CASE req[c].method = "verify_tx" -> Verdict(c, fetched[c])
      [] req[c].method = "getblockhash" -> [fetched[c] EXCEPT !.form = "hash"]
      [] OTHER -> fetched[c]

Insert(c) ==
    /\ pc[c] = "insert"
    /\ cache' = Inserted(cache, CacheKey(c), fetched[c])
    /\ Return(c, MissAnswer(c))
    /\ UNCHANGED <<req, proof, fetched, world, moves, seen>>

\* The HTTP client goes away at one of the handler's awaits.
Disconnect(c) ==
    /\ pc[c] \in {"lookup", "remove", "fetch", "insert"}
    /\ Goto(c, "gone")
    /\ UNCHANGED <<req, proof, fetched, answer, cache, world, moves, seen>>

\* A source moves on: a block, a reorganisation, a receipt in another block.
Move(s) ==
    /\ moves < MaxMoves
    /\ \E w \in Worlds[s] \ {world[s]} :
         /\ world' = [world EXCEPT ![s] = w]
         /\ seen' = seen \cup TrueOf(s, w)
    /\ moves' = moves + 1
    /\ UNCHANGED <<callVars, cache>>

Handle(c) == \/ AskDaemon(c)
             \/ LookUp(c)
             \/ RemoveUnreadable(c)
             \/ Fetch(c)
             \/ Insert(c)

Served == (\A c \in Call : pc[c] \in {"done", "gone"}) /\ UNCHANGED vars

Next ==
    \/ \E c \in Call : (\E r \in Requests : Begin(c, r)) \/ Handle(c) \/ Disconnect(c)
    \/ \E s \in Services : Move(s)
    \/ Served

Spec == Init /\ [][Next]_vars

\* The runtime schedules every handler, and the sources answer.
FairSpec == Spec /\ \A c \in Call : WF_vars(Handle(c))
-----------------------------------------------------------------------------
(* Properties.                                                             *)

Items  == UNION {UNION {Range(w) : w \in Worlds[s]} : s \in Services}
Forms  == {"verbose", "hex", "header", "hash", "receipt"} \cup {r.opt : r \in Requests}
Values == [svc : Services, item : Items, form : Forms]

Labels == {"idle", "proof", "lookup", "remove", "fetch", "insert", "done", "gone"}

\* Type invariant.  A call that inserts holds a value, one that looks a proof up
\* holds the proof.
TypeOK ==
    /\ pc \in [Call -> Labels]
    /\ req \in [Call -> Requests \cup {NoRequest}]
    /\ proof \in [Call -> Proofs \cup {Nothing}]
    /\ fetched \in [Call -> Values \cup {Nothing}]
    /\ answer \in [Call -> Values \cup {Nothing, Failure, Null}]
    /\ DOMAIN cache \subseteq Key /\ \A k \in DOMAIN cache : cache[k] \in Values
    /\ DOMAIN world = Services /\ \A s \in Services : world[s] \in Worlds[s]
    /\ moves \in 0 .. MaxMoves
    /\ \A c \in Call :
         /\ (pc[c] = "idle") <=> (req[c] = NoRequest)
         /\ pc[c] = "insert" => fetched[c] \in Values
         /\ req[c].method = "verify_tx" /\ pc[c] \in {"lookup", "fetch", "insert"}
            => proof[c] \in Proofs

Known(k, v) == <<v.svc, k, v.item>> \in seen

\* Nothing is invented: whatever is cached, about to be cached, or answered under
\* a key is what the source it is attributed to had for this very key, now or
\* earlier, however the calls overlap and entries are evicted or removed in
\* between; errors and absences are never cached (btcrpc/mod.rs:139-228,
\* solrpc/mod.rs:382-423, ethrpc/mod.rs:173-196, 363-386, chainstate.rs:120-144).
NothingInvented ==
    /\ \A k \in DOMAIN cache : Known(k, cache[k])
    /\ \A c \in Call : pc[c] = "insert" => Known(CacheKey(c), fetched[c])
    /\ \A c \in Call : pc[c] = "done" /\ answer[c] \in Values => Known(CacheKey(c), answer[c])

\* A verification succeeds only on a proof whose Merkle root is that of its
\* block's header, and a P2P client has had this header on its best chain: a
\* daemon's header is never enough, wherever the other one was cached
\* (chainstate.rs:86-178).
ProofBacked ==
    \A c \in Call :
        pc[c] = "done" /\ req[c].method = "verify_tx" /\ answer[c] # Failure
        => /\ proof[c].root = Root[proof[c].block]
           /\ \E s \in Coins : <<s, proof[c].block, proof[c].block>> \in seen

\* Every call that has begun is answered, unless its client goes away: a cached
\* value that does not deserialize is not met again and again (solrpc/mod.rs:383-395).
CallEnds == \A c \in Call : pc[c] # "idle" ~> pc[c] \in {"done", "gone"}

\* The form a request asks for: a hash, a header in hex or JSON with the height, a
\* transaction encoded according to its config.
AskedForm(r) == IF r.method = "getblockhash" THEN "hash" ELSE r.opt

\* {"method":"getblockhash","params":[3200000]} (README.md:155), by "Endpoint for
\* Dogecoin-related operations" (server.rs:179) or its like for Bitcoin: the answer
\* has the form asked for, and is of the chain asked.
AnsweredAsAsked ==
    \A c \in Call :
        pc[c] = "done" /\ answer[c] \in Values /\ req[c].method # "verify_tx"
        => answer[c].svc = req[c].svc /\ answer[c].form = AskedForm(req[c])

Correct(p, tx) == p.root = Root[p.block] /\ tx \in p.matches

\* "If it is correct, it returns origin hash; if it is wrong, it returns an error."
\* (README.md:114): once the header is at hand, a verification succeeds just if the
\* proof has the Merkle root of its block and holds the transaction.
VerdictRight ==
    [][\A c \in Call :
         req[c].method = "verify_tx" /\ pc[c] \in {"lookup", "insert"} /\ pc'[c] = "done"
         => (answer'[c] # Failure <=> Correct(proof[c], req[c].key))]_vars
=============================================================================
