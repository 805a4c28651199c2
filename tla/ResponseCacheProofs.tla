-------------------------- MODULE ResponseCacheProofs --------------------------
(***************************************************************************)
(* Theorems about the services on the shared cache, for any requests, any  *)
(* keys, any behaviour of the sources and any size of the cache.           *)
(*                                                                         *)
(* What links an answer to its source are the steps in between: where a    *)
(* call stands tells its method (AtWork), the history holds all that the   *)
(* sources answer (SeenSound), and under the hash of a block there is only *)
(* what a P2P client has answered (BlocksOfCoins).                         *)
(***************************************************************************)
EXTENDS ResponseCache, TLAPS

\* Only methods with a cache come to use it, and only Solana's removes.
AtWork ==
    \A c \in Call :
        /\ pc[c] \in {"lookup", "remove", "insert"} => req[c].method # "uncached"
        /\ pc[c] = "remove" => req[c].method = "getTransaction"
        /\ pc[c] = "proof" => req[c].method = "verify_tx"

\* What the sources answer is in the history, and a block's hash names the block.
SeenSound ==
    /\ \A s \in Services : \A k \in DOMAIN world[s] : <<s, k, world[s][k]>> \in seen
    /\ \A s \in Coins, k \in Hashes, i \in Items : <<s, k, i>> \in seen => i = k

\* What is stored under a block's hash comes from a P2P client.
BlocksOfCoins ==
    /\ \A k \in DOMAIN cache \cap Hashes : cache[k].svc \in Coins
    /\ \A c \in Call : pc[c] = "insert" /\ CacheKey(c) \in Hashes => fetched[c].svc \in Coins

RInv == TypeOK /\ AtWork /\ SeenSound /\ BlocksOfCoins /\ NothingInvented /\ ProofBacked

-----------------------------------------------------------------------------
(* Values, keys and the map.                                               *)

LEMMA ErrorsAreNoValues == Nothing \notin Values /\ Failure \notin Values /\ Null \notin Values
  BY DEF Nothing, Failure, Null, Values

LEMMA ErrorsDiffer == Failure # Null /\ Failure # Nothing
  BY DEF Nothing, Failure, Null

LEMMA RequestTyped ==
    ASSUME NEW r \in Requests
    PROVE  /\ r.svc \in Services /\ r # NoRequest
           /\ r.method \notin {"uncached", "verify_tx"} => r.key \in Key
           /\ r.method # "uncached" => StoredForm(r) \in Forms
           /\ r.opt \in Forms
  BY RequestAssumption, KeyAssumption DEF Services, NoRequest, StoredForm, Forms

LEMMA ItemTyped ==
    ASSUME NEW s \in Services, NEW w \in Worlds[s], NEW k \in DOMAIN w
    PROVE  w[k] \in Items
  BY DEF Items, Range

LEMMA ValueTyped ==
    ASSUME NEW s \in Services, NEW i \in Items, NEW f \in Forms, NEW k, <<s, k, i>> \in seen
    PROVE  \E x \in Values : /\ x = [svc |-> s, item |-> i, form |-> f]
                              /\ Known(k, x) /\ x.svc = s
<1> DEFINE y == [svc |-> s, item |-> i, form |-> f]
<1>1. y \in Values /\ Known(k, y) /\ y.svc = s
  BY DEF Values, Known
<1> QED
  BY <1>1

\* An entry after an insert is the new one, or was there before.
LEMMA InsertedEntries ==
    ASSUME NEW m, NEW k, NEW x, NEW j \in DOMAIN Inserted(m, k, x)
    PROVE  \/ j = k /\ Inserted(m, k, x)[j] = x
           \/ j \in DOMAIN m /\ Inserted(m, k, x)[j] = m[j]
  BY DEF Inserted, With, Evicted, Removed

LEMMA RemovedEntries ==
    ASSUME NEW m, NEW k, NEW j \in DOMAIN Removed(m, k)
    PROVE  j \in DOMAIN m /\ Removed(m, k)[j] = m[j]
  BY DEF Removed

LEMMA CacheKeyTyped ==
    ASSUME TypeOK, AtWork, NEW c \in Call, pc[c] \in {"lookup", "remove", "insert"}
    PROVE  CacheKey(c) \in Key
  BY RequestTyped, ProofAssumption, KeyAssumption DEF TypeOK, AtWork, CacheKey

-----------------------------------------------------------------------------
(* Steps.  Most change one call only and leave the cache and the sources.  *)

\* What a step of one call has to show for that call.
CallFits(c) ==
    /\ pc[c] \in Labels
    /\ req[c] \in Requests \cup {NoRequest} /\ (pc[c] = "idle" <=> req[c] = NoRequest)
    /\ proof[c] \in Proofs \cup {Nothing}
    /\ fetched[c] \in Values \cup {Nothing}
    /\ answer[c] \in Values \cup {Nothing, Failure, Null}
    /\ pc[c] = "insert" => fetched[c] \in Values
    /\ req[c].method = "verify_tx" /\ pc[c] \in {"lookup", "fetch", "insert"} => proof[c] \in Proofs
    /\ pc[c] \in {"lookup", "remove", "insert"} => req[c].method # "uncached"
    /\ pc[c] = "remove" => req[c].method = "getTransaction"
    /\ pc[c] = "proof" => req[c].method = "verify_tx"
    /\ pc[c] = "insert" /\ CacheKey(c) \in Hashes => fetched[c].svc \in Coins
    /\ pc[c] = "insert" => Known(CacheKey(c), fetched[c])
    /\ pc[c] = "done" /\ answer[c] \in Values => Known(CacheKey(c), answer[c])
    /\ pc[c] = "done" /\ req[c].method = "verify_tx" /\ answer[c] # Failure
       => /\ proof[c].root = Root[proof[c].block]
          /\ \E s \in Coins : <<s, proof[c].block, proof[c].block>> \in seen

\* And for the cache and the sources.
CacheFits ==
    \A k \in DOMAIN cache : /\ k \in Key /\ cache[k] \in Values /\ Known(k, cache[k])
                            /\ k \in Hashes => cache[k].svc \in Coins

SourcesFit ==
    /\ DOMAIN world = Services /\ \A s \in Services : world[s] \in Worlds[s]
    /\ moves \in 0 .. MaxMoves
    /\ SeenSound

Functional ==
    /\ pc \in [Call -> Labels] /\ DOMAIN req = Call /\ DOMAIN proof = Call
    /\ DOMAIN fetched = Call /\ DOMAIN answer = Call
    /\ req = [c \in Call |-> req[c]] /\ proof = [c \in Call |-> proof[c]]
    /\ fetched = [c \in Call |-> fetched[c]] /\ answer = [c \in Call |-> answer[c]]

Fits == Functional /\ (\A c \in Call : CallFits(c)) /\ CacheFits /\ SourcesFit

LEMMA Parts == RInv <=> Fits
<1>1. RInv => Functional /\ CacheFits /\ SourcesFit
  BY DEF RInv, TypeOK, Functional, CacheFits, SourcesFit, BlocksOfCoins, NothingInvented
<1>2. ASSUME RInv, NEW c \in Call PROVE CallFits(c)
  BY <1>2 DEF RInv, TypeOK, AtWork, BlocksOfCoins, NothingInvented, ProofBacked, CallFits
<1>3. ASSUME Functional, \A c \in Call : CallFits(c), CacheFits, SourcesFit
      PROVE  RInv
  <2>1. /\ req \in [Call -> Requests \cup {NoRequest}] /\ proof \in [Call -> Proofs \cup {Nothing}]
        /\ fetched \in [Call -> Values \cup {Nothing}]
        /\ answer \in [Call -> Values \cup {Nothing, Failure, Null}]
    BY <1>3 DEF Functional, CallFits
  <2>2. TypeOK
    BY <1>3, <2>1 DEF TypeOK, Functional, CallFits, CacheFits, SourcesFit
  <2>3. AtWork /\ SeenSound /\ BlocksOfCoins /\ NothingInvented /\ ProofBacked
    BY <1>3 DEF AtWork, SourcesFit, BlocksOfCoins, NothingInvented, ProofBacked, CallFits, CacheFits
  <2> QED
    BY <2>2, <2>3 DEF RInv
<1> QED
  BY <1>1, <1>2, <1>3 DEF Fits

\* A call that is left alone fits as before: the history only grows.
LEMMA OtherCallFits ==
    ASSUME NEW d \in Call, CallFits(d), seen \subseteq seen',
           pc'[d] = pc[d], req'[d] = req[d], proof'[d] = proof[d],
           fetched'[d] = fetched[d], answer'[d] = answer[d]
    PROVE  CallFits(d)'
  BY DEF CallFits, CacheKey, Known

\* Only call c changes.
Only(c) ==
    /\ seen' = seen
    /\ \A d \in Call \ {c} : /\ pc'[d] = pc[d] /\ req'[d] = req[d] /\ proof'[d] = proof[d]
                            /\ fetched'[d] = fetched[d] /\ answer'[d] = answer[d]

LEMMA OneCall ==
    ASSUME RInv, NEW c \in Call, Only(c), Functional', CallFits(c)', CacheFits', SourcesFit'
    PROVE  RInv'
<1>1. \A d \in Call : CallFits(d)'
  BY Parts, OtherCallFits DEF Only, Fits
<1>2. Fits'
  BY <1>1 DEF Fits
<1> QED
  BY <1>2, Parts, PTL

LEMMA SourcesStay ==
    ASSUME SourcesFit, UNCHANGED <<world, moves, seen>>
    PROVE  SourcesFit'
  BY DEF SourcesFit, SeenSound

LEMMA CacheStays ==
    ASSUME CacheFits, UNCHANGED <<cache, seen>>
    PROVE  CacheFits'
  BY DEF CacheFits, Known

LEMMA BeginKeeps ==
    ASSUME RInv, NEW c \in Call, NEW r \in Requests, Begin(c, r)
    PROVE  RInv'
<1>1. Functional /\ CallFits(c) /\ CacheFits /\ SourcesFit
  BY Parts DEF Fits
<1>2. /\ req' = [req EXCEPT ![c] = r] /\ pc[c] = "idle"
      /\ UNCHANGED <<proof, fetched, cache, world, moves, seen>>
      /\ \/ pc' = [pc EXCEPT ![c] = "done"] /\ answer' = [answer EXCEPT ![c] = Failure]
         \/ answer' = answer /\ r.method = "verify_tx" /\ pc' = [pc EXCEPT ![c] = "proof"]
         \/ answer' = answer /\ r.method = "uncached" /\ pc' = [pc EXCEPT ![c] = "fetch"]
         \/ /\ answer' = answer /\ r.method \notin {"verify_tx", "uncached"}
            /\ pc' = [pc EXCEPT ![c] = "lookup"]
  BY DEF Begin, Return, Goto
<1>3. Functional' /\ Only(c)
  BY <1>1, <1>2 DEF Functional, Only, Labels
<1>4. CallFits(c)'
  BY <1>1, <1>2, RequestTyped, ErrorsAreNoValues DEF CallFits, Functional, Labels
<1> QED
  BY <1>1, <1>2, <1>3, <1>4, OneCall, SourcesStay, CacheStays

LEMMA AskDaemonKeeps ==
    ASSUME RInv, NEW c \in Call, AskDaemon(c)
    PROVE  RInv'
<1>1. Functional /\ CallFits(c) /\ CacheFits /\ SourcesFit
  BY Parts DEF Fits
<1>2. /\ pc[c] = "proof" /\ UNCHANGED <<req, fetched, cache, world, moves, seen>>
      /\ \/ /\ pc' = [pc EXCEPT ![c] = "done"] /\ answer' = [answer EXCEPT ![c] = Failure]
            /\ proof' = proof
         \/ \E p \in Proofs : /\ proof' = [proof EXCEPT ![c] = p] /\ answer' = answer
                              /\ pc' = [pc EXCEPT ![c] = "lookup"]
  BY DEF AskDaemon, Return, Goto
<1>3. Functional' /\ Only(c)
  BY <1>1, <1>2 DEF Functional, Only, Labels
<1>4. CallFits(c)'
  BY <1>1, <1>2, ErrorsAreNoValues DEF CallFits, Functional, Labels
<1> QED
  BY <1>1, <1>2, <1>3, <1>4, OneCall, SourcesStay, CacheStays

\* A call that returns fits when its answer does; the cache may change as well.
LEMMA ReturnAnswers ==
    ASSUME RInv, NEW c \in Call, NEW a, pc[c] # "idle", CacheFits',
           pc' = [pc EXCEPT ![c] = "done"], answer' = [answer EXCEPT ![c] = a],
           UNCHANGED <<req, proof, fetched, world, moves, seen>>,
           a \in {Failure, Null} \/ (a \in Values /\ Known(CacheKey(c), a)),
           req[c].method = "verify_tx" /\ a # Failure
           => /\ proof[c].root = Root[proof[c].block]
              /\ \E s \in Coins : <<s, proof[c].block, proof[c].block>> \in seen
    PROVE  RInv'
<1>1. Functional /\ CallFits(c) /\ SourcesFit
  BY Parts DEF Fits
<1>2. Functional' /\ Only(c)
  BY <1>1 DEF Functional, Only, Labels
<1>3. pc'[c] = "done" /\ answer'[c] = a /\ req'[c] = req[c] /\ proof'[c] = proof[c]
      /\ fetched'[c] = fetched[c] /\ seen' = seen /\ CacheKey(c)' = CacheKey(c)
  BY <1>1 DEF Functional, CacheKey
<1>4. CallFits(c)'
  BY <1>1, <1>3, ErrorsAreNoValues DEF CallFits, Labels, Known
<1> QED
  BY <1>1, <1>2, <1>4, OneCall, SourcesStay

\* A verdict that is no failure is on the header of the proof's block.
LEMMA VerdictBacked ==
    ASSUME RInv, NEW c \in Call, NEW v \in Values, proof[c] \in Proofs,
           Known(proof[c].block, v), v.svc \in Coins, Verdict(c, v) # Failure
    PROVE  /\ Verdict(c, v) = v /\ proof[c].root = Root[proof[c].block]
           /\ \E s \in Coins : <<s, proof[c].block, proof[c].block>> \in seen
<1>1. v.item \in Items /\ proof[c].block \in Hashes
  BY ProofAssumption DEF Values
<1>2. <<v.svc, proof[c].block, v.item>> \in seen
  BY DEF Known
<1>3. v.item = proof[c].block
  BY <1>1, <1>2 DEF RInv, SeenSound
<1>4. Root[v.item] = proof[c].root /\ Verdict(c, v) = v
  BY DEF Verdict
<1> QED
  BY <1>2, <1>3, <1>4

LEMMA LookUpKeeps ==
    ASSUME RInv, NEW c \in Call, LookUp(c)
    PROVE  RInv'
<1>1. Functional /\ CallFits(c) /\ CacheFits /\ SourcesFit
  BY Parts DEF Fits
<1> DEFINE hit == cache[CacheKey(c)]
<1>2. pc[c] = "lookup" /\ UNCHANGED <<req, proof, fetched, cache, world, moves, seen>>
  BY DEF LookUp
<1>3. \/ /\ CacheKey(c) \in DOMAIN cache /\ req[c].method = "verify_tx"
         /\ pc' = [pc EXCEPT ![c] = "done"]
         /\ \/ answer' = [answer EXCEPT ![c] = Verdict(c, hit)]
            \/ answer' = [answer EXCEPT ![c] = Failure]
      \/ /\ req[c].method = "getTransaction"
         /\ pc' = [pc EXCEPT ![c] = "remove"] /\ answer' = answer
      \/ /\ CacheKey(c) \in DOMAIN cache /\ req[c].method # "verify_tx"
         /\ pc' = [pc EXCEPT ![c] = "done"] /\ answer' = [answer EXCEPT ![c] = hit]
      \/ pc' = [pc EXCEPT ![c] = "fetch"] /\ answer' = answer
  BY DEF LookUp, Hit, Return, Goto
<1>4. CacheKey(c) \in DOMAIN cache => /\ hit \in Values /\ Known(CacheKey(c), hit)
                                      /\ CacheKey(c) \in Hashes => hit.svc \in Coins
  BY <1>1 DEF CacheFits
<1>5. req[c].method = "verify_tx" => /\ CacheKey(c) = proof[c].block /\ proof[c] \in Proofs
                                     /\ CacheKey(c) \in Hashes
  BY <1>1, <1>2, ProofAssumption DEF CallFits, CacheKey
<1>. pc[c] # "idle" /\ CacheFits'
  BY <1>1, <1>2, CacheStays
<1>6. CASE /\ CacheKey(c) \in DOMAIN cache /\ req[c].method = "verify_tx"
           /\ pc' = [pc EXCEPT ![c] = "done"]
           /\ \/ answer' = [answer EXCEPT ![c] = Verdict(c, hit)]
              \/ answer' = [answer EXCEPT ![c] = Failure]
  <2>1. PICK a \in {Verdict(c, hit), Failure} : answer' = [answer EXCEPT ![c] = a]
    BY <1>6
  <2>2. a # Failure => /\ a = hit /\ proof[c].root = Root[proof[c].block]
                       /\ \E s \in Coins : <<s, proof[c].block, proof[c].block>> \in seen
    <3>1. Verdict(c, hit) = hit \/ Verdict(c, hit) = Failure
      BY DEF Verdict
    <3>2. proof[c] \in Proofs /\ hit \in Values /\ Known(proof[c].block, hit) /\ hit.svc \in Coins
      BY <1>4, <1>5, <1>6 DEF Known
    <3> HIDE DEF hit
    <3> QED
      BY <2>1, <3>1, <3>2, VerdictBacked
  <2>3. a = Failure \/ (a \in Values /\ Known(CacheKey(c), a))
    BY <1>4, <1>6, <2>1, <2>2 DEF Known
  <2> QED
    BY <1>2, <1>6, <2>1, <2>2, <2>3, ReturnAnswers
<1>7. CASE /\ CacheKey(c) \in DOMAIN cache /\ req[c].method # "verify_tx"
           /\ pc' = [pc EXCEPT ![c] = "done"] /\ answer' = [answer EXCEPT ![c] = hit]
  <2> HIDE DEF hit
  <2> QED
    BY <1>2, <1>4, <1>7, ReturnAnswers
<1>8. CASE /\ answer' = answer
           /\ \/ req[c].method = "getTransaction" /\ pc' = [pc EXCEPT ![c] = "remove"]
              \/ pc' = [pc EXCEPT ![c] = "fetch"]
  <2>1. Functional' /\ Only(c)
    BY <1>1, <1>2, <1>8 DEF Functional, Only, Labels
  <2>2. CallFits(c)'
    BY <1>1, <1>2, <1>8 DEF CallFits, Functional, Labels
  <2> QED
    BY <1>1, <1>2, <2>1, <2>2, OneCall, SourcesStay, CacheStays
<1> QED
  BY <1>3, <1>6, <1>7, <1>8

LEMMA RemoveUnreadableKeeps ==
    ASSUME RInv, NEW c \in Call, RemoveUnreadable(c)
    PROVE  RInv'
<1>1. Functional /\ CallFits(c) /\ CacheFits /\ SourcesFit
  BY Parts DEF Fits
<1>2. /\ pc[c] = "remove" /\ UNCHANGED <<req, proof, fetched, answer, world, moves, seen>>
      /\ cache' = Removed(cache, CacheKey(c)) /\ pc' = [pc EXCEPT ![c] = "fetch"]
  BY DEF RemoveUnreadable, Goto
<1>3. Functional' /\ Only(c)
  BY <1>1, <1>2 DEF Functional, Only, Labels
<1>4. CallFits(c)'
  BY <1>1, <1>2 DEF CallFits, Functional, Labels
<1>5. CacheFits'
  BY <1>1, <1>2, RemovedEntries DEF CacheFits, Known
<1> QED
  BY <1>1, <1>2, <1>3, <1>4, <1>5, OneCall, SourcesStay

LEMMA FetchKeeps ==
    ASSUME RInv, NEW c \in Call, Fetch(c)
    PROVE  RInv'
<1>1. Functional /\ CallFits(c) /\ CacheFits /\ SourcesFit
  BY Parts DEF Fits
<1> DEFINE key == CacheKey(c)
           known == world[req[c].svc]
<1>2. pc[c] = "fetch" /\ UNCHANGED <<req, proof, cache, world, moves, seen>>
  BY DEF Fetch
<1>3. req[c] \in Requests /\ req[c].svc \in Services
  BY <1>1, <1>2, RequestTyped DEF CallFits
<1>. pc[c] # "idle" /\ CacheFits' /\ SourcesFit'
  BY <1>1, <1>2, CacheStays, SourcesStay
<1>4. \/ /\ pc' = [pc EXCEPT ![c] = "done"] /\ fetched' = fetched
         /\ \E a \in {Failure, Null} : /\ answer' = [answer EXCEPT ![c] = a]
                                       /\ a = Failure \/ req[c].svc \in Ethers
      \/ /\ key \in DOMAIN known /\ req[c].method = "uncached"
         /\ pc' = [pc EXCEPT ![c] = "done"] /\ fetched' = fetched
         /\ answer' = [answer EXCEPT ![c] = [svc |-> req[c].svc, item |-> known[key],
                                             form |-> req[c].opt]]
      \/ /\ key \in DOMAIN known /\ req[c].method # "uncached"
         /\ pc' = [pc EXCEPT ![c] = "insert"] /\ answer' = answer
         /\ fetched' = [fetched EXCEPT ![c] = ValueOf(req[c], known[key])]
  BY DEF Fetch, Absent, Return, Goto
<1>5. key \in DOMAIN known => /\ known[key] \in Items
                            /\ <<req[c].svc, key, known[key]>> \in seen
  BY <1>1, <1>3, ItemTyped DEF SourcesFit, SeenSound
<1>6. CASE /\ pc' = [pc EXCEPT ![c] = "done"] /\ fetched' = fetched
           /\ \E a \in {Failure, Null} : /\ answer' = [answer EXCEPT ![c] = a]
                                         /\ a = Failure \/ req[c].svc \in Ethers
  <2>1. PICK a \in {Failure, Null} : /\ answer' = [answer EXCEPT ![c] = a]
                                     /\ a = Failure \/ req[c].svc \in Ethers
    BY <1>6
  <2>2. req[c].method = "verify_tx" => a = Failure
    BY <1>3, <2>1, RequestAssumption DEF Ethers, Coins
  <2> QED
    BY <1>2, <1>6, <2>1, <2>2, ReturnAnswers
<1>7. CASE /\ key \in DOMAIN known /\ req[c].method = "uncached"
           /\ pc' = [pc EXCEPT ![c] = "done"] /\ fetched' = fetched
           /\ answer' = [answer EXCEPT ![c] = [svc |-> req[c].svc, item |-> known[key],
                                               form |-> req[c].opt]]
  <2>1. req[c].svc \in Services /\ known[key] \in Items /\ req[c].opt \in Forms
        /\ <<req[c].svc, key, known[key]>> \in seen
    BY <1>3, <1>5, <1>7, RequestTyped
  <2> HIDE DEF key, known
  <2>2. PICK a \in Values : /\ a = [svc |-> req[c].svc, item |-> known[key], form |-> req[c].opt]
                            /\ Known(key, a)
    BY <2>1, ValueTyped
  <2> QED
    BY <1>2, <1>7, <2>2, ReturnAnswers DEF key
<1>8. CASE /\ key \in DOMAIN known /\ req[c].method # "uncached"
           /\ pc' = [pc EXCEPT ![c] = "insert"] /\ answer' = answer
           /\ fetched' = [fetched EXCEPT ![c] = ValueOf(req[c], known[key])]
  <2>1. PICK x \in Values : /\ x = ValueOf(req[c], known[key]) /\ Known(key, x)
                            /\ x.svc = req[c].svc
    <3>1. req[c].svc \in Services /\ known[key] \in Items /\ StoredForm(req[c]) \in Forms
          /\ <<req[c].svc, key, known[key]>> \in seen
      BY <1>3, <1>5, <1>8, RequestTyped
    <3> HIDE DEF key, known
    <3> QED
      BY <3>1, ValueTyped DEF ValueOf
  <2>2. key \in Hashes => req[c].svc \in Coins
    BY <1>1, <1>2, <1>3, <1>8, RequestAssumption, KeyAssumption, ProofAssumption DEF CallFits, CacheKey
  <2>3. Functional' /\ Only(c)
    BY <1>1, <1>2, <1>8 DEF Functional, Only, Labels
  <2>4. pc'[c] = "insert" /\ answer'[c] = answer[c] /\ req'[c] = req[c] /\ proof'[c] = proof[c]
        /\ fetched'[c] = x /\ seen' = seen /\ CacheKey(c)' = CacheKey(c)
    BY <1>1, <1>2, <1>8, <2>1 DEF Functional, CacheKey
  <2>5. CallFits(c)'
    BY <1>1, <1>2, <1>8, <2>1, <2>2, <2>4 DEF CallFits, Labels, Known
  <2> QED
    BY <2>3, <2>5, OneCall
<1> QED
  BY <1>4, <1>6, <1>7, <1>8

LEMMA InsertKeeps ==
    ASSUME RInv, NEW c \in Call, Insert(c)
    PROVE  RInv'
<1>1. Functional /\ CallFits(c) /\ CacheFits /\ SourcesFit
  BY Parts DEF Fits
<1>2. /\ pc[c] = "insert" /\ UNCHANGED <<req, proof, fetched, world, moves, seen>>
      /\ cache' = Inserted(cache, CacheKey(c), fetched[c])
      /\ pc' = [pc EXCEPT ![c] = "done"] /\ answer' = [answer EXCEPT ![c] = MissAnswer(c)]
  BY DEF Insert, Return, Goto
<1>3. PICK x \in Values : /\ x = fetched[c] /\ Known(CacheKey(c), x)
                          /\ CacheKey(c) \in Hashes => x.svc \in Coins
  BY <1>1, <1>2 DEF CallFits
<1>4. CacheKey(c) \in Key
  BY <1>2, CacheKeyTyped DEF RInv
<1>5. CacheFits'
  <2>1. ASSUME NEW j \in DOMAIN cache'
        PROVE  \/ j = CacheKey(c) /\ cache'[j] = x
               \/ j \in DOMAIN cache /\ cache'[j] = cache[j]
    BY <1>2, <1>3, InsertedEntries
  <2> QED
    BY <1>1, <1>2, <1>3, <1>4, <2>1 DEF CacheFits, Known
<1>6. CASE req[c].method = "verify_tx"
  <2>1. PICK a \in {Verdict(c, x), Failure} : answer' = [answer EXCEPT ![c] = a]
    BY <1>2, <1>3, <1>6 DEF MissAnswer
  <2>2. proof[c] \in Proofs /\ CacheKey(c) = proof[c].block /\ proof[c].block \in Hashes
    BY <1>1, <1>2, <1>6, ProofAssumption DEF CallFits, CacheKey
  <2>3. Known(proof[c].block, x) /\ x.svc \in Coins
    BY <1>3, <2>2
  <2>4. a # Failure => /\ a = x /\ proof[c].root = Root[proof[c].block]
                       /\ \E s \in Coins : <<s, proof[c].block, proof[c].block>> \in seen
    BY <2>1, <2>2, <2>3, VerdictBacked
  <2> QED
    BY <1>2, <1>3, <1>5, <2>1, <2>4, ReturnAnswers
<1>7. CASE req[c].method # "verify_tx"
  <2>1. PICK a \in Values : answer' = [answer EXCEPT ![c] = a] /\ Known(CacheKey(c), a)
    <3>1. x.svc \in Services /\ x.item \in Items /\ "hash" \in Forms
          /\ x = [svc |-> x.svc, item |-> x.item, form |-> x.form]
      BY DEF Values, Forms
    <3>2. PICK h \in Values : /\ h = [svc |-> x.svc, item |-> x.item, form |-> "hash"]
                              /\ Known(CacheKey(c), h)
      BY <1>3, <3>1, ValueTyped DEF Known
    <3>3. [x EXCEPT !.form = "hash"] = h
      BY <3>1, <3>2
    <3> QED
      BY <1>2, <1>3, <1>7, <3>2, <3>3 DEF MissAnswer
  <2> QED
    BY <1>2, <1>5, <1>7, <2>1, ReturnAnswers
<1> QED
  BY <1>6, <1>7

LEMMA DisconnectKeeps ==
    ASSUME RInv, NEW c \in Call, Disconnect(c)
    PROVE  RInv'
<1>1. Functional /\ CallFits(c) /\ CacheFits /\ SourcesFit
  BY Parts DEF Fits
<1>2. /\ pc[c] \in {"lookup", "remove", "fetch", "insert"} /\ pc' = [pc EXCEPT ![c] = "gone"]
      /\ UNCHANGED <<req, proof, fetched, answer, cache, world, moves, seen>>
  BY DEF Disconnect, Goto
<1>3. Functional' /\ Only(c)
  BY <1>1, <1>2 DEF Functional, Only, Labels
<1>4. CallFits(c)'
  BY <1>1, <1>2 DEF CallFits, Functional, Labels
<1> QED
  BY <1>1, <1>2, <1>3, <1>4, OneCall, SourcesStay, CacheStays

\* When a source moves on, what was true of its past stays known.
LEMMA MoveKeeps ==
    ASSUME RInv, NEW s \in Services, Move(s)
    PROVE  RInv'
<1>1. Functional /\ (\A c \in Call : CallFits(c)) /\ CacheFits /\ SourcesFit
  BY Parts DEF Fits
<1>2. PICK w \in Worlds[s] : /\ world' = [world EXCEPT ![s] = w]
                             /\ seen' = seen \cup TrueOf(s, w)
  BY DEF Move
<1>3. moves < MaxMoves /\ moves' = moves + 1
      /\ UNCHANGED <<pc, req, proof, fetched, answer, cache>>
  BY DEF Move, callVars
<1>4. Functional'
  BY <1>1, <1>3 DEF Functional
<1>5. \A c \in Call : CallFits(c)'
  BY <1>1, <1>2, <1>3, OtherCallFits
<1>6. CacheFits'
  BY <1>1, <1>2, <1>3 DEF CacheFits, Known
<1>7. DOMAIN world' = Services /\ (\A t \in Services : world'[t] \in Worlds[t])
      /\ moves' \in 0 .. MaxMoves
  BY <1>1, <1>2, <1>3, BoundAssumption DEF SourcesFit
<1>8. \A t \in Services : \A k \in DOMAIN world'[t] : <<t, k, world'[t][k]>> \in seen'
  BY <1>1, <1>2 DEF SourcesFit, SeenSound, TrueOf
<1>9. ASSUME NEW t \in Coins, NEW k \in Hashes, NEW i \in Items, <<t, k, i>> \in seen'
      PROVE  i = k
  <2>1. CASE <<t, k, i>> \in seen
    BY <1>1, <2>1 DEF SourcesFit, SeenSound
  <2>2. CASE t = s /\ k \in DOMAIN w /\ i = w[k]
    BY <2>2, WorldAssumption
  <2> QED
    BY <1>2, <1>9, <2>1, <2>2 DEF TrueOf
<1>10. Fits'
  BY <1>4, <1>5, <1>6, <1>7, <1>8, <1>9 DEF Fits, SourcesFit, SeenSound
<1> QED
  BY <1>10, Parts, PTL

LEMMA InitHolds == Init => RInv
<1> SUFFICES ASSUME Init PROVE Fits
  BY Parts
<1>1. Functional
  BY DEF Init, Functional, Labels
<1>2. NoRequest.method = "none"
  BY DEF NoRequest
<1>3. \A c \in Call : CallFits(c)
  BY <1>2 DEF Init, CallFits, Labels
<1>4. CacheFits
  BY DEF Init, CacheFits, Empty
<1>5. DOMAIN world = Services /\ (\A s \in Services : world[s] \in Worlds[s])
      /\ moves \in 0 .. MaxMoves
  BY BoundAssumption DEF Init
<1>6. \A s, k, i : <<s, k, i>> \in seen
                   <=> s \in Services /\ k \in DOMAIN world[s] /\ i = world[s][k]
  BY DEF Init, TrueOf
<1>7. SeenSound
  BY <1>5, <1>6, WorldAssumption DEF SeenSound, Services
<1> QED
  BY <1>1, <1>3, <1>4, <1>5, <1>7 DEF Fits, SourcesFit

LEMMA StepHolds == RInv /\ [Next]_vars => RInv'
<1> SUFFICES ASSUME RInv, [Next]_vars PROVE RInv'
  OBVIOUS
<1>1. CASE UNCHANGED vars
  BY <1>1 DEF vars, RInv, TypeOK, AtWork, SeenSound, BlocksOfCoins, NothingInvented, ProofBacked,
              CacheKey, Known
<1>2. ASSUME NEW c \in Call, NEW r \in Requests, Begin(c, r) PROVE RInv'
  BY <1>2, BeginKeeps
<1>3. ASSUME NEW c \in Call, Handle(c) PROVE RInv'
  BY <1>3, AskDaemonKeeps, LookUpKeeps, RemoveUnreadableKeeps, FetchKeeps, InsertKeeps DEF Handle
<1>4. ASSUME NEW c \in Call, Disconnect(c) PROVE RInv'
  BY <1>4, DisconnectKeeps
<1>5. ASSUME NEW s \in Services, Move(s) PROVE RInv'
  BY <1>5, MoveKeeps
<1> QED
  BY <1>1, <1>2, <1>3, <1>4, <1>5 DEF Next, Served

-----------------------------------------------------------------------------
LEMMA Invariant == Spec => []RInv
  BY InitHolds, StepHolds, PTL DEF Spec

\* The type invariant of the services: a call about to insert holds a value of a
\* source, and a verification that looks its block up holds the daemon's proof
\* (btcrpc/mod.rs, chainstate.rs, solrpc/mod.rs, ethrpc/mod.rs).
THEOREM TypeCorrect == Spec => []TypeOK
<1>1. RInv => TypeOK
  BY DEF RInv
<1> QED
  BY Invariant, <1>1, PTL

\* Nothing that is cached or answered under a key is anything but what the source
\* it is attributed to had for this key: for any calls, any sources that change as
\* they like, and any size of the cache, whatever it evicts (utils.rs:90-123).
THEOREM NothingIsInvented == Spec => []NothingInvented
<1>1. RInv => NothingInvented
  BY DEF RInv
<1> QED
  BY Invariant, <1>1, PTL

\* A verification succeeds only on the Merkle root of a header that a P2P client
\* had on its best chain, whatever the daemons answer (chainstate.rs:86-178).
THEOREM ProofsAreBacked == Spec => []ProofBacked
<1>1. RInv => ProofBacked
  BY DEF RInv
<1> QED
  BY Invariant, <1>1, PTL
=============================================================================
