----------------------------- MODULE DaemonClient -----------------------------
(***************************************************************************)
(* The JSON-RPC client of a daemon, src/src/daemon.rs: calls of several    *)
(* threads, each a number of batches, each batch under one id and cut into *)
(* HTTP requests.  A reply is matched with its query by position; the id   *)
(* tells only the batches apart.                                           *)
(*                                                                         *)
(* The daemon's chain moves between two HTTP requests, as in HeaderSync,   *)
(* whose FetchHeaders takes a whole call for one step.  What comes back    *)
(* may be out of order, short, late, or hold errors: of these the code     *)
(* excludes some by checks, and the rest shows in its asserts.             *)
(***************************************************************************)
EXTENDS Integers, FiniteSets, Sequences, SequencesExt

CONSTANTS
    Client,       \* threads that call the daemon
    Calls,        \* what they may call
    Block, Chain, \* as in HeaderSync
    None,
    BatchChunk,   \* queries per HTTP request: 10000
    HeightChunk,  \* heights per call of getblockheaders: 100000
    MaxMoves,     \* bound of the model: moves of the daemon's best block
    MaxFaults     \* bound of the model: deliveries out of the ordinary

ASSUME ChainAssumption ==
    /\ Chain \in [Block -> Seq(Block) \ {<<>>}]
    /\ \A b \in Block : Last(Chain[b]) = b
    /\ \A b \in Block : \A i \in DOMAIN Chain[b] :
            Chain[Chain[b][i]] = SubSeq(Chain[b], 1, i)
ASSUME NoBlockAssumption == None \notin Block
\* The tips come from the daemon; what is known are the headers of the index, which
\* holds the ancestors of its headers (HeaderSync, HeadersAreAChain).
ASSUME CallAssumption ==
    \A k \in Calls :
        /\ k \in [method : {"getbestblockhash", "getblockheader", "gettxoutproof",
                           "get_new_headers", "get_all_headers"},
                block : Block \cup {None}, known : SUBSET Block]
        /\ k.method \in {"get_new_headers", "get_all_headers"} => k.block \in Block
        /\ \A b \in k.known : Range(Chain[b]) \subseteq k.known
ASSUME BoundAssumption ==
    /\ BatchChunk \in Nat \ {0} /\ HeightChunk \in Nat \ {0}
    /\ MaxMoves \in Nat /\ MaxFaults \in Nat

VARIABLES
    best,    \* the daemon: its best block
    counter, \* message_id
    pc,      \* of a thread: idle, batch, replied, done or panicked
    call,    \* the call it makes
    stage,   \* the batch of the call it is in: only, info, hashes or headers
    id,      \* of that batch
    todo,    \* its queries that have not been sent
    got,     \* `results`: the values it has so far
    list,    \* the headers the call has collected
    height,  \* the height of the tip that get_all_headers has been told
    answer,
    stray,   \* replies to an earlier HTTP request that are still on their way
    window,  \* history: best blocks since the call began
    moves, faults

batchVars == <<counter, pc, stage, id, todo>>
daemonVars == <<best, stray, window, moves, faults>>
vars == <<batchVars, daemonVars, call, got, list, height, answer>>

Ok(v)  == [tag |-> "ok", val |-> v]
Error  == [tag |-> "err"]
NoCall == [method |-> "none", block |-> None, known |-> {}]

Init ==
    /\ best \in Block
    /\ counter = 0
    /\ pc = [c \in Client |-> "idle"] /\ call = [c \in Client |-> NoCall]
    /\ stage = [c \in Client |-> "only"] /\ id = [c \in Client |-> 0]
    /\ todo = [c \in Client |-> <<>>] /\ got = [c \in Client |-> <<>>]
    /\ list = [c \in Client |-> <<>>] /\ height = [c \in Client |-> 0]
    /\ answer = [c \in Client |-> Error]
    /\ stray = <<>>
    /\ window = [c \in Client |-> {}]
    /\ moves = 0 /\ faults = 0

-----------------------------------------------------------------------------
(* The daemon.                                                             *)

Query(m, x) == [method |-> m, arg |-> x]
Value(t, x) == [type |-> t, x |-> x]
NullValue   == Value("null", None)

Parent(b) == IF Len(Chain[b]) = 1 THEN None ELSE Chain[b][Len(Chain[b]) - 1]

Known(q) == CASE q.method = "getblockhash" -> q.arg < Len(Chain[best])
              [] q.method = "getbestblockhash" -> TRUE
              [] OTHER -> q.arg \in Block

Result(q) == CASE q.method = "getblockhash" -> Value("hash", Chain[best][q.arg + 1])
               [] q.method = "getbestblockhash" -> Value("hash", best)
               [] q.method = "getblockheader" -> Value("header", q.arg)
               [] q.method = "getblockheader verbose" -> Value("info", Len(Chain[q.arg]) - 1)
               [] q.method = "gettxoutproof" -> Value("proof", q.arg)

\* An error with a numeric code (coded), or without one (odd), has no result.
Reply(i, q) == IF Known(q) THEN [id |-> i, error |-> "none", result |-> Result(q)]
                           ELSE [id |-> i, error |-> "coded", result |-> NullValue]

Spoilt(reply, e) == [reply EXCEPT !.error = e, !.result = NullValue]

\* What may come back for replies in good order.
Deliveries(replies) ==
    {Reverse(replies), Tail(replies), Append(replies, Last(replies))}
    \cup {[replies EXCEPT ![i] = Spoilt(@, e)] : i \in DOMAIN replies, e \in {"coded", "odd"}}
    \cup {stray}

MoveBest(b) ==
    /\ b # best
    /\ moves < MaxMoves
    /\ best' = b /\ moves' = moves + 1
    /\ window' = [c \in Client |-> IF pc[c] = "idle" THEN {} ELSE window[c] \cup {b}]
    /\ UNCHANGED <<batchVars, call, got, list, height, answer, stray, faults>>

-----------------------------------------------------------------------------
(* Batches.                                                                *)

\* message_id.next(), under its mutex.
\* (Mutant: the counter is read, but not advanced.)
NextIdStuck == counter' = counter
NextId == counter' = counter + 1

StartBatch(c, s, queries) ==
    /\ NextId
    /\ id' = [id EXCEPT ![c] = counter']
    /\ stage' = [stage EXCEPT ![c] = s]
    /\ todo' = [todo EXCEPT ![c] = queries]
    /\ got' = [got EXCEPT ![c] = <<>>]
    /\ pc' = [pc EXCEPT ![c] = IF queries = <<>> THEN "replied" ELSE "batch"]

Leave(c, label) == pc' = [pc EXCEPT ![c] = label] /\ UNCHANGED <<counter, stage, id, todo, got>>
Return(c, a) == Leave(c, "done") /\ answer' = [answer EXCEPT ![c] = a]
Panic(c) == Leave(c, "panicked") /\ UNCHANGED answer

\* parse_jsonrpc_reply.  An error without a numeric code does not count as one;
\* it then depends on the id, and on a result, which is null.
\* (Mutant: the id is not looked at.)
ParsesAnyId(c, reply) == reply.error # "coded"
Parses(c, reply) == reply.error # "coded" /\ reply.id = id[c]

\* One HTTP request with the next queries of the batch.  The first reply that does
\* not parse fails the batch (the threshold of failures is 0).
SendReq(c) ==
    /\ pc[c] = "batch"
    /\ LET n       == IF Len(todo[c]) < BatchChunk THEN Len(todo[c]) ELSE BatchChunk
           replies == [i \in 1 .. n |-> Reply(id[c], todo[c][i])]
       IN  \/ /\ faults < MaxFaults /\ faults' = faults + 1
              /\ Return(c, Error)
              /\ UNCHANGED stray
           \/ \E delivered \in {replies} \cup Deliveries(replies) :
                /\ IF delivered = replies THEN UNCHANGED faults
                   ELSE faults < MaxFaults /\ faults' = faults + 1
                /\ stray' = replies
                /\ IF \A i \in DOMAIN delivered : Parses(c, delivered[i])
                   THEN /\ todo' = [todo EXCEPT ![c] = SubSeq(@, n + 1, Len(@))]
                        /\ got' = [got EXCEPT ![c] = @ \o [i \in DOMAIN delivered |-> delivered[i].result]]
                        /\ pc' = [pc EXCEPT ![c] = IF n = Len(todo[c]) THEN "replied" ELSE "batch"]
                        /\ UNCHANGED <<counter, stage, id, answer>>
                   ELSE Return(c, Error)
    /\ UNCHANGED <<best, window, moves, call, list, height>>

\* request: the batch of one query must have one result.  It is then parsed.
Single(c, type) == pc[c] = "replied" /\ stage[c] = "only" /\ Len(got[c]) = 1 /\ got[c][1].type = type

SingleFails(c, type) ==
    /\ pc[c] = "replied" /\ stage[c] = "only"
    /\ IF Len(got[c]) # 1 THEN Panic(c)
       ELSE got[c][1].type # type /\ Return(c, Error)
    /\ UNCHANGED <<daemonVars, call, list, height>>

-----------------------------------------------------------------------------
(* Calls.                                                                  *)

\* Heights from the n-th on, as many as one call of getblockheaders takes.
HeightsFrom(n, top) ==
    [i \in 1 .. (IF top + 1 - n < HeightChunk THEN top + 1 - n ELSE HeightChunk) |->
        Query("getblockhash", n + i - 1)]

Begin(c, k) ==
    /\ pc[c] = "idle"
    /\ call' = [call EXCEPT ![c] = k]
    /\ window' = [window EXCEPT ![c] = {best}]
    /\ CASE k.method = "get_new_headers" /\ k.block \in k.known ->
              Return(c, Ok(<<>>))
         [] k.method = "get_new_headers" /\ k.block \notin k.known ->
              StartBatch(c, "only", <<Query("getblockheader", k.block)>>) /\ UNCHANGED answer
         [] k.method = "get_all_headers" ->
              StartBatch(c, "info", <<Query("getblockheader verbose", k.block)>>) /\ UNCHANGED answer
         [] OTHER ->
              StartBatch(c, "only", <<Query(k.method, k.block)>>) /\ UNCHANGED answer
    /\ UNCHANGED <<best, stray, moves, faults, list, height>>

GetBestBlockHash(c) ==
    /\ call[c].method = "getbestblockhash"
    /\ \/ /\ Single(c, "hash")
          /\ Return(c, Ok(got[c][1].x))
          /\ UNCHANGED <<daemonVars, call, list, height>>
       \/ SingleFails(c, "hash")

GetBlockHeader(c) ==
    /\ call[c].method = "getblockheader"
    /\ \/ /\ Single(c, "header")
          /\ Return(c, Ok(got[c][1].x))
          /\ UNCHANGED <<daemonVars, call, list, height>>
       \/ SingleFails(c, "header")

GetTxOutProof(c) ==
    /\ call[c].method = "gettxoutproof"
    /\ \/ /\ Single(c, "proof")
          /\ Return(c, Ok(got[c][1].x))
          /\ UNCHANGED <<daemonVars, call, list, height>>
       \/ SingleFails(c, "proof")

\* From the tip back to a known header, or to the genesis block; then the headers
\* are reversed.
GetNewHeaders(c) ==
    /\ call[c].method = "get_new_headers"
    /\ \/ /\ Single(c, "header")
          /\ LET header == got[c][1].x
                 below  == Parent(header)
             IN  /\ list' = [list EXCEPT ![c] = Append(@, header)]
                 /\ IF below = None \/ below \in call[c].known
                    THEN Return(c, Ok(Reverse(list'[c])))
                    ELSE /\ StartBatch(c, "only", <<Query("getblockheader", below)>>)
                         /\ UNCHANGED answer
          /\ UNCHANGED <<daemonVars, call, height>>
       \/ SingleFails(c, "header")

\* get_all_headers: the height of the tip, whose absence is a panic.
GetTipHeight(c) ==
    /\ pc[c] = "replied" /\ stage[c] = "info"
    /\ IF Len(got[c]) # 1 \/ got[c][1].type # "info"
       THEN Panic(c) /\ UNCHANGED height
       ELSE /\ height' = [height EXCEPT ![c] = got[c][1].x]
            /\ StartBatch(c, "hashes", HeightsFrom(0, got[c][1].x))
            /\ UNCHANGED answer
    /\ UNCHANGED <<daemonVars, call, list>>

\* getblockheaders: whatever came for the heights is asked for in a second batch.
GetBlockHashes(c) ==
    /\ pc[c] = "replied" /\ stage[c] = "hashes"
    /\ StartBatch(c, "headers", [i \in DOMAIN got[c] |-> Query("getblockheader", got[c][i].x)])
    /\ UNCHANGED <<daemonVars, call, list, height, answer>>

\* (Mutant: the headers are not held against one another.)
IsChainToUnchecked(headers, tip) == TRUE
IsChainTo(headers, tip) ==
    /\ \A i \in DOMAIN headers : Parent(headers[i]) = IF i = 1 THEN None ELSE headers[i - 1]
    /\ headers # <<>> /\ Last(headers) = tip

\* (Mutant: the number of headers is not asserted.)
AsManyUnchecked(headers, heights) == TRUE
\* (Mutant: every chunk but the last has that many, so has it.)
AsManyAsAChunk(headers, heights) == Len(headers) = HeightChunk
AsMany(headers, heights) == Len(headers) = Len(heights)

GetBlockHeaders(c) ==
    /\ pc[c] = "replied" /\ stage[c] = "headers"
    /\ LET headers == [i \in DOMAIN got[c] |-> got[c][i].x]
           all     == list[c] \o headers
       IN  IF \E i \in DOMAIN got[c] : got[c][i].type # "header"
           THEN Return(c, Error) /\ UNCHANGED list
           ELSE IF ~ AsMany(headers, HeightsFrom(Len(list[c]), height[c]))
           THEN Panic(c) /\ UNCHANGED list
           ELSE /\ list' = [list EXCEPT ![c] = all]
                /\ IF Len(all) <= height[c]
                   THEN StartBatch(c, "hashes", HeightsFrom(Len(all), height[c])) /\ UNCHANGED answer
                   ELSE IF IsChainTo(all, call[c].block) THEN Return(c, Ok(all)) ELSE Panic(c)
    /\ UNCHANGED <<daemonVars, call, height>>

GetAllHeaders(c) == GetTipHeight(c) \/ GetBlockHashes(c) \/ GetBlockHeaders(c)

AllDone == (\A c \in Client : pc[c] \in {"done", "panicked"}) /\ UNCHANGED vars

Next ==
    \/ \E b \in Block : MoveBest(b)
    \/ \E c \in Client :
         \/ \E k \in Calls : Begin(c, k)
         \/ SendReq(c)
         \/ GetBestBlockHash(c) \/ GetBlockHeader(c) \/ GetTxOutProof(c)
         \/ GetNewHeaders(c) \/ GetAllHeaders(c)
    \/ AllDone

Spec == Init /\ [][Next]_vars
-----------------------------------------------------------------------------
(* Properties.                                                             *)

Done(c, m) == pc[c] = "done" /\ call[c].method = m /\ answer[c].tag = "ok"

\* Type invariant.  The results of a batch never outnumber, by more than what a
\* delivery adds, the queries that were sent, and the headers of get_all_headers
\* never the heights up to the tip.
TypeOK ==
    /\ best \in Block /\ counter \in Nat
    /\ pc \in [Client -> {"idle", "batch", "replied", "done", "panicked"}]
    /\ call \in [Client -> Calls \cup {NoCall}]
    /\ stage \in [Client -> {"only", "info", "hashes", "headers"}]
    /\ id \in [Client -> 0 .. counter]
    /\ \A c \in Client :
         /\ pc[c] = "batch" => todo[c] # <<>>
         /\ \A i \in DOMAIN got[c] : got[c][i].type \in {"hash", "header", "info", "proof", "null"}
         /\ call[c].method = "get_all_headers" => Len(list[c]) <= height[c] + 1
         /\ answer[c] = Error \/ answer[c].tag = "ok"
         /\ window[c] \subseteq Block
    /\ moves \in 0 .. MaxMoves /\ faults \in 0 .. MaxFaults

\* A call with one query per batch is answered with what was asked for, or not at
\* all: no late reply to another thread's batch, no repeated, missing or null one,
\* is taken for it (daemon.rs:45-76, 114-118, 136).
OwnReply ==
    \A c \in Client :
        /\ Done(c, "getblockheader") \/ Done(c, "gettxoutproof") => answer[c].val = call[c].block
        /\ Done(c, "getbestblockhash") => answer[c].val \in window[c]

\* get_new_headers returns the headers from above the last known one up to the tip
\* it was asked for, in this order, whatever block is best by then
\* (daemon.rs:284-315).
NewHeadersAttach ==
    \A c \in Client :
        Done(c, "get_new_headers")
        => LET chain == Chain[call[c].block]
           IN  /\ IsSuffix(answer[c].val, chain)
               /\ Range(chain) \cap call[c].known = Range(chain) \ Range(answer[c].val)

\* get_all_headers returns the chain of the tip it was asked for and nothing else,
\* although the daemon's chain may be another at each of its requests, and although
\* replies that are out of order pass the check of the id (daemon.rs:130-169,
\* 234-282).
AllHeadersExact ==
    \A c \in Client : Done(c, "get_all_headers") => answer[c].val = Chain[call[c].block]

\* The asserts of get_all_headers (daemon.rs:266-280) tell a reorganisation from the
\* rest: with replies in good order they only end the thread if, at some moment of
\* the call, the tip it was asked for was not on the daemon's best chain.  Blocks
\* on top of the tip, and the cuts between chunks, do not trip them.
PanicsOnReorg ==
    faults = 0 => \A c \in Client :
        pc[c] = "panicked" => \E b \in window[c] : call[c].block \notin Range(Chain[b])
=============================================================================
