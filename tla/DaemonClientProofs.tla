-------------------------- MODULE DaemonClientProofs --------------------------
(***************************************************************************)
(* Theorems about the JSON-RPC client, for any number of threads, any tree *)
(* of blocks, any sizes of batches and chunks, and any number of moves of  *)
(* the daemon's best block and of deliveries out of the ordinary.          *)
(*                                                                         *)
(* No property is inductive.  IInv adds what the values and queries on     *)
(* their way are (Typed), where a call stands (Staged), that no late reply *)
(* carries the id of a batch that has not been sent (Fresh), what a batch  *)
(* of one query asks and gets (Singles), how far get_new_headers has       *)
(* climbed (Climbed), and that get_all_headers, while nothing goes wrong,  *)
(* walks up the chain of its tip (OnTrack).                                *)
(***************************************************************************)
EXTENDS DaemonClient, SequenceTheorems, WellFoundedInduction, TLAPS

Values == {Value(t, b) : t \in {"hash", "header", "proof"}, b \in Block}
          \cup {Value("info", n) : n \in Nat} \cup {NullValue}

Queries == {q \in [method : {"getblockhash", "getbestblockhash", "getblockheader",
                             "getblockheader verbose", "gettxoutproof"},
                   arg : Block \cup {None} \cup Nat] :
               q.method = "getblockhash" => q.arg \in Nat}

Replies == [id : Nat, error : {"none", "coded", "odd"}, result : Values]

Open(c) == pc[c] \in {"batch", "replied"}

BatchTyped ==
    /\ counter \in Nat
    /\ pc \in [Client -> {"idle", "batch", "replied", "done", "panicked"}]
    /\ stage \in [Client -> {"only", "info", "hashes", "headers"}]
    /\ id \in [Client -> 0 .. counter]
    /\ todo \in [Client -> Seq(Queries)] /\ got \in [Client -> Seq(Values)]

CallTyped ==
    /\ call \in [Client -> Calls \cup {NoCall}]
    /\ list \in [Client -> Seq(Block)] /\ height \in [Client -> Nat]
    /\ DOMAIN answer = Client /\ \A c \in Client : answer[c] = Error \/ answer[c].tag = "ok"
    /\ window \in [Client -> SUBSET Block]

DaemonTyped ==
    /\ best \in Block /\ moves \in 0 .. MaxMoves /\ faults \in 0 .. MaxFaults
    /\ stray \in Seq(Replies) /\ \A i \in DOMAIN stray : stray[i].id <= counter

Typed == BatchTyped /\ CallTyped /\ DaemonTyped

\* Queries are left exactly while a batch is under way; the best block is in the
\* window of a call; get_all_headers, and nothing else, has several stages, and
\* heights are left in all of them.
StagedAt(c) ==
    /\ pc[c] = "batch" => todo[c] # <<>>
    /\ pc[c] = "replied" => todo[c] = <<>>
    /\ pc[c] = "idle" => list[c] = <<>>
    /\ pc[c] # "idle" => best \in window[c] /\ call[c] \in Calls
    /\ call[c].method = "get_all_headers" => Len(list[c]) <= height[c] + 1
    /\ Open(c) => /\ stage[c] = "only" <=> call[c].method # "get_all_headers"
                  /\ stage[c] = "info" => list[c] = <<>>
                  /\ stage[c] \in {"hashes", "headers"} => Len(list[c]) <= height[c]

Staged == \A c \in Client : StagedAt(c)

\* Batches under way have ids of their own, and nothing has come back yet for one
\* that has a single query.
FreshAt(c) ==
    pc[c] = "batch"
    => /\ \A d \in Client \ {c} : pc[d] = "batch" => id[c] # id[d]
       /\ stage[c] = "only" => \A i \in DOMAIN stray : stray[i].id # id[c]

Fresh == \A c \in Client : FreshAt(c)

\* The header get_new_headers has come to, counted from its tip.
Rung(c) == Chain[call[c].block][Len(Chain[call[c].block]) - Len(list[c])]

\* The block a batch of one query is about, and what comes back for it.
Subject(c) == IF call[c].method = "get_new_headers" THEN Rung(c) ELSE call[c].block

Expects(c) == IF call[c].method = "getbestblockhash" THEN "hash"
              ELSE IF call[c].method = "gettxoutproof" THEN "proof" ELSE "header"

Asked(c) == IF call[c].method = "get_new_headers" THEN Query("getblockheader", Subject(c))
            ELSE Query(call[c].method, Subject(c))

Fits(c, v) == IF call[c].method = "getbestblockhash"
              THEN \E b \in window[c] : v = Value("hash", b)
              ELSE v = Value(Expects(c), Subject(c))

\* A batch of one query asks for what the call is about, and gets it, or null.
SinglesAt(c) ==
    stage[c] = "only"
    => /\ pc[c] = "batch" => todo[c] = <<Asked(c)>> /\ got[c] = <<>>
       /\ pc[c] = "replied"
          => /\ \A i \in DOMAIN got[c] : got[c][i] = NullValue \/ Fits(c, got[c][i])
             /\ faults = 0 => Len(got[c]) = 1

Singles == \A c \in Client : SinglesAt(c)

\* get_new_headers has collected the headers from its tip down, and found none of
\* them, nor the one it asks for, among the known.
ClimbedAt(c) ==
    call[c].method = "get_new_headers" /\ Open(c)
    => LET chain == Chain[call[c].block]
           n == Len(chain)
       IN  /\ Len(list[c]) < n
           /\ \A i \in 1 .. Len(list[c]) : list[c][i] = chain[n - i + 1]
           /\ \A i \in 1 .. Len(list[c]) + 1 : chain[n - i + 1] \notin call[c].known

Climbed == \A c \in Client : ClimbedAt(c)

\* How many queries a batch of get_all_headers has; the query about the m-th block of
\* the chain, and the value that comes back if the tip is on the daemon's best chain.
Expected(c, top) == IF stage[c] = "info" THEN 1 ELSE Len(HeightsFrom(Len(list[c]), top))

ExpectedQuery(s, tip, m) ==
    IF s = "info" THEN Query("getblockheader verbose", tip)
    ELSE IF s = "hashes" THEN Query("getblockhash", m - 1)
    ELSE Query("getblockheader", Chain[tip][m])

ExpectedValue(s, tip, m) ==
    IF s = "info" THEN Value("info", Len(Chain[tip]) - 1)
    ELSE Value(IF s = "hashes" THEN "hash" ELSE "header", Chain[tip][m])

\* Nothing has gone wrong, and no reorganisation has taken the tip away.
Calm(c) == faults = 0 /\ \A b \in window[c] : call[c].block \in Range(Chain[b])

LinedUp(c) ==
    LET chain == Chain[call[c].block]
        top   == Len(chain) - 1
    IN  /\ stage[c] # "info"
           => height[c] = top /\ \A i \in 1 .. Len(list[c]) : list[c][i] = chain[i]
        /\ Len(got[c]) + Len(todo[c]) = Expected(c, top)
        /\ \A i \in DOMAIN got[c] : got[c][i] = ExpectedValue(stage[c], call[c].block, Len(list[c]) + i)
        /\ \A i \in DOMAIN todo[c] :
             todo[c][i] = ExpectedQuery(stage[c], call[c].block, Len(list[c]) + Len(got[c]) + i)

OnTrackAt(c) == call[c].method = "get_all_headers" /\ Calm(c) /\ Open(c) => LinedUp(c)

OnTrack == \A c \in Client : OnTrackAt(c)

IInv == /\ Typed
        /\ Staged
        /\ Fresh
        /\ Singles
        /\ Climbed
        /\ OnTrack
        /\ OwnReply
        /\ NewHeadersAttach
        /\ AllHeadersExact
        /\ PanicsOnReorg

LEMMA TypedIsTypeOK ==
    ASSUME Typed, Staged
    PROVE  TypeOK
<1>1. \A c \in Client : \A i \in DOMAIN got[c] :
        got[c][i].type \in {"hash", "header", "info", "proof", "null"}
  <2> SUFFICES ASSUME NEW c \in Client, NEW i \in DOMAIN got[c]
               PROVE  got[c][i].type \in {"hash", "header", "info", "proof", "null"}
    OBVIOUS
  <2>1. got[c][i] \in Values
    BY DEF Typed, BatchTyped
  <2>. QED  BY <2>1 DEF Values, Value, NullValue
<1>. QED  BY <1>1 DEF Typed, BatchTyped, CallTyped, DaemonTyped, Staged, StagedAt, TypeOK

-----------------------------------------------------------------------------
(* Chains.                                                                  *)

LEMMA ChainFacts ==
    ASSUME NEW x \in Block
    PROVE  /\ Chain[x] \in Seq(Block) /\ Len(Chain[x]) \in Nat \ {0}
           /\ DOMAIN Chain[x] = 1 .. Len(Chain[x])
           /\ Chain[x][Len(Chain[x])] = x
           /\ Range(Chain[x]) = {Chain[x][i] : i \in 1 .. Len(Chain[x])}
<1>1. Chain[x] \in Seq(Block) /\ Chain[x] # <<>>
  BY ChainAssumption
<1>2. Len(Chain[x]) \in Nat \ {0}
  BY <1>1, EmptySeq
<1>3. Last(Chain[x]) = x
  BY ChainAssumption
<1>4. DOMAIN Chain[x] = 1 .. Len(Chain[x])
  BY <1>1, LenProperties
<1>. QED  BY <1>1, <1>2, <1>3, <1>4 DEF Last, Range

\* The chain of a block of a chain is the part below it.
LEMMA Ancestor ==
    ASSUME NEW x \in Block, NEW i \in 1 .. Len(Chain[x])
    PROVE  /\ Chain[x][i] \in Block
           /\ Len(Chain[Chain[x][i]]) = i
           /\ \A j \in 1 .. i : Chain[Chain[x][i]][j] = Chain[x][j]
           /\ Parent(Chain[x][i]) = IF i = 1 THEN None ELSE Chain[x][i - 1]
<1>1. Chain[x] \in Seq(Block) /\ i \in DOMAIN Chain[x]
  BY ChainFacts
<1>2. Chain[x][i] \in Block
  BY <1>1, ElementOfSeq
<1>3. Chain[Chain[x][i]] = SubSeq(Chain[x], 1, i)
  BY <1>1, ChainAssumption
<1>4. /\ Len(SubSeq(Chain[x], 1, i)) = i
      /\ \A j \in 1 .. i : SubSeq(Chain[x], 1, i)[j] = Chain[x][j]
  <2>1. \A j \in 1 .. i : Chain[x][j] \in Block
    BY <1>1, ElementOfSeq, ChainFacts
  <2>. QED  BY <2>1, SubSeqProperties
<1>5. Parent(Chain[x][i]) = IF i = 1 THEN None ELSE Chain[x][i - 1]
  <2>1. i # 1 => i - 1 \in 1 .. i
    OBVIOUS
  <2>. QED  BY <1>3, <1>4, <2>1 DEF Parent
<1>. QED  BY <1>2, <1>3, <1>4, <1>5

\* No block is twice in a chain.
LEMMA ChainInjective ==
    ASSUME NEW x \in Block, NEW i \in 1 .. Len(Chain[x]), NEW j \in 1 .. Len(Chain[x]),
           Chain[x][i] = Chain[x][j]
    PROVE  i = j
  BY Ancestor

\* A block that is on a chain is at the height its own chain gives it.
LEMMA OnChain ==
    ASSUME NEW x \in Block, NEW b \in Block, x \in Range(Chain[b])
    PROVE  /\ Len(Chain[x]) <= Len(Chain[b])
           /\ \A i \in 1 .. Len(Chain[x]) : Chain[b][i] = Chain[x][i]
<1>0. Range(Chain[b]) = {Chain[b][i] : i \in 1 .. Len(Chain[b])}
  BY ChainFacts
<1>1. PICK n \in 1 .. Len(Chain[b]) : x = Chain[b][n]
  BY <1>0
<1>2. Len(Chain[x]) = n /\ \A i \in 1 .. n : Chain[x][i] = Chain[b][i]
  BY <1>1, Ancestor
<1>3. n <= Len(Chain[b])
  BY ChainFacts
<1>. QED  BY <1>2, <1>3
-----------------------------------------------------------------------------
(* Steps.  A step of a thread leaves everything of the others alone, and    *)
(* either begins a batch, leaves the call, or is an HTTP request.           *)

BatchKept(d) == /\ pc'[d] = pc[d] /\ stage'[d] = stage[d] /\ id'[d] = id[d]
                /\ todo'[d] = todo[d] /\ got'[d] = got[d]

CallKept(d) == /\ call'[d] = call[d] /\ list'[d] = list[d] /\ height'[d] = height[d]
               /\ answer'[d] = answer[d] /\ window'[d] = window[d]

OthersKept(c) == \A d \in Client \ {c} : BatchKept(d) /\ CallKept(d)

Begun(c, s, queries) ==
    /\ counter' = counter + 1 /\ id'[c] = counter + 1
    /\ stage'[c] = s /\ todo'[c] = queries /\ got'[c] = <<>>
    /\ pc'[c] = IF queries = <<>> THEN "replied" ELSE "batch"
    /\ answer'[c] = answer[c]

Left(c, label) ==
    /\ counter' = counter /\ id'[c] = id[c] /\ stage'[c] = stage[c]
    /\ todo'[c] = todo[c] /\ got'[c] = got[c]
    /\ pc'[c] = label

LEMMA StartBatchBegins ==
    ASSUME Typed, NEW c \in Client, NEW s \in {"only", "info", "hashes", "headers"},
           NEW queries \in Seq(Queries), StartBatch(c, s, queries), UNCHANGED answer
    PROVE  /\ BatchTyped' /\ Begun(c, s, queries)
           /\ \A d \in Client \ {c} : BatchKept(d) /\ answer'[d] = answer[d]
<1>1. counter \in Nat /\ counter' = counter + 1
  BY DEF Typed, BatchTyped, StartBatch, NextId
<1>2. id' \in [Client -> 0 .. counter'] /\ id'[c] = counter + 1
      /\ \A d \in Client \ {c} : id'[d] = id[d]
  BY <1>1 DEF Typed, BatchTyped, StartBatch
<1>3. got' \in [Client -> Seq(Values)] /\ got'[c] = <<>>
      /\ \A d \in Client \ {c} : got'[d] = got[d]
  <2>1. <<>> \in Seq(Values)
    BY EmptySeq
  <2>. QED  BY <2>1 DEF Typed, BatchTyped, StartBatch
<1>4. todo' \in [Client -> Seq(Queries)] /\ todo'[c] = queries
      /\ \A d \in Client \ {c} : todo'[d] = todo[d]
  BY DEF Typed, BatchTyped, StartBatch
<1>. QED  BY <1>1, <1>2, <1>3, <1>4 DEF Typed, BatchTyped, StartBatch, Begun, BatchKept

LEMMA LeaveLeaves ==
    ASSUME Typed, NEW c \in Client, NEW label \in {"done", "panicked"}, Leave(c, label)
    PROVE  /\ BatchTyped' /\ Left(c, label)
           /\ \A d \in Client \ {c} : BatchKept(d)
  BY DEF Typed, BatchTyped, Leave, Left, BatchKept

LEMMA ReturnAnswers ==
    ASSUME Typed, NEW c \in Client, NEW a, Return(c, a)
    PROVE  /\ BatchTyped' /\ Left(c, "done") /\ answer'[c] = a
           /\ DOMAIN answer' = Client
           /\ \A d \in Client \ {c} : BatchKept(d) /\ answer'[d] = answer[d]
<1>1. Leave(c, "done") /\ answer' = [answer EXCEPT ![c] = a]
  BY DEF Return
<1>2. DOMAIN answer = Client
  BY DEF Typed, CallTyped
<1>. QED  BY <1>1, <1>2, LeaveLeaves

LEMMA PanicPanics ==
    ASSUME Typed, NEW c \in Client, Panic(c)
    PROVE  /\ BatchTyped' /\ Left(c, "panicked") /\ UNCHANGED answer
           /\ \A d \in Client \ {c} : BatchKept(d)
  BY LeaveLeaves DEF Panic

LEMMA HeightsFromFacts ==
    ASSUME NEW n \in Nat, NEW top \in Nat
    PROVE  LET m == IF top + 1 - n < HeightChunk THEN top + 1 - n ELSE HeightChunk
           IN  /\ HeightsFrom(n, top) \in Seq(Queries)
               /\ n <= top => /\ Len(HeightsFrom(n, top)) = m /\ m >= 1
                              /\ DOMAIN HeightsFrom(n, top) = 1 .. m
               /\ \A i \in DOMAIN HeightsFrom(n, top) :
                    HeightsFrom(n, top)[i] = Query("getblockhash", n + i - 1)
<1> DEFINE m == IF top + 1 - n < HeightChunk THEN top + 1 - n ELSE HeightChunk
           f == [i \in 1 .. m |-> Query("getblockhash", n + i - 1)]
<1>1. m \in Int /\ (n <= top => m >= 1)
  BY BoundAssumption
<1>2. ASSUME NEW i \in 1 .. m
      PROVE  Query("getblockhash", n + i - 1) \in Queries
  <2>1. n + i - 1 \in Nat
    BY <1>1
  <2>. QED  BY <2>1 DEF Query, Queries
<1>. HIDE DEF m
<1>3. f \in Seq(Queries) /\ (m \in Nat => Len(f) = m)
  <2>1. CASE m \in Nat
    <3>1. f \in [1 .. m -> Queries]
      BY <1>2
    <3>2. f \in Seq(Queries)
      BY <2>1, <3>1, SeqDef
    <3>. QED  BY <2>1, <3>2, LenProperties
  <2>2. CASE m \notin Nat
    <3>1. 1 .. m = {}
      BY <1>1, <2>2
    <3>2. 1 .. 0 = {}
      OBVIOUS
    <3>3. f \in [1 .. 0 -> Queries]
      BY <3>1, <3>2
    <3>4. [1 .. 0 -> Queries] \subseteq Seq(Queries)
      BY SeqDef
    <3>. QED  BY <2>2, <3>3, <3>4
  <2>. QED  BY <2>1, <2>2
<1>4. HeightsFrom(n, top) = f
  BY DEF HeightsFrom, m
<1>. QED  BY <1>1, <1>3, <1>4 DEF m
LEMMA ValueFacts ==
    ASSUME NEW v \in Values
    PROVE  /\ v.type \in {"hash", "header", "info", "proof", "null"}
           /\ v.type \in {"hash", "header", "proof"} => v.x \in Block
           /\ v.type = "info" => v.x \in Nat
           /\ v.x \in Block \cup Nat \cup {None}
           /\ v = Value(v.type, v.x)
<1>1. CASE v \in {Value(t, b) : t \in {"hash", "header", "proof"}, b \in Block}
  BY <1>1 DEF Value
<1>2. CASE v \in {Value("info", n) : n \in Nat}
  BY <1>2 DEF Value
<1>3. CASE v = NullValue
  BY <1>3 DEF NullValue, Value
<1>. QED  BY <1>1, <1>2, <1>3 DEF Values

LEMMA ParentFacts ==
    ASSUME NEW b \in Block
    PROVE  Parent(b) \in Block \cup {None}
<1>1. Len(Chain[b]) \in 1 .. Len(Chain[b]) /\ Chain[b][Len(Chain[b])] = b
  BY ChainFacts
<1>2. Len(Chain[b]) # 1 => Len(Chain[b]) - 1 \in 1 .. Len(Chain[b])
  <2>1. \A n \in Nat \ {0} : n # 1 => n - 1 \in 1 .. n
    OBVIOUS
  <2>. QED  BY <2>1, ChainFacts
<1>. QED  BY <1>1, <1>2, Ancestor

\* The step of a thread that hears nothing from the daemon.
Steady(c) == /\ UNCHANGED <<best, stray, moves, faults>> /\ OthersKept(c)
             /\ call'[c] = call[c] /\ window'[c] = window[c]

Answered(c, a) == Left(c, "done") /\ answer'[c] = a
Panicked(c)    == Left(c, "panicked") /\ answer'[c] = answer[c]

LEMMA DaemonStaysTyped ==
    ASSUME Typed, BatchTyped', UNCHANGED <<best, stray, moves, faults>>,
           counter' \in {counter, counter + 1}
    PROVE  DaemonTyped'
<1>1. \A i \in DOMAIN stray : stray[i].id \in Nat /\ stray[i].id <= counter
  <2>1. stray \in Seq(Replies)
    BY DEF Typed, DaemonTyped
  <2>2. \A i \in DOMAIN stray : stray[i] \in Replies
    BY <2>1, ElementOfSeq, LenProperties
  <2>. QED  BY <2>2 DEF Typed, DaemonTyped, Replies
<1>2. counter \in Nat
  BY DEF Typed, BatchTyped
<1>3. \A i \in DOMAIN stray : stray[i].id <= counter'
  BY <1>1, <1>2
<1>. QED  BY <1>3 DEF Typed, DaemonTyped

Methods == {"getbestblockhash", "getblockheader", "gettxoutproof",
            "get_new_headers", "get_all_headers"}

LEMMA CallFacts ==
    ASSUME NEW k \in Calls
    PROVE  /\ k.method \in Methods /\ k.block \in Block \cup {None} /\ k.known \subseteq Block
           /\ k.method \in {"get_new_headers", "get_all_headers"} => k.block \in Block
           /\ \A b \in k.known : Range(Chain[b]) \subseteq k.known
  BY CallAssumption DEF Methods

LEMMA Singleton ==
    ASSUME NEW S, NEW q \in S
    PROVE  <<q>> \in Seq(S) /\ Len(<<q>>) = 1 /\ <<q>>[1] = q /\ <<q>> # <<>>
<1>1. <<q>> \in [1 .. 1 -> S] /\ <<q>>[1] = q
  OBVIOUS
<1>2. [1 .. 1 -> S] \subseteq Seq(S)
  BY SeqDef
<1>3. <<q>> \in Seq(S) /\ DOMAIN <<q>> = 1 .. 1
  BY <1>1, <1>2
<1>4. Len(<<q>>) = 1
  BY <1>3, LenProperties
<1>. QED  BY <1>1, <1>3, <1>4

LEMMA OneQuery ==
    ASSUME NEW m \in {"getbestblockhash", "getblockheader", "getblockheader verbose",
                      "gettxoutproof"},
           NEW b \in Block \cup {None}
    PROVE  <<Query(m, b)>> \in Seq(Queries) /\ <<Query(m, b)>> # <<>>
<1>1. Query(m, b) \in Queries
  BY DEF Queries, Query
<1>. QED  BY <1>1, Singleton

\* How a call begins.
BeginsBatch(c, k) ==
    \/ k.method = "get_new_headers" /\ k.block \notin k.known
       /\ Begun(c, "only", <<Query("getblockheader", k.block)>>)
    \/ k.method = "get_all_headers"
       /\ Begun(c, "info", <<Query("getblockheader verbose", k.block)>>)
    \/ k.method \in {"getbestblockhash", "getblockheader", "gettxoutproof"}
       /\ Begun(c, "only", <<Query(k.method, k.block)>>)

LEMMA BeginStep ==
    ASSUME Typed, NEW c \in Client, NEW k \in Calls, Begin(c, k)
    PROVE  /\ Typed' /\ OthersKept(c) /\ pc[c] = "idle"
           /\ UNCHANGED <<best, stray, moves, faults>>
           /\ call'[c] = k /\ window'[c] = {best}
           /\ list'[c] = list[c] /\ height'[c] = height[c]
           /\ \/ BeginsBatch(c, k)
              \/ /\ k.method = "get_new_headers" /\ k.block \in k.known
                 /\ Answered(c, Ok(<<>>))
<1>1. /\ call' \in [Client -> Calls \cup {NoCall}] /\ window' \in [Client -> SUBSET Block]
      /\ call'[c] = k /\ window'[c] = {best}
      /\ \A d \in Client \ {c} : call'[d] = call[d] /\ window'[d] = window[d]
  BY DEF Typed, CallTyped, DaemonTyped, Begin
<1>2. /\ BatchTyped' /\ counter' \in {counter, counter + 1}
      /\ DOMAIN answer' = Client /\ \A d \in Client : answer'[d] = Error \/ answer'[d].tag = "ok"
      /\ \A d \in Client \ {c} : BatchKept(d) /\ answer'[d] = answer[d]
      /\ \/ BeginsBatch(c, k)
         \/ /\ k.method = "get_new_headers" /\ k.block \in k.known
            /\ Answered(c, Ok(<<>>))
  <2>0. DOMAIN answer = Client /\ \A d \in Client : answer[d] = Error \/ answer[d].tag = "ok"
    BY DEF Typed, CallTyped
  <2>1. CASE k.method = "get_new_headers" /\ k.block \in k.known
    <3>1. Return(c, Ok(<<>>))
      BY <2>1 DEF Begin
    <3>2. Ok(<<>>).tag = "ok"
      BY DEF Ok
    <3>. QED  BY <2>0, <2>1, <3>1, <3>2, ReturnAnswers DEF Answered, Left
  <2>2. CASE k.method = "get_new_headers" /\ k.block \notin k.known
    <3>1. StartBatch(c, "only", <<Query("getblockheader", k.block)>>) /\ UNCHANGED answer
      BY <2>2 DEF Begin
    <3>2. <<Query("getblockheader", k.block)>> \in Seq(Queries)
      BY OneQuery, CallFacts
    <3>3. /\ BatchTyped' /\ Begun(c, "only", <<Query("getblockheader", k.block)>>)
          /\ \A d \in Client \ {c} : BatchKept(d) /\ answer'[d] = answer[d]
      BY <3>1, <3>2, StartBatchBegins
    <3>. QED  BY <2>0, <2>2, <3>1, <3>3 DEF BeginsBatch, Begun
  <2>3. CASE k.method = "get_all_headers"
    <3>1. StartBatch(c, "info", <<Query("getblockheader verbose", k.block)>>) /\ UNCHANGED answer
      BY <2>3 DEF Begin
    <3>2. <<Query("getblockheader verbose", k.block)>> \in Seq(Queries)
      BY OneQuery, CallFacts
    <3>3. /\ BatchTyped' /\ Begun(c, "info", <<Query("getblockheader verbose", k.block)>>)
          /\ \A d \in Client \ {c} : BatchKept(d) /\ answer'[d] = answer[d]
      BY <3>1, <3>2, StartBatchBegins
    <3>. QED  BY <2>0, <2>3, <3>1, <3>3 DEF BeginsBatch, Begun
  <2>4. CASE k.method \in {"getbestblockhash", "getblockheader", "gettxoutproof"}
    <3>1. StartBatch(c, "only", <<Query(k.method, k.block)>>) /\ UNCHANGED answer
      BY <2>4 DEF Begin
    <3>2. <<Query(k.method, k.block)>> \in Seq(Queries)
      BY <2>4, OneQuery, CallFacts
    <3>3. /\ BatchTyped' /\ Begun(c, "only", <<Query(k.method, k.block)>>)
          /\ \A d \in Client \ {c} : BatchKept(d) /\ answer'[d] = answer[d]
      BY <3>1, <3>2, StartBatchBegins
    <3>. QED  BY <2>0, <2>4, <3>1, <3>3 DEF BeginsBatch, Begun
  <2>. QED  BY <2>1, <2>2, <2>3, <2>4, CallFacts DEF Methods
<1>3. UNCHANGED <<best, stray, moves, faults, list, height>> /\ pc[c] = "idle"
  BY DEF Begin
<1>4. CallTyped'
  BY <1>1, <1>2, <1>3 DEF Typed, CallTyped
<1>5. DaemonTyped'
  BY <1>2, <1>3, DaemonStaysTyped
<1>. QED  BY <1>1, <1>2, <1>3, <1>4, <1>5 DEF Typed, OthersKept, CallKept
LEMMA SingleFailsStep ==
    ASSUME Typed, NEW c \in Client, NEW type, SingleFails(c, type)
    PROVE  /\ Typed' /\ Steady(c) /\ UNCHANGED <<list, height>>
           /\ pc[c] = "replied" /\ stage[c] = "only"
           /\ Answered(c, Error) \/ (Len(got[c]) # 1 /\ Panicked(c))
<1>1. UNCHANGED <<daemonVars, call, list, height>> /\ pc[c] = "replied" /\ stage[c] = "only"
  BY DEF SingleFails
<1>2. /\ BatchTyped' /\ counter' = counter
      /\ DOMAIN answer' = Client /\ \A d \in Client : answer'[d] = Error \/ answer'[d].tag = "ok"
      /\ \A d \in Client \ {c} : BatchKept(d) /\ answer'[d] = answer[d]
      /\ Answered(c, Error) \/ (Len(got[c]) # 1 /\ Panicked(c))
  <2>0. DOMAIN answer = Client /\ \A d \in Client : answer[d] = Error \/ answer[d].tag = "ok"
    BY DEF Typed, CallTyped
  <2>1. CASE Len(got[c]) # 1
    <3>1. Panic(c)
      BY <2>1 DEF SingleFails
    <3>. QED  BY <2>0, <2>1, <3>1, PanicPanics DEF Panicked, Left
  <2>2. CASE Len(got[c]) = 1
    <3>1. Return(c, Error)
      BY <2>2 DEF SingleFails
    <3>. QED  BY <2>0, <3>1, ReturnAnswers DEF Answered, Left
  <2>. QED  BY <2>1, <2>2
<1>3. CallTyped'
  BY <1>1, <1>2 DEF Typed, CallTyped, daemonVars
<1>4. DaemonTyped'
  BY <1>1, <1>2, DaemonStaysTyped DEF daemonVars
<1>. QED  BY <1>1, <1>2, <1>3, <1>4 DEF Typed, Steady, OthersKept, CallKept, daemonVars

SimpleCall(c) == GetBestBlockHash(c) \/ GetBlockHeader(c) \/ GetTxOutProof(c)

LEMMA SimpleCallStep ==
    ASSUME Typed, NEW c \in Client, SimpleCall(c)
    PROVE  /\ Typed' /\ Steady(c) /\ UNCHANGED <<list, height>>
           /\ pc[c] = "replied" /\ stage[c] = "only"
           /\ call[c].method \in {"getbestblockhash", "getblockheader", "gettxoutproof"}
           /\ \/ Answered(c, Error)
              \/ Len(got[c]) # 1 /\ Panicked(c)
              \/ /\ Len(got[c]) = 1 /\ got[c][1].type = Expects(c)
                 /\ Answered(c, Ok(got[c][1].x))
<1>0. call[c].method \in {"getbestblockhash", "getblockheader", "gettxoutproof"}
  BY DEF SimpleCall, GetBestBlockHash, GetBlockHeader, GetTxOutProof
<1>1. CASE SingleFails(c, Expects(c))
  BY <1>0, <1>1, SingleFailsStep
<1>2. CASE /\ Single(c, Expects(c)) /\ Return(c, Ok(got[c][1].x))
           /\ UNCHANGED <<daemonVars, call, list, height>>
  <2>0. DOMAIN answer = Client /\ \A d \in Client : answer[d] = Error \/ answer[d].tag = "ok"
    BY DEF Typed, CallTyped
  <2>1. Ok(got[c][1].x).tag = "ok"
    BY DEF Ok
  <2>2. /\ BatchTyped' /\ counter' = counter
        /\ DOMAIN answer' = Client /\ \A d \in Client : answer'[d] = Error \/ answer'[d].tag = "ok"
        /\ \A d \in Client \ {c} : BatchKept(d) /\ answer'[d] = answer[d]
        /\ Answered(c, Ok(got[c][1].x))
    BY <1>2, <2>0, <2>1, ReturnAnswers DEF Answered, Left
  <2>3. CallTyped'
    BY <1>2, <2>2 DEF Typed, CallTyped, daemonVars
  <2>4. DaemonTyped'
    BY <1>2, <2>2, DaemonStaysTyped DEF daemonVars
  <2>. QED  BY <1>0, <1>2, <2>2, <2>3, <2>4
            DEF Typed, Steady, OthersKept, CallKept, daemonVars, Single
<1>. QED  BY <1>0, <1>1, <1>2
          DEF SimpleCall, GetBestBlockHash, GetBlockHeader, GetTxOutProof, Expects

LEMMA GetNewHeadersStep ==
    ASSUME Typed, NEW c \in Client, GetNewHeaders(c)
    PROVE  /\ Typed' /\ Steady(c) /\ UNCHANGED height
           /\ pc[c] = "replied" /\ stage[c] = "only" /\ call[c].method = "get_new_headers"
           /\ \/ /\ list'[c] = list[c]
                 /\ Answered(c, Error) \/ (Len(got[c]) # 1 /\ Panicked(c))
              \/ /\ Len(got[c]) = 1 /\ got[c][1].type = "header" /\ got[c][1].x \in Block
                 /\ list'[c] = Append(list[c], got[c][1].x)
                 /\ LET below == Parent(got[c][1].x)
                    IN  \/ /\ below = None \/ below \in call[c].known
                           /\ Answered(c, Ok(Reverse(list'[c])))
                        \/ /\ below # None /\ below \notin call[c].known
                           /\ Begun(c, "only", <<Query("getblockheader", below)>>)
<1>0. call[c].method = "get_new_headers"
  BY DEF GetNewHeaders
<1>1. CASE SingleFails(c, "header")
  BY <1>0, <1>1, SingleFailsStep
<1>2. CASE ~ SingleFails(c, "header")
  <2> DEFINE x == got[c][1].x
             below == Parent(x)
  <2>1. Single(c, "header") /\ UNCHANGED <<daemonVars, call, height>>
        /\ list' = [list EXCEPT ![c] = Append(@, x)]
    BY <1>2 DEF GetNewHeaders
  <2>2. x \in Block /\ below \in Block \cup {None}
    <3>1. got[c] \in Seq(Values) /\ Len(got[c]) = 1
      BY <2>1 DEF Typed, BatchTyped, Single
    <3>2. got[c][1] \in Values
      BY <3>1, ElementOfSeq
    <3>. QED  BY <2>1, <3>2, ValueFacts, ParentFacts DEF Single
  <2>3. /\ list' \in [Client -> Seq(Block)]
        /\ list'[c] = Append(list[c], x)
        /\ \A d \in Client \ {c} : list'[d] = list[d]
    <3>1. list[c] \in Seq(Block)
      BY DEF Typed, CallTyped
    <3>2. Append(list[c], x) \in Seq(Block)
      BY <2>2, <3>1, AppendProperties
    <3>. QED  BY <2>1, <3>2 DEF Typed, CallTyped
  <2>4. IF below = None \/ below \in call[c].known
        THEN Return(c, Ok(Reverse(list'[c])))
        ELSE StartBatch(c, "only", <<Query("getblockheader", below)>>) /\ UNCHANGED answer
    BY <1>2 DEF GetNewHeaders
  <2>. HIDE DEF x, below
  <2>5. /\ BatchTyped' /\ counter' \in {counter, counter + 1}
        /\ DOMAIN answer' = Client /\ \A d \in Client : answer'[d] = Error \/ answer'[d].tag = "ok"
        /\ \A d \in Client \ {c} : BatchKept(d) /\ answer'[d] = answer[d]
        /\ \/ /\ below = None \/ below \in call[c].known
              /\ Answered(c, Ok(Reverse(list'[c])))
           \/ /\ below # None /\ below \notin call[c].known
              /\ Begun(c, "only", <<Query("getblockheader", below)>>)
    <3>0. DOMAIN answer = Client /\ \A d \in Client : answer[d] = Error \/ answer[d].tag = "ok"
      BY DEF Typed, CallTyped
    <3>1. CASE below = None \/ below \in call[c].known
      <4>1. Return(c, Ok(Reverse(list'[c])))
        BY <2>4, <3>1
      <4>2. Ok(Reverse(list'[c])).tag = "ok"
        BY DEF Ok
      <4>. QED  BY <3>0, <3>1, <4>1, <4>2, ReturnAnswers DEF Answered, Left
    <3>2. CASE below # None /\ below \notin call[c].known
      <4>1. StartBatch(c, "only", <<Query("getblockheader", below)>>) /\ UNCHANGED answer
        BY <2>4, <3>2
      <4>2. <<Query("getblockheader", below)>> \in Seq(Queries)
        BY <2>2, OneQuery
      <4>. QED  BY <3>0, <3>2, <4>1, <4>2, StartBatchBegins DEF Begun
    <3>. QED  BY <3>1, <3>2
  <2>6. CallTyped'
    BY <2>1, <2>3, <2>5 DEF Typed, CallTyped, daemonVars
  <2>7. DaemonTyped'
    BY <2>1, <2>5, DaemonStaysTyped DEF daemonVars
  <2>. QED  BY <1>0, <2>1, <2>2, <2>3, <2>5, <2>6, <2>7
            DEF Typed, Steady, OthersKept, CallKept, daemonVars, Single, x, below
<1>. QED  BY <1>1, <1>2

LEMMA GetTipHeightStep ==
    ASSUME Typed, NEW c \in Client, GetTipHeight(c)
    PROVE  /\ Typed' /\ Steady(c) /\ UNCHANGED list
           /\ pc[c] = "replied" /\ stage[c] = "info"
           /\ \/ /\ height'[c] = height[c] /\ Panicked(c)
                 /\ Len(got[c]) # 1 \/ got[c][1].type # "info"
              \/ /\ Len(got[c]) = 1 /\ got[c][1].type = "info" /\ got[c][1].x \in Nat
                 /\ height'[c] = got[c][1].x
                 /\ Begun(c, "hashes", HeightsFrom(0, got[c][1].x))
<1>1. UNCHANGED <<daemonVars, call, list>> /\ pc[c] = "replied" /\ stage[c] = "info"
  BY DEF GetTipHeight
<1>0. DOMAIN answer = Client /\ \A d \in Client : answer[d] = Error \/ answer[d].tag = "ok"
  BY DEF Typed, CallTyped
<1>2. CASE Len(got[c]) # 1 \/ got[c][1].type # "info"
  <2>1. Panic(c) /\ UNCHANGED height
    BY <1>2 DEF GetTipHeight
  <2>2. /\ BatchTyped' /\ counter' = counter /\ UNCHANGED answer
        /\ \A d \in Client \ {c} : BatchKept(d)
        /\ Panicked(c)
    BY <2>1, PanicPanics DEF Panicked, Left
  <2>3. CallTyped'
    BY <1>1, <2>1, <2>2 DEF Typed, CallTyped, daemonVars
  <2>4. DaemonTyped'
    BY <1>1, <2>2, DaemonStaysTyped DEF daemonVars
  <2>. QED  BY <1>1, <1>2, <2>1, <2>2, <2>3, <2>4
            DEF Typed, Steady, OthersKept, CallKept, daemonVars
<1>3. CASE Len(got[c]) = 1 /\ got[c][1].type = "info"
  <2> DEFINE x == got[c][1].x
  <2>1. x \in Nat
    <3>1. got[c] \in Seq(Values)
      BY DEF Typed, BatchTyped
    <3>2. got[c][1] \in Values
      BY <1>3, <3>1, ElementOfSeq
    <3>. QED  BY <1>3, <3>2, ValueFacts
  <2>2. /\ height' = [height EXCEPT ![c] = x] /\ UNCHANGED answer
        /\ StartBatch(c, "hashes", HeightsFrom(0, x))
    BY <1>3 DEF GetTipHeight
  <2>. HIDE DEF x
  <2>3. height' \in [Client -> Nat] /\ height'[c] = x
        /\ \A d \in Client \ {c} : height'[d] = height[d]
    BY <2>1, <2>2 DEF Typed, CallTyped
  <2>4. HeightsFrom(0, x) \in Seq(Queries)
    BY <2>1, HeightsFromFacts
  <2>5. /\ BatchTyped' /\ Begun(c, "hashes", HeightsFrom(0, x))
        /\ \A d \in Client \ {c} : BatchKept(d) /\ answer'[d] = answer[d]
    BY <2>2, <2>4, StartBatchBegins
  <2>6. CallTyped'
    BY <1>1, <2>2, <2>3 DEF Typed, CallTyped, daemonVars
  <2>7. DaemonTyped'
    BY <1>1, <2>5, DaemonStaysTyped DEF daemonVars, Begun
  <2>. QED  BY <1>1, <1>3, <2>1, <2>3, <2>5, <2>6, <2>7
            DEF Typed, Steady, OthersKept, CallKept, daemonVars, x
<1>. QED  BY <1>2, <1>3
LEMMA GetBlockHashesStep ==
    ASSUME Typed, NEW c \in Client, GetBlockHashes(c)
    PROVE  /\ Typed' /\ Steady(c) /\ UNCHANGED <<list, height>>
           /\ pc[c] = "replied" /\ stage[c] = "hashes"
           /\ Begun(c, "headers", [i \in DOMAIN got[c] |-> Query("getblockheader", got[c][i].x)])
<1> DEFINE queries == [i \in DOMAIN got[c] |-> Query("getblockheader", got[c][i].x)]
<1>1. /\ UNCHANGED <<daemonVars, call, list, height, answer>>
      /\ pc[c] = "replied" /\ stage[c] = "hashes"
      /\ StartBatch(c, "headers", queries)
  BY DEF GetBlockHashes
<1>2. queries \in Seq(Queries)
  <2>1. got[c] \in Seq(Values)
    BY DEF Typed, BatchTyped
  <2>2. ASSUME NEW i \in DOMAIN got[c]
        PROVE  Query("getblockheader", got[c][i].x) \in Queries
    <3>1. got[c][i] \in Values
      BY <2>1, ElementOfSeq, LenProperties
    <3>2. got[c][i].x \in Block \cup Nat \cup {None}
      BY <3>1, ValueFacts
    <3>. QED  BY <3>2 DEF Query, Queries
  <2>3. queries \in [1 .. Len(got[c]) -> Queries] /\ Len(got[c]) \in Nat
    BY <2>1, <2>2, LenProperties
  <2>. QED  BY <2>3, SeqDef
<1>. HIDE DEF queries
<1>3. /\ BatchTyped' /\ Begun(c, "headers", queries)
      /\ \A d \in Client \ {c} : BatchKept(d) /\ answer'[d] = answer[d]
  BY <1>1, <1>2, StartBatchBegins
<1>4. CallTyped'
  BY <1>1 DEF Typed, CallTyped, daemonVars
<1>5. DaemonTyped'
  BY <1>1, <1>3, DaemonStaysTyped DEF daemonVars, Begun
<1>. QED  BY <1>1, <1>3, <1>4, <1>5
          DEF Typed, Steady, OthersKept, CallKept, daemonVars, queries

LEMMA ConcatFacts ==
    ASSUME NEW S, NEW s \in Seq(S), NEW t \in Seq(S)
    PROVE  /\ s \o t \in Seq(S) /\ Len(s \o t) = Len(s) + Len(t)
           /\ \A i \in 1 .. Len(s) : (s \o t)[i] = s[i]
           /\ \A i \in 1 .. Len(t) : (s \o t)[Len(s) + i] = t[i]
<1> DEFINE n == Len(s)
           m == Len(t)
<1>1. n \in Nat /\ m \in Nat
  BY LenProperties
<1>2. /\ s \o t \in Seq(S) /\ Len(s \o t) = n + m
      /\ \A i \in 1 .. n + m : (s \o t)[i] = IF i <= n THEN s[i] ELSE t[i - n]
  BY ConcatProperties
<1>. HIDE DEF n, m
<1>3. \A i \in 1 .. n : i \in 1 .. n + m /\ i <= n
  BY <1>1
<1>4. \A i \in 1 .. m : n + i \in 1 .. n + m /\ ~ (n + i <= n) /\ (n + i) - n = i
  BY <1>1
<1>5. \A i \in 1 .. n : (s \o t)[i] = s[i]
  BY <1>2, <1>3
<1>6. \A i \in 1 .. m : (s \o t)[n + i] = t[i]
  BY <1>2, <1>4
<1>. QED  BY <1>2, <1>5, <1>6 DEF n, m

\* The headers of a batch of getblockheaders.
Collected(c) == [i \in DOMAIN got[c] |-> got[c][i].x]

LEMMA CollectedFacts ==
    ASSUME Typed, NEW c \in Client, \A i \in DOMAIN got[c] : got[c][i].type = "header"
    PROVE  /\ Collected(c) \in Seq(Block) /\ Len(Collected(c)) = Len(got[c])
           /\ list[c] \o Collected(c) \in Seq(Block)
           /\ Len(list[c] \o Collected(c)) = Len(list[c]) + Len(got[c])
           /\ \A i \in 1 .. Len(list[c]) : (list[c] \o Collected(c))[i] = list[c][i]
           /\ \A i \in 1 .. Len(got[c]) :
                (list[c] \o Collected(c))[Len(list[c]) + i] = got[c][i].x
<1>1. got[c] \in Seq(Values) /\ list[c] \in Seq(Block)
  BY DEF Typed, BatchTyped, CallTyped
<1>2. Len(got[c]) \in Nat /\ DOMAIN got[c] = 1 .. Len(got[c])
  BY <1>1, LenProperties
<1>3. Collected(c) \in [1 .. Len(got[c]) -> Block]
  <2>1. ASSUME NEW i \in DOMAIN got[c]
        PROVE  got[c][i].x \in Block
    <3>1. got[c][i] \in Values
      BY <1>1, ElementOfSeq, LenProperties
    <3>. QED  BY <3>1, ValueFacts
  <2>. QED  BY <1>2, <2>1 DEF Collected
<1>4. Collected(c) \in Seq(Block)
  BY <1>2, <1>3, SeqDef
<1>5. Len(Collected(c)) = Len(got[c])
  BY <1>2, <1>3, <1>4, LenProperties
<1>6. \A i \in 1 .. Len(got[c]) : Collected(c)[i] = got[c][i].x
  BY <1>2 DEF Collected
<1> DEFINE s == list[c]
           t == Collected(c)
<1>. HIDE DEF s, t
<1>7. /\ s \o t \in Seq(Block) /\ Len(s \o t) = Len(s) + Len(t)
      /\ \A i \in 1 .. Len(s) : (s \o t)[i] = s[i]
      /\ \A i \in 1 .. Len(t) : (s \o t)[Len(s) + i] = t[i]
  <2>1. s \in Seq(Block) /\ t \in Seq(Block)
    BY <1>1, <1>4 DEF s, t
  <2>. QED  BY <2>1, ConcatFacts
<1>. QED  BY <1>4, <1>5, <1>6, <1>7 DEF s, t

LEMMA GetBlockHeadersStep ==
    ASSUME Typed, NEW c \in Client, GetBlockHeaders(c)
    PROVE  LET all == list[c] \o Collected(c)
           IN  /\ Typed' /\ Steady(c) /\ UNCHANGED height
               /\ pc[c] = "replied" /\ stage[c] = "headers"
               /\ \/ /\ list'[c] = list[c] /\ Answered(c, Error)
                     /\ \E i \in DOMAIN got[c] : got[c][i].type # "header"
                  \/ /\ list'[c] = list[c] /\ Panicked(c)
                     /\ \A i \in DOMAIN got[c] : got[c][i].type = "header"
                     /\ ~ AsMany(Collected(c), HeightsFrom(Len(list[c]), height[c]))
                  \/ /\ list'[c] = all
                     /\ \A i \in DOMAIN got[c] : got[c][i].type = "header"
                     /\ AsMany(Collected(c), HeightsFrom(Len(list[c]), height[c]))
                     /\ \/ /\ Len(all) <= height[c]
                           /\ Begun(c, "hashes", HeightsFrom(Len(all), height[c]))
                        \/ /\ ~ Len(all) <= height[c]
                           /\ \/ IsChainTo(all, call[c].block) /\ Answered(c, Ok(all))
                              \/ ~ IsChainTo(all, call[c].block) /\ Panicked(c)
<1> DEFINE all == list[c] \o Collected(c)
           whole == AsMany(Collected(c), HeightsFrom(Len(list[c]), height[c]))
<1>1. UNCHANGED <<daemonVars, call, height>> /\ pc[c] = "replied" /\ stage[c] = "headers"
  BY DEF GetBlockHeaders
<1>2. \/ /\ \E i \in DOMAIN got[c] : got[c][i].type # "header"
         /\ Return(c, Error) /\ UNCHANGED list
      \/ /\ \A i \in DOMAIN got[c] : got[c][i].type = "header"
         /\ ~ whole /\ Panic(c) /\ UNCHANGED list
      \/ /\ \A i \in DOMAIN got[c] : got[c][i].type = "header"
         /\ whole /\ list' = [list EXCEPT ![c] = all]
         /\ IF Len(all) <= height[c]
            THEN StartBatch(c, "hashes", HeightsFrom(Len(all), height[c])) /\ UNCHANGED answer
            ELSE IF IsChainTo(all, call[c].block) THEN Return(c, Ok(all)) ELSE Panic(c)
  BY DEF GetBlockHeaders, Collected
<1>3. DOMAIN answer = Client /\ \A d \in Client : answer[d] = Error \/ answer[d].tag = "ok"
  BY DEF Typed, CallTyped
<1>. HIDE DEF whole
<1>4. CASE /\ \E i \in DOMAIN got[c] : got[c][i].type # "header"
           /\ Return(c, Error) /\ UNCHANGED list
  <2>1. /\ BatchTyped' /\ counter' = counter /\ Answered(c, Error)
        /\ DOMAIN answer' = Client /\ \A d \in Client : answer'[d] = Error \/ answer'[d].tag = "ok"
        /\ \A d \in Client \ {c} : BatchKept(d) /\ answer'[d] = answer[d]
    BY <1>3, <1>4, ReturnAnswers DEF Answered, Left
  <2>2. CallTyped'
    BY <1>1, <1>4, <2>1 DEF Typed, CallTyped, daemonVars
  <2>3. DaemonTyped'
    BY <1>1, <2>1, DaemonStaysTyped DEF daemonVars
  <2>. QED  BY <1>1, <1>4, <2>1, <2>2, <2>3 DEF Typed, Steady, OthersKept, CallKept, daemonVars
<1>5. CASE /\ \A i \in DOMAIN got[c] : got[c][i].type = "header"
           /\ ~ whole /\ Panic(c) /\ UNCHANGED list
  <2>1. /\ BatchTyped' /\ counter' = counter /\ Panicked(c) /\ UNCHANGED answer
        /\ \A d \in Client \ {c} : BatchKept(d) /\ answer'[d] = answer[d]
    BY <1>5, PanicPanics DEF Panicked, Left
  <2>2. CallTyped'
    BY <1>1, <1>5, <2>1 DEF Typed, CallTyped, daemonVars
  <2>3. DaemonTyped'
    BY <1>1, <2>1, DaemonStaysTyped DEF daemonVars
  <2>. QED  BY <1>1, <1>5, <2>1, <2>2, <2>3
            DEF Typed, Steady, OthersKept, CallKept, daemonVars, whole
<1>6. CASE /\ \A i \in DOMAIN got[c] : got[c][i].type = "header"
           /\ whole /\ list' = [list EXCEPT ![c] = all]
           /\ IF Len(all) <= height[c]
              THEN StartBatch(c, "hashes", HeightsFrom(Len(all), height[c])) /\ UNCHANGED answer
              ELSE IF IsChainTo(all, call[c].block) THEN Return(c, Ok(all)) ELSE Panic(c)
  <2>1. all \in Seq(Block) /\ Len(all) \in Nat /\ height[c] \in Nat
    BY <1>6, CollectedFacts, LenProperties DEF Typed, CallTyped
  <2>2. list' \in [Client -> Seq(Block)] /\ list'[c] = all
        /\ \A d \in Client \ {c} : list'[d] = list[d]
    BY <1>6, <2>1 DEF Typed, CallTyped
  <2>. HIDE DEF all
  <2>3. /\ BatchTyped' /\ counter' \in {counter, counter + 1}
        /\ DOMAIN answer' = Client /\ \A d \in Client : answer'[d] = Error \/ answer'[d].tag = "ok"
        /\ \A d \in Client \ {c} : BatchKept(d) /\ answer'[d] = answer[d]
        /\ \/ /\ Len(all) <= height[c]
              /\ Begun(c, "hashes", HeightsFrom(Len(all), height[c]))
           \/ /\ ~ Len(all) <= height[c]
              /\ \/ IsChainTo(all, call[c].block) /\ Answered(c, Ok(all))
                 \/ ~ IsChainTo(all, call[c].block) /\ Panicked(c)
    <3>1. CASE Len(all) <= height[c]
      <4>1. StartBatch(c, "hashes", HeightsFrom(Len(all), height[c])) /\ UNCHANGED answer
        BY <1>6, <3>1
      <4>2. HeightsFrom(Len(all), height[c]) \in Seq(Queries)
        BY <2>1, HeightsFromFacts
      <4>. QED  BY <1>3, <3>1, <4>1, <4>2, StartBatchBegins DEF Begun
    <3>2. CASE ~ Len(all) <= height[c] /\ IsChainTo(all, call[c].block)
      <4>1. Return(c, Ok(all))
        BY <1>6, <3>2
      <4>2. Ok(all).tag = "ok"
        BY DEF Ok
      <4>. QED  BY <1>3, <3>2, <4>1, <4>2, ReturnAnswers DEF Answered, Left
    <3>3. CASE ~ Len(all) <= height[c] /\ ~ IsChainTo(all, call[c].block)
      <4>1. Panic(c)
        BY <1>6, <3>3
      <4>. QED  BY <1>3, <3>3, <4>1, PanicPanics DEF Panicked, Left
    <3>. QED  BY <3>1, <3>2, <3>3
  <2>4. CallTyped'
    BY <1>1, <2>2, <2>3 DEF Typed, CallTyped, daemonVars
  <2>5. DaemonTyped'
    BY <1>1, <2>3, DaemonStaysTyped DEF daemonVars
  <2>. QED  BY <1>1, <1>6, <2>2, <2>3, <2>4, <2>5
            DEF Typed, Steady, OthersKept, CallKept, daemonVars, all, whole
<1>. QED  BY <1>2, <1>4, <1>5, <1>6

LEMMA MoveBestStep ==
    ASSUME Typed, NEW b \in Block, MoveBest(b)
    PROVE  /\ Typed' /\ UNCHANGED <<batchVars, call, got, list, height, answer, stray, faults>>
           /\ best' = b
           /\ \A c \in Client :
                window'[c] = IF pc[c] = "idle" THEN {} ELSE window[c] \cup {b}
<1>1. moves' \in 0 .. MaxMoves
  BY BoundAssumption DEF MoveBest, Typed, DaemonTyped
<1>2. UNCHANGED <<counter, pc, stage, id, todo>>
  BY DEF MoveBest, batchVars
<1>3. BatchTyped'
  BY <1>2 DEF MoveBest, Typed, BatchTyped
<1>4. CallTyped' /\ \A c \in Client :
                window'[c] = IF pc[c] = "idle" THEN {} ELSE window[c] \cup {b}
  BY DEF MoveBest, Typed, CallTyped
<1>5. DaemonTyped'
  BY <1>1, <1>2 DEF MoveBest, Typed, DaemonTyped
<1>. QED  BY <1>1, <1>2, <1>3, <1>4, <1>5 DEF Typed, MoveBest
-----------------------------------------------------------------------------
(* An HTTP request.                                                         *)

LEMMA ReplyFacts ==
    ASSUME best \in Block, NEW i \in Nat, NEW q \in Queries
    PROVE  /\ Reply(i, q) \in Replies /\ Reply(i, q).id = i
           /\ Reply(i, q).error \in {"none", "coded"}
           /\ Reply(i, q).error # "coded" => Known(q) /\ Reply(i, q).result = Result(q)
<1>1. NullValue \in Values
  BY DEF Values
<1>2. ASSUME Known(q)
      PROVE  Result(q) \in Values
  <2>1. CASE q.method = "getblockhash"
    <3>1. q.arg \in Nat /\ q.arg < Len(Chain[best])
      BY <1>2, <2>1 DEF Queries, Known
    <3>2. q.arg + 1 \in 1 .. Len(Chain[best])
      <4>1. \A n \in Nat, m \in Nat : n < m => n + 1 \in 1 .. m
        OBVIOUS
      <4>. QED  BY <3>1, <4>1, ChainFacts
    <3>3. Chain[best][q.arg + 1] \in Block
      BY <3>2, Ancestor
    <3>4. Result(q) = Value("hash", Chain[best][q.arg + 1])
      BY <2>1 DEF Result
    <3>. QED  BY <3>3, <3>4 DEF Values
  <2>2. CASE q.method = "getbestblockhash"
    <3>1. Result(q) = Value("hash", best)
      BY <2>2 DEF Result
    <3>. QED  BY <3>1 DEF Values
  <2>3. CASE q.method = "getblockheader"
    <3>1. Result(q) = Value("header", q.arg) /\ q.arg \in Block
      BY <1>2, <2>3 DEF Result, Known
    <3>. QED  BY <3>1 DEF Values
  <2>4. CASE q.method = "getblockheader verbose"
    <3>1. Result(q) = Value("info", Len(Chain[q.arg]) - 1) /\ q.arg \in Block
      BY <1>2, <2>4 DEF Result, Known
    <3>2. Len(Chain[q.arg]) - 1 \in Nat
      <4>1. \A n \in Nat \ {0} : n - 1 \in Nat
        OBVIOUS
      <4>. QED  BY <3>1, <4>1, ChainFacts
    <3>. QED  BY <3>1, <3>2 DEF Values
  <2>5. CASE q.method = "gettxoutproof"
    <3>1. Result(q) = Value("proof", q.arg) /\ q.arg \in Block
      BY <1>2, <2>5 DEF Result, Known
    <3>. QED  BY <3>1 DEF Values
  <2>. QED  BY <2>1, <2>2, <2>3, <2>4, <2>5 DEF Queries
<1>3. CASE Known(q)
  <2>1. Reply(i, q) = [id |-> i, error |-> "none", result |-> Result(q)]
    BY <1>3 DEF Reply
  <2>. QED  BY <1>2, <1>3, <2>1 DEF Replies
<1>4. CASE ~ Known(q)
  <2>1. Reply(i, q) = [id |-> i, error |-> "coded", result |-> NullValue]
    BY <1>4 DEF Reply
  <2>. QED  BY <1>1, <2>1 DEF Replies
<1>. QED  BY <1>3, <1>4

LEMMA SpoiltFacts ==
    ASSUME NEW reply \in Replies, NEW e \in {"coded", "odd"}
    PROVE  /\ Spoilt(reply, e) \in Replies
           /\ Spoilt(reply, e).error = e /\ Spoilt(reply, e).result = NullValue
           /\ Spoilt(reply, e).id = reply.id
<1>1. NullValue \in Values
  BY DEF Values
<1>. QED  BY <1>1 DEF Spoilt, Replies

\* What is delivered are replies to this request, as they are or spoilt, or
\* replies to an earlier one.
ComesOf(replies, r) == \E j \in DOMAIN replies :
                        r = replies[j] \/ \E e \in {"coded", "odd"} : r = Spoilt(replies[j], e)

LEMMA DeliveryFacts ==
    ASSUME NEW replies \in Seq(Replies), replies # <<>>,
           NEW delivered \in {replies} \cup Deliveries(replies), delivered # stray
    PROVE  /\ delivered \in Seq(Replies)
           /\ \A i \in DOMAIN delivered : ComesOf(replies, delivered[i])
<1> DEFINE n == Len(replies)
<1>1. n \in Nat /\ n >= 1 /\ DOMAIN replies = 1 .. n
  BY LenProperties, EmptySeq
<1>2. \A j \in 1 .. n : replies[j] \in Replies /\ ComesOf(replies, replies[j])
  BY <1>1, ElementOfSeq DEF ComesOf
<1>. HIDE DEF n
<1>3. CASE delivered = replies
  BY <1>1, <1>2, <1>3
<1>4. CASE delivered = Reverse(replies)
  <2>1. delivered = [i \in 1 .. n |-> replies[n - i + 1]]
    BY <1>4 DEF Reverse, n
  <2>2. \A i \in 1 .. n : n - i + 1 \in 1 .. n
    BY <1>1
  <2>3. delivered \in [1 .. n -> Replies]
    BY <1>2, <2>1, <2>2
  <2>4. \A i \in 1 .. n : ComesOf(replies, delivered[i])
    BY <1>2, <2>1, <2>2
  <2>. QED  BY <1>1, <2>3, <2>4, SeqDef
<1>5. CASE delivered = Tail(replies)
  <2>1. /\ Tail(replies) \in Seq(Replies) /\ Len(Tail(replies)) = n - 1
        /\ \A i \in 1 .. n - 1 : Tail(replies)[i] = replies[i + 1]
    BY HeadTailProperties DEF n
  <2>2. DOMAIN Tail(replies) = 1 .. n - 1
    BY <2>1, LenProperties
  <2>3. \A i \in 1 .. n - 1 : i + 1 \in 1 .. n
    BY <1>1
  <2>. QED  BY <1>2, <1>5, <2>1, <2>2, <2>3
<1>6. CASE delivered = Append(replies, Last(replies))
  <2>1. Last(replies) = replies[n] /\ n \in 1 .. n
    BY <1>1 DEF Last, n
  <2>2. /\ delivered \in Seq(Replies) /\ Len(delivered) = n + 1
        /\ \A i \in 1 .. n : delivered[i] = replies[i]
        /\ delivered[n + 1] = replies[n]
    BY <1>2, <1>6, <2>1, AppendProperties DEF n
  <2>3. DOMAIN delivered = 1 .. n + 1
    BY <2>2, LenProperties
  <2>4. \A i \in 1 .. n + 1 : i \in 1 .. n \/ i = n + 1
    BY <1>1
  <2>. QED  BY <1>2, <2>1, <2>2, <2>3, <2>4
<1>7. CASE \E i \in DOMAIN replies, e \in {"coded", "odd"} :
               delivered = [replies EXCEPT ![i] = Spoilt(@, e)]
  <2>1. PICK i \in 1 .. n, e \in {"coded", "odd"} :
               delivered = [replies EXCEPT ![i] = Spoilt(replies[i], e)]
    BY <1>1, <1>7
  <2>2. Spoilt(replies[i], e) \in Replies
    BY <1>2, SpoiltFacts
  <2>3. DOMAIN delivered = 1 .. n /\ delivered[i] = Spoilt(replies[i], e)
        /\ \A j \in 1 .. n : j # i => delivered[j] = replies[j]
    BY <1>1, <2>1
  <2>4. delivered \in Seq(Replies)
    BY <1>1, <2>1, <2>2, ExceptSeq
  <2>5. ComesOf(replies, delivered[i])
    BY <1>1, <2>3 DEF ComesOf
  <2>. QED  BY <1>2, <2>3, <2>4, <2>5
<1>8. delivered \in {replies, Reverse(replies), Tail(replies), Append(replies, Last(replies))}
                    \cup {[replies EXCEPT ![i] = Spoilt(@, e)] :
                            i \in DOMAIN replies, e \in {"coded", "odd"}}
  BY DEF Deliveries
<1>. QED  BY <1>3, <1>4, <1>5, <1>6, <1>7, <1>8
Taken(c) == IF Len(todo[c]) < BatchChunk THEN Len(todo[c]) ELSE BatchChunk
Sent(c)  == [i \in 1 .. Taken(c) |-> Reply(id[c], todo[c][i])]

LEMMA SentFacts ==
    ASSUME Typed, NEW c \in Client, todo[c] # <<>>
    PROVE  /\ Taken(c) \in 1 .. Len(todo[c])
           /\ Sent(c) \in Seq(Replies) /\ Sent(c) # <<>>
           /\ DOMAIN Sent(c) = 1 .. Taken(c)
           /\ \A i \in 1 .. Taken(c) : /\ todo[c][i] \in Queries
                                       /\ Sent(c)[i] = Reply(id[c], todo[c][i])
                                       /\ Sent(c)[i].id = id[c]
<1>1. todo[c] \in Seq(Queries) /\ best \in Block /\ id[c] \in Nat
  BY DEF Typed, BatchTyped, DaemonTyped
<1>2. Taken(c) \in 1 .. Len(todo[c])
  <2>1. \A n \in Nat \ {0}, m \in Nat \ {0} : (IF n < m THEN n ELSE m) \in 1 .. n
    OBVIOUS
  <2>2. Len(todo[c]) \in Nat \ {0}
    BY <1>1, EmptySeq, LenProperties
  <2>. QED  BY <2>1, <2>2, BoundAssumption DEF Taken
<1>3. \A i \in 1 .. Taken(c) : i \in 1 .. Len(todo[c])
  BY <1>2
<1>4. \A i \in 1 .. Taken(c) : todo[c][i] \in Queries
  BY <1>1, <1>3, ElementOfSeq
<1>5. \A i \in 1 .. Taken(c) : /\ Sent(c)[i] = Reply(id[c], todo[c][i])
                               /\ Sent(c)[i].id = id[c] /\ Sent(c)[i] \in Replies
  BY <1>1, <1>4, ReplyFacts DEF Sent
<1>6. Sent(c) \in [1 .. Taken(c) -> Replies]
  BY <1>5 DEF Sent
<1>7. Taken(c) \in Nat /\ Taken(c) >= 1
  BY <1>2
<1>8. Sent(c) \in Seq(Replies)
  BY <1>6, <1>7, SeqDef
<1>9. Sent(c) # <<>>
  <2>1. 1 \in DOMAIN Sent(c)
    BY <1>6, <1>7
  <2>2. DOMAIN <<>> = {}
    OBVIOUS
  <2>. QED  BY <2>1, <2>2
<1>. QED  BY <1>2, <1>4, <1>5, <1>6, <1>8, <1>9

\* What is left of the queries, and the values that come to those there are.
Heard(c, delivered) ==
    /\ \A i \in DOMAIN delivered : delivered[i].error # "coded" /\ delivered[i].id = id[c]
    /\ todo'[c] = SubSeq(todo[c], Taken(c) + 1, Len(todo[c]))
    /\ got'[c] = got[c] \o [i \in DOMAIN delivered |-> delivered[i].result]
    /\ pc'[c] = IF Taken(c) = Len(todo[c]) THEN "replied" ELSE "batch"
    /\ counter' = counter /\ stage'[c] = stage[c] /\ id'[c] = id[c] /\ answer'[c] = answer[c]

LEMMA ResultsFacts ==
    ASSUME NEW delivered \in Seq(Replies)
    PROVE  LET results == [i \in DOMAIN delivered |-> delivered[i].result]
           IN  results \in Seq(Values) /\ Len(results) = Len(delivered)
<1> DEFINE results == [i \in DOMAIN delivered |-> delivered[i].result]
<1>1. Len(delivered) \in Nat /\ DOMAIN delivered = 1 .. Len(delivered)
  BY LenProperties
<1>2. \A i \in DOMAIN delivered : delivered[i].result \in Values
  <2>1. \A i \in DOMAIN delivered : delivered[i] \in Replies
    BY <1>1, ElementOfSeq
  <2>. QED  BY <2>1 DEF Replies
<1>3. results \in [1 .. Len(delivered) -> Values]
  BY <1>1, <1>2
<1>4. results \in Seq(Values)
  BY <1>1, <1>3, SeqDef
<1>. QED  BY <1>1, <1>3, <1>4, LenProperties

LEMMA RemainderFacts ==
    ASSUME Typed, NEW c \in Client, todo[c] # <<>>
    PROVE  LET rest == SubSeq(todo[c], Taken(c) + 1, Len(todo[c]))
           IN  /\ rest \in Seq(Queries) /\ Len(rest) = Len(todo[c]) - Taken(c)
               /\ \A i \in 1 .. Len(todo[c]) - Taken(c) : rest[i] = todo[c][Taken(c) + i]
               /\ rest = <<>> <=> Taken(c) = Len(todo[c])
<1> DEFINE s == todo[c]
           k == Taken(c)
           n == Len(s)
           rest == SubSeq(s, k + 1, n)
<1>1. s \in Seq(Queries) /\ n \in Nat /\ k \in 1 .. n
  BY SentFacts, LenProperties DEF Typed, BatchTyped
<1>2. \A i \in 1 .. n : s[i] \in Queries
  BY <1>1, ElementOfSeq
<1>. HIDE DEF k, n
<1>3. /\ k + 1 \in 1 .. n + 1 /\ n \in k .. n
      /\ (IF k + 1 <= n THEN n - (k + 1) + 1 ELSE 0) = n - k
      /\ \A i \in 1 .. n - k : k + 1 + i - 1 = k + i
      /\ n - (k + 1) + 1 = n - k
      /\ n - k \in Nat /\ (n - k = 0 <=> k = n)
      /\ \A i \in k + 1 .. n : i \in 1 .. n
  BY <1>1
<1>. HIDE DEF s
<1>4. /\ rest \in Seq(Queries) /\ Len(rest) = n - k
      /\ \A i \in 1 .. n - k : rest[i] = s[k + i]
  BY <1>1, <1>2, <1>3, SubSeqProperties
<1>. HIDE DEF rest
<1>5. rest = <<>> <=> k = n
  BY <1>3, <1>4, EmptySeq
<1>. QED  BY <1>4, <1>5 DEF s, k, n, rest

LEMMA SendStep ==
    ASSUME Typed, Staged, NEW c \in Client, SendReq(c)
    PROVE  /\ Typed' /\ OthersKept(c) /\ pc[c] = "batch"
           /\ UNCHANGED <<best, moves, call, list, height, window>>
           /\ stray' \in {stray, Sent(c)} /\ faults' \in {faults, faults + 1}
           /\ \/ Answered(c, Error)
              \/ \E delivered \in {Sent(c)} \cup Deliveries(Sent(c)) :
                    /\ Heard(c, delivered)
                    /\ delivered = Sent(c) \/ faults' = faults + 1
<1>1. pc[c] = "batch" /\ todo[c] # <<>> /\ UNCHANGED <<best, window, moves, call, list, height>>
  BY DEF SendReq, Staged, StagedAt
<1>2. \/ /\ faults < MaxFaults /\ faults' = faults + 1
         /\ Return(c, Error)
         /\ UNCHANGED stray
      \/ \E delivered \in {Sent(c)} \cup Deliveries(Sent(c)) :
           /\ IF delivered = Sent(c) THEN UNCHANGED faults
              ELSE faults < MaxFaults /\ faults' = faults + 1
           /\ stray' = Sent(c)
           /\ IF \A i \in DOMAIN delivered : Parses(c, delivered[i])
              THEN /\ todo' = [todo EXCEPT ![c] = SubSeq(@, Taken(c) + 1, Len(@))]
                   /\ got' = [got EXCEPT ![c] = @ \o [i \in DOMAIN delivered |-> delivered[i].result]]
                   /\ pc' = [pc EXCEPT ![c] = IF Taken(c) = Len(todo[c]) THEN "replied" ELSE "batch"]
                   /\ UNCHANGED <<counter, stage, id, answer>>
              ELSE Return(c, Error)
  BY DEF SendReq, Taken, Sent
<1>3. DOMAIN answer = Client /\ \A d \in Client : answer[d] = Error \/ answer[d].tag = "ok"
  BY DEF Typed, CallTyped
<1>4. /\ Sent(c) \in Seq(Replies) /\ Sent(c) # <<>>
      /\ \A i \in DOMAIN Sent(c) : Sent(c)[i].id <= counter
  <2>1. id[c] <= counter
    BY DEF Typed, BatchTyped
  <2>. QED  BY <1>1, <2>1, SentFacts
<1>5. /\ stray' \in {stray, Sent(c)} /\ faults' \in {faults, faults + 1}
      /\ faults' \in 0 .. MaxFaults
  <2>1. faults \in 0 .. MaxFaults /\ (faults < MaxFaults => faults + 1 \in 0 .. MaxFaults)
    BY BoundAssumption DEF Typed, DaemonTyped
  <2>. QED  BY <1>2, <2>1
<1>6. CASE Return(c, Error)
  <2>1. /\ BatchTyped' /\ counter' = counter /\ Answered(c, Error)
        /\ DOMAIN answer' = Client /\ \A d \in Client : answer'[d] = Error \/ answer'[d].tag = "ok"
        /\ \A d \in Client \ {c} : BatchKept(d) /\ answer'[d] = answer[d]
    BY <1>3, <1>6, ReturnAnswers DEF Answered, Left
  <2>2. CallTyped'
    BY <1>1, <2>1 DEF Typed, CallTyped
  <2>3. DaemonTyped'
    BY <1>1, <1>4, <1>5, <2>1 DEF Typed, DaemonTyped
  <2>. QED  BY <1>1, <1>5, <2>1, <2>2, <2>3 DEF Typed, OthersKept, CallKept
<1>7. ASSUME NEW delivered \in {Sent(c)} \cup Deliveries(Sent(c)),
             delivered = Sent(c) \/ faults' = faults + 1,
             \A i \in DOMAIN delivered : Parses(c, delivered[i]),
             todo' = [todo EXCEPT ![c] = SubSeq(@, Taken(c) + 1, Len(@))],
             got' = [got EXCEPT ![c] = @ \o [i \in DOMAIN delivered |-> delivered[i].result]],
             pc' = [pc EXCEPT ![c] = IF Taken(c) = Len(todo[c]) THEN "replied" ELSE "batch"],
             UNCHANGED <<counter, stage, id, answer>>
      PROVE  /\ Typed' /\ OthersKept(c)
             /\ Heard(c, delivered)
  <2> DEFINE results == [i \in DOMAIN delivered |-> delivered[i].result]
             rest == SubSeq(todo[c], Taken(c) + 1, Len(todo[c]))
  <2>1. delivered \in Seq(Replies)
    <3>1. stray \in Seq(Replies)
      BY DEF Typed, DaemonTyped
    <3>2. delivered # stray => delivered \in Seq(Replies)
      BY <1>4, <1>7, DeliveryFacts
    <3>. QED  BY <3>1, <3>2
  <2>2. got[c] \o results \in Seq(Values)
    <3>1. got[c] \in Seq(Values) /\ results \in Seq(Values)
      BY <2>1, ResultsFacts DEF Typed, BatchTyped
    <3>. HIDE DEF results
    <3>. QED  BY <3>1, ConcatFacts
  <2>3. rest \in Seq(Queries)
    BY <1>1, RemainderFacts
  <2>4. got' \in [Client -> Seq(Values)] /\ got'[c] = got[c] \o results
        /\ \A d \in Client \ {c} : got'[d] = got[d]
    <3>1. got' = [got EXCEPT ![c] = got[c] \o results]
      BY <1>7
    <3>. HIDE DEF results
    <3>. QED  BY <2>2, <3>1 DEF Typed, BatchTyped
  <2>5. todo' \in [Client -> Seq(Queries)] /\ todo'[c] = rest
        /\ \A d \in Client \ {c} : todo'[d] = todo[d]
    <3>1. todo' = [todo EXCEPT ![c] = rest]
      BY <1>7
    <3>. HIDE DEF rest
    <3>. QED  BY <2>3, <3>1 DEF Typed, BatchTyped
  <2>6. /\ pc' \in [Client -> {"idle", "batch", "replied", "done", "panicked"}]
        /\ pc'[c] = IF Taken(c) = Len(todo[c]) THEN "replied" ELSE "batch"
        /\ \A d \in Client \ {c} : pc'[d] = pc[d]
    BY <1>7 DEF Typed, BatchTyped
  <2>7. UNCHANGED <<counter, stage, id, answer>>
    BY <1>7
  <2>8. BatchTyped'
    BY <2>4, <2>5, <2>6, <2>7 DEF Typed, BatchTyped
  <2>9. CallTyped'
    BY <1>1, <2>7 DEF Typed, CallTyped
  <2>10. DaemonTyped'
    BY <1>1, <1>4, <1>5, <2>7 DEF Typed, DaemonTyped
  <2>11. Heard(c, delivered)
    BY <1>7, <2>4, <2>5, <2>6, <2>7 DEF Heard, Parses
  <2>. HIDE DEF results, rest
  <2>12. OthersKept(c)
    BY <1>1, <2>4, <2>5, <2>6, <2>7 DEF OthersKept, BatchKept, CallKept
  <2>. QED  BY <2>8, <2>9, <2>10, <2>11, <2>12 DEF Typed
<1>. QED  BY <1>1, <1>2, <1>5, <1>6, <1>7
-----------------------------------------------------------------------------
(* What a thread's step leaves alone, and what a move of the best block does. *)

LEMMA NextCases ==
    ASSUME [Next]_vars
    PROVE  \/ UNCHANGED vars
           \/ \E b \in Block : MoveBest(b)
           \/ \E c \in Client : \/ \E k \in Calls : Begin(c, k)
                                \/ SendReq(c) \/ SimpleCall(c) \/ GetNewHeaders(c)
                                \/ GetTipHeight(c) \/ GetBlockHashes(c) \/ GetBlockHeaders(c)
  BY DEF Next, AllDone, SimpleCall, GetAllHeaders

LEMMA Kept ==
    ASSUME Typed, NEW d \in Client, BatchKept(d), CallKept(d), best' = best,
           faults' \in {faults, faults + 1}
    PROVE  /\ StagedAt(d) => StagedAt(d)'
           /\ SinglesAt(d) => SinglesAt(d)'
           /\ ClimbedAt(d) => ClimbedAt(d)'
           /\ OnTrackAt(d) => OnTrackAt(d)'
<1>1. faults' = 0 => faults = 0
  BY DEF Typed, DaemonTyped
<1>2. StagedAt(d) => StagedAt(d)'
  BY DEF BatchKept, CallKept, StagedAt, Open
<1>3. SinglesAt(d) => SinglesAt(d)'
  BY <1>1 DEF BatchKept, CallKept, SinglesAt, Asked, Fits, Expects, Subject, Rung
<1>4. ClimbedAt(d) => ClimbedAt(d)'
  BY DEF BatchKept, CallKept, ClimbedAt, Open
<1>5. OnTrackAt(d) => OnTrackAt(d)'
  BY <1>1 DEF BatchKept, CallKept, OnTrackAt, LinedUp, Open, Calm, Expected, ExpectedQuery, ExpectedValue
<1>. QED  BY <1>2, <1>3, <1>4, <1>5

\* A move of the best block can only widen the window of a call, and end its calm.
LEMMA KeptByMove ==
    ASSUME Typed, Staged, NEW b \in Block, MoveBest(b), NEW d \in Client
    PROVE  /\ StagedAt(d)'
           /\ FreshAt(d) => FreshAt(d)'
           /\ SinglesAt(d) => SinglesAt(d)'
           /\ ClimbedAt(d) => ClimbedAt(d)'
           /\ OnTrackAt(d) => OnTrackAt(d)'
<1>1. /\ UNCHANGED <<counter, pc, stage, id, todo, call, got, list, height, answer, stray, faults>>
      /\ best' = b
      /\ window'[d] = IF pc[d] = "idle" THEN {} ELSE window[d] \cup {b}
  BY MoveBestStep DEF batchVars
<1>2. StagedAt(d)'
  BY <1>1 DEF Staged, StagedAt, Open
<1>3. FreshAt(d) => FreshAt(d)'
  BY <1>1 DEF FreshAt
<1>4. SinglesAt(d) => SinglesAt(d)'
  <2>1. SUFFICES ASSUME SinglesAt(d), stage[d] = "only"
                 PROVE  SinglesAt(d)'
    BY <1>1 DEF SinglesAt
  <2>2. CASE pc[d] = "replied"
    <3>1. window[d] \subseteq window'[d]
      BY <1>1, <2>2
    <3>2. ASSUME NEW v, Fits(d, v)
          PROVE  Fits(d, v)'
      BY <1>1, <3>1, <3>2 DEF Fits, Expects, Subject, Rung
    <3>. QED  BY <1>1, <2>1, <2>2, <3>2 DEF SinglesAt
  <2>3. CASE pc[d] # "replied"
    BY <1>1, <2>1, <2>3 DEF SinglesAt, Asked, Subject, Rung
  <2>. QED  BY <2>2, <2>3
<1>5. ClimbedAt(d) => ClimbedAt(d)'
  BY <1>1 DEF ClimbedAt, Open
<1>6. OnTrackAt(d) => OnTrackAt(d)'
  <2>1. SUFFICES ASSUME OnTrackAt(d), Open(d), Calm(d)'
                 PROVE  OnTrackAt(d)'
    BY <1>1 DEF OnTrackAt, Open
  <2>2. Calm(d)
    BY <1>1, <2>1 DEF Calm, Open
  <2>. QED  BY <1>1, <2>1, <2>2 DEF OnTrackAt, LinedUp, Open, Expected, ExpectedQuery, ExpectedValue
<1>. QED  BY <1>2, <1>3, <1>4, <1>5, <1>6
Thread(c) == \/ \E k \in Calls : Begin(c, k)
             \/ SendReq(c) \/ SimpleCall(c) \/ GetNewHeaders(c)
             \/ GetTipHeight(c) \/ GetBlockHashes(c) \/ GetBlockHeaders(c)

LEMMA ThreadKeeps ==
    ASSUME Typed, Staged, NEW c \in Client, Thread(c)
    PROVE  Typed' /\ OthersKept(c) /\ best' = best /\ faults' \in {faults, faults + 1}
<1>1. CASE \E k \in Calls : Begin(c, k)
  BY <1>1, BeginStep
<1>2. CASE SendReq(c)
  BY <1>2, SendStep
<1>3. CASE SimpleCall(c)
  BY <1>3, SimpleCallStep DEF Steady
<1>4. CASE GetNewHeaders(c)
  BY <1>4, GetNewHeadersStep DEF Steady
<1>5. CASE GetTipHeight(c)
  BY <1>5, GetTipHeightStep DEF Steady
<1>6. CASE GetBlockHashes(c)
  BY <1>6, GetBlockHashesStep DEF Steady
<1>7. CASE GetBlockHeaders(c)
  BY <1>7, GetBlockHeadersStep DEF Steady
<1>. QED  BY <1>1, <1>2, <1>3, <1>4, <1>5, <1>6, <1>7 DEF Thread

LEMMA TypedStep ==
    ASSUME Typed, Staged, [Next]_vars
    PROVE  Typed'
<1>1. CASE UNCHANGED vars
  BY <1>1 DEF vars, batchVars, daemonVars, Typed, BatchTyped, CallTyped, DaemonTyped
<1>2. CASE \E b \in Block : MoveBest(b)
  BY <1>2, MoveBestStep
<1>3. CASE \E c \in Client : Thread(c)
  BY <1>3, ThreadKeeps
<1>. QED  BY <1>1, <1>2, <1>3, NextCases DEF Thread

\* Where a call stands when it has begun a batch, and when it has ended.
LEMMA StagedWhenBegun ==
    ASSUME Typed, Typed', NEW c \in Client, NEW s, NEW queries, Begun(c, s, queries),
           call'[c] \in Calls, best' \in window'[c],
           s = "only" <=> call'[c].method # "get_all_headers",
           s = "info" => list'[c] = <<>>,
           s \in {"hashes", "headers"} => Len(list'[c]) <= height'[c]
    PROVE  StagedAt(c)'
<1>1. /\ pc'[c] = IF queries = <<>> THEN "replied" ELSE "batch"
      /\ stage'[c] = s /\ todo'[c] = queries
  BY DEF Begun
<1>2. /\ list'[c] \in Seq(Block) /\ height'[c] \in Nat /\ Len(list'[c]) \in Nat
      /\ stage'[c] \in {"only", "info", "hashes", "headers"}
  <2>1. /\ list'[c] \in Seq(Block) /\ height'[c] \in Nat
        /\ stage'[c] \in {"only", "info", "hashes", "headers"}
    BY DEF Typed, CallTyped, BatchTyped
  <2>. QED  BY <2>1, LenProperties
<1>3. call'[c].method = "get_all_headers" => Len(list'[c]) <= height'[c] + 1
  <2>1. Len(<<>>) = 0
    BY EmptySeq
  <2>. QED  BY <1>1, <1>2, <2>1
<1>. QED  BY <1>1, <1>2, <1>3 DEF StagedAt, Open

LEMMA StagedWhenLeft ==
    ASSUME Staged, NEW c \in Client, NEW label \in {"done", "panicked"}, Left(c, label),
           call'[c] \in Calls, best' \in window'[c],
           call'[c].method = "get_all_headers" => Len(list'[c]) <= height'[c] + 1
    PROVE  StagedAt(c)'
  BY DEF Left, StagedAt, Open

LEMMA StagedStep ==
    ASSUME Typed, Staged, [Next]_vars
    PROVE  Staged'
<1>1. CASE UNCHANGED vars
  BY <1>1 DEF vars, batchVars, daemonVars, Staged, StagedAt, Open
<1>2. CASE \E b \in Block : MoveBest(b)
  BY <1>2, KeptByMove DEF Staged
<1>3. ASSUME NEW c \in Client, Thread(c)
      PROVE  Staged'
  <2>1. SUFFICES StagedAt(c)'
    BY <1>3, ThreadKeeps, Kept DEF Staged, OthersKept
  <2>2. Typed' /\ StagedAt(c)
    BY <1>3, ThreadKeeps DEF Staged
  <2>3. ASSUME NEW k \in Calls, Begin(c, k)
        PROVE  StagedAt(c)'
    <3>1. /\ call'[c] = k /\ best' \in window'[c] /\ list'[c] = <<>> /\ height'[c] \in Nat
      BY <2>2, <2>3, BeginStep DEF StagedAt, Typed, CallTyped
    <3>2. Len(<<>>) = 0
      BY EmptySeq
    <3>3. BeginsBatch(c, k) \/ (k.method = "get_new_headers" /\ Answered(c, Ok(<<>>)))
      BY <2>3, BeginStep
    <3>4. CASE BeginsBatch(c, k)
      <4>1. PICK queries : Begun(c, IF k.method = "get_all_headers" THEN "info" ELSE "only", queries)
        BY <3>4 DEF BeginsBatch
      <4>. QED  BY <2>2, <3>1, <4>1, StagedWhenBegun
    <3>5. CASE k.method = "get_new_headers" /\ Answered(c, Ok(<<>>))
      BY <3>1, <3>5, StagedWhenLeft DEF Answered
    <3>. QED  BY <3>3, <3>4, <3>5
  <2>4. CASE SendReq(c)
    <3>1. /\ UNCHANGED <<best, call, list, height, window>> /\ pc[c] = "batch" /\ todo[c] # <<>>
      BY <2>2, <2>4, SendStep DEF StagedAt
    <3>2. CASE Answered(c, Error)
      BY <2>2, <3>1, <3>2, StagedWhenLeft DEF Answered, StagedAt
    <3>3. ASSUME NEW delivered, Heard(c, delivered)
          PROVE  StagedAt(c)'
      <4>1. todo'[c] = <<>> <=> Taken(c) = Len(todo[c])
        BY <3>1, <3>3, RemainderFacts DEF Heard
      <4>. QED  BY <2>2, <3>1, <3>3, <4>1 DEF Heard, StagedAt, Open
    <3>. QED  BY <2>4, <3>2, <3>3, SendStep
  <2>5. CASE SimpleCall(c)
    <3>1. /\ UNCHANGED <<list, height>> /\ Steady(c) /\ pc[c] = "replied"
          /\ Left(c, "done") \/ Left(c, "panicked")
      BY <2>5, SimpleCallStep DEF Answered, Panicked
    <3>. QED  BY <2>2, <3>1, StagedWhenLeft DEF Steady, StagedAt
  <2>6. CASE GetNewHeaders(c)
    <3>1. /\ UNCHANGED height /\ Steady(c) /\ pc[c] = "replied" /\ stage[c] = "only"
          /\ call[c].method = "get_new_headers"
          /\ \/ Left(c, "done") \/ Left(c, "panicked")
             \/ \E queries : Begun(c, "only", queries)
      BY <2>6, GetNewHeadersStep DEF Answered, Panicked
    <3>2. call'[c] \in Calls /\ best' \in window'[c] /\ call'[c].method = "get_new_headers"
      BY <2>2, <3>1 DEF Steady, StagedAt
    <3>3. CASE Left(c, "done") \/ Left(c, "panicked")
      BY <3>2, <3>3, StagedWhenLeft
    <3>4. ASSUME NEW queries, Begun(c, "only", queries)
          PROVE  StagedAt(c)'
      BY <2>2, <3>2, <3>4, StagedWhenBegun
    <3>. QED  BY <3>1, <3>3, <3>4
  <2>7. CASE GetTipHeight(c)
    <3>1. /\ UNCHANGED list /\ Steady(c) /\ pc[c] = "replied" /\ stage[c] = "info"
          /\ \/ height'[c] = height[c] /\ Left(c, "panicked")
             \/ \E queries : Begun(c, "hashes", queries)
      BY <2>7, GetTipHeightStep DEF Panicked
    <3>2. /\ call'[c] \in Calls /\ best' \in window'[c] /\ call'[c].method = "get_all_headers"
          /\ list'[c] = <<>> /\ height'[c] \in Nat /\ height[c] \in Nat /\ Len(<<>>) = 0
      BY <2>2, <3>1, EmptySeq DEF Steady, StagedAt, Open, Typed, CallTyped
    <3>3. CASE height'[c] = height[c] /\ Left(c, "panicked")
      BY <3>2, <3>3, StagedWhenLeft
    <3>4. ASSUME NEW queries, Begun(c, "hashes", queries)
          PROVE  StagedAt(c)'
      BY <2>2, <3>2, <3>4, StagedWhenBegun
    <3>. QED  BY <3>1, <3>3, <3>4
  <2>8. CASE GetBlockHashes(c)
    <3>1. /\ UNCHANGED <<list, height>> /\ Steady(c) /\ pc[c] = "replied" /\ stage[c] = "hashes"
          /\ \E queries : Begun(c, "headers", queries)
      BY <2>8, GetBlockHashesStep
    <3>2. /\ call'[c] \in Calls /\ best' \in window'[c] /\ call'[c].method = "get_all_headers"
          /\ Len(list'[c]) <= height'[c]
      BY <2>2, <3>1 DEF Steady, StagedAt, Open
    <3>. QED  BY <2>2, <3>1, <3>2, StagedWhenBegun
  <2>9. CASE GetBlockHeaders(c)
    <3> DEFINE all == list[c] \o Collected(c)
    <3>1. /\ Steady(c) /\ pc[c] = "replied" /\ stage[c] = "headers" /\ height'[c] = height[c]
      BY <2>9, GetBlockHeadersStep
    <3>2. /\ call'[c] \in Calls /\ best' \in window'[c] /\ call'[c].method = "get_all_headers"
          /\ Len(list[c]) <= height[c]
          /\ call[c].method = "get_all_headers" => Len(list[c]) <= height[c] + 1
      BY <2>2, <3>1 DEF Steady, StagedAt, Open
    <3>3. CASE list'[c] = list[c]
      <4>1. Left(c, "done") \/ Left(c, "panicked") \/ \E queries : Begun(c, "hashes", queries)
        BY <2>9, GetBlockHeadersStep DEF Answered, Panicked
      <4>. QED  BY <2>2, <3>1, <3>2, <3>3, <4>1, StagedWhenLeft, StagedWhenBegun DEF Steady
    <3>4. CASE list'[c] # list[c]
      <4>1. /\ \A i \in DOMAIN got[c] : got[c][i].type = "header"
            /\ AsMany(Collected(c), HeightsFrom(Len(list[c]), height[c]))
            /\ list'[c] = all
            /\ \/ Left(c, "done") \/ Left(c, "panicked")
               \/ Len(all) <= height[c] /\ \E queries : Begun(c, "hashes", queries)
        BY <2>9, <3>4, GetBlockHeadersStep DEF Answered, Panicked
      <4>2. /\ Len(list[c]) \in Nat /\ height[c] \in Nat
            /\ Len(all) = Len(list[c]) + Len(HeightsFrom(Len(list[c]), height[c]))
        <5>1. /\ Len(list[c]) \in Nat /\ height[c] \in Nat
          BY LenProperties DEF Typed, CallTyped
        <5>. QED  BY <4>1, <5>1, CollectedFacts DEF AsMany
      <4>3. Len(all) <= height[c] + 1
        <5>1. \A n \in Nat, top \in Nat : n <= top =>
                 n + (IF top + 1 - n < HeightChunk THEN top + 1 - n ELSE HeightChunk) <= top + 1
          BY BoundAssumption
        <5>. QED  BY <3>2, <4>2, <5>1, HeightsFromFacts
      <4>. HIDE DEF all
      <4>. QED  BY <2>2, <3>1, <3>2, <4>1, <4>3, StagedWhenLeft, StagedWhenBegun
    <3>. QED  BY <3>3, <3>4
  <2>. QED  BY <1>3, <2>3, <2>4, <2>5, <2>6, <2>7, <2>8, <2>9 DEF Thread
<1>. QED  BY <1>1, <1>2, <1>3, NextCases DEF Thread
LEMMA ThreadShape ==
    ASSUME Typed, Staged, NEW c \in Client, Thread(c)
    PROVE  \/ SendReq(c)
           \/ stray' = stray /\ \E s, queries : Begun(c, s, queries)
           \/ stray' = stray /\ (Left(c, "done") \/ Left(c, "panicked"))
<1>1. CASE \E k \in Calls : Begin(c, k)
  BY <1>1, BeginStep DEF BeginsBatch, Answered
<1>2. CASE SimpleCall(c)
  BY <1>2, SimpleCallStep DEF Steady, Answered, Panicked
<1>3. CASE GetNewHeaders(c)
  BY <1>3, GetNewHeadersStep DEF Steady, Answered, Panicked
<1>4. CASE GetTipHeight(c)
  BY <1>4, GetTipHeightStep DEF Steady, Panicked
<1>5. CASE GetBlockHashes(c)
  BY <1>5, GetBlockHashesStep DEF Steady
<1>6. CASE GetBlockHeaders(c)
  BY <1>6, GetBlockHeadersStep DEF Steady, Answered, Panicked
<1>. QED  BY <1>1, <1>2, <1>3, <1>4, <1>5, <1>6 DEF Thread

LEMMA FreshStep ==
    ASSUME Typed, Staged, Fresh, Singles, [Next]_vars
    PROVE  Fresh'
<1>1. CASE UNCHANGED vars
  BY <1>1 DEF vars, batchVars, daemonVars, Fresh, FreshAt
<1>2. CASE \E b \in Block : MoveBest(b)
  BY <1>2, KeptByMove DEF Fresh
<1>3. ASSUME NEW c \in Client, Thread(c)
      PROVE  Fresh'
  <2>1. /\ \A d \in Client : counter \in Nat /\ id[d] \in 0 .. counter
        /\ \A d \in Client \ {c} : pc'[d] = pc[d] /\ stage'[d] = stage[d] /\ id'[d] = id[d]
        /\ \A i \in DOMAIN stray : stray[i].id <= counter /\ stray[i].id \in Nat
    <3>1. \A i \in DOMAIN stray : stray[i] \in Replies
      BY ElementOfSeq, LenProperties DEF Typed, DaemonTyped
    <3>2. \A i \in DOMAIN stray : stray[i].id <= counter /\ stray[i].id \in Nat
      BY <3>1 DEF Typed, DaemonTyped, Replies
    <3>. QED  BY <1>3, <3>2, ThreadKeeps DEF Typed, BatchTyped, OthersKept, BatchKept
  <2>2. CASE stray' = stray /\ \E s, queries : Begun(c, s, queries)
    <3>1. id'[c] = counter + 1
      BY <2>2 DEF Begun
    <3>2. \A d \in Client : id[d] # counter + 1
      BY <2>1
    <3>3. \A i \in DOMAIN stray : stray[i].id # counter + 1
      BY <2>1
    <3>. QED  BY <2>1, <2>2, <3>1, <3>2, <3>3 DEF Fresh, FreshAt
  <2>3. CASE stray' = stray /\ (Left(c, "done") \/ Left(c, "panicked"))
    BY <2>1, <2>3 DEF Fresh, FreshAt, Left
  <2>4. CASE SendReq(c)
    <3>1. /\ pc[c] = "batch" /\ stray' \in {stray, Sent(c)}
          /\ id'[c] = id[c] /\ stage'[c] = stage[c]
      BY <2>4, SendStep DEF Answered, Left, Heard
    <3>2. todo[c] # <<>>
      BY <3>1 DEF Staged, StagedAt
    <3>3. \A i \in DOMAIN Sent(c) : Sent(c)[i].id = id[c]
      BY <3>2, SentFacts
    <3>4. pc'[c] = "batch" => stage[c] # "only"
      <4>1. SUFFICES ASSUME pc'[c] = "batch", stage[c] = "only" PROVE FALSE
        OBVIOUS
      <4>2. todo[c] = <<Asked(c)>>
        BY <3>1, <4>1 DEF Singles, SinglesAt
      <4>3. Len(todo[c]) = 1
        BY <4>2, Singleton
      <4>4. Taken(c) = 1
        BY <3>2, <4>3, SentFacts
      <4>. QED  BY <2>4, <4>1, <4>3, <4>4, SendStep DEF Answered, Left, Heard
    <3>5. ASSUME NEW d \in Client \ {c}
          PROVE  FreshAt(d)'
      BY <2>1, <3>1, <3>3 DEF Fresh, FreshAt
    <3>6. FreshAt(c)'
      BY <2>1, <3>1, <3>4 DEF Fresh, FreshAt
    <3>. QED  BY <3>5, <3>6 DEF Fresh
  <2>. QED  BY <1>3, <2>2, <2>3, <2>4, ThreadShape
<1>. QED  BY <1>1, <1>2, <1>3, NextCases DEF Thread
-----------------------------------------------------------------------------
(* Batches of one query.                                                    *)

LEMMA AskedIsAnswered ==
    ASSUME Staged, NEW c \in Client, Open(c), stage[c] = "only"
    PROVE  Fits(c, Result(Asked(c)))
<1>1. /\ call[c].method \in Methods \ {"get_all_headers"} /\ best \in window[c]
  BY CallFacts DEF Staged, StagedAt, Open
<1>2. CASE call[c].method = "getbestblockhash"
  <2>1. Asked(c).method = "getbestblockhash"
    BY <1>2 DEF Asked, Query
  <2>2. Result(Asked(c)) = Value("hash", best)
    BY <2>1 DEF Result
  <2>. QED  BY <1>1, <1>2, <2>2 DEF Fits
<1>3. CASE call[c].method = "gettxoutproof"
  <2>1. Asked(c).method = "gettxoutproof" /\ Asked(c).arg = Subject(c)
    BY <1>3 DEF Asked, Query
  <2>2. Result(Asked(c)) = Value("proof", Subject(c))
    BY <2>1 DEF Result
  <2>. QED  BY <1>3, <2>2 DEF Fits, Expects
<1>4. CASE call[c].method \in {"getblockheader", "get_new_headers"}
  <2>1. Asked(c).method = "getblockheader" /\ Asked(c).arg = Subject(c)
    BY <1>4 DEF Asked, Query
  <2>2. Result(Asked(c)) = Value("header", Subject(c))
    BY <2>1 DEF Result
  <2>. QED  BY <1>4, <2>2 DEF Fits, Expects
<1>. QED  BY <1>1, <1>2, <1>3, <1>4 DEF Methods

LEMMA EmptyConcat ==
    ASSUME NEW S, NEW t \in Seq(S)
    PROVE  /\ Len(<<>> \o t) = Len(t) /\ DOMAIN (<<>> \o t) = DOMAIN t
           /\ \A i \in DOMAIN t : (<<>> \o t)[i] = t[i]
<1>1. <<>> \in Seq(S) /\ Len(<<>>) = 0
  BY EmptySeq
<1>2. Len(t) \in Nat /\ DOMAIN t = 1 .. Len(t)
  BY LenProperties
<1>3. /\ <<>> \o t \in Seq(S) /\ Len(<<>> \o t) = 0 + Len(t)
      /\ \A i \in 1 .. Len(t) : (<<>> \o t)[0 + i] = t[i]
  BY <1>1, ConcatFacts
<1>4. DOMAIN (<<>> \o t) = 1 .. Len(<<>> \o t)
  BY <1>3, LenProperties
<1>5. 0 + Len(t) = Len(t) /\ \A i \in 1 .. Len(t) : 0 + i = i
  BY <1>2
<1>. QED  BY <1>2, <1>3, <1>4, <1>5

\* A single query is answered by what it asks for, or by null, or not at all.
LEMMA SingleIsHeard ==
    ASSUME Typed, Staged, Fresh, Singles, NEW c \in Client, SendReq(c), stage[c] = "only"
    PROVE  SinglesAt(c)'
<1>1. /\ pc[c] = "batch" /\ Open(c) /\ todo[c] = <<Asked(c)>> /\ got[c] = <<>> /\ todo[c] # <<>>
      /\ UNCHANGED <<call, list, window>>
  BY SendStep DEF Singles, SinglesAt, Open, Staged, StagedAt
<1>2. Len(todo[c]) = 1 /\ todo[c][1] = Asked(c)
  BY <1>1, Singleton
<1>3. Taken(c) = 1
  <2>1. todo[c] # <<>> /\ Len(todo[c]) = 1
    BY <1>1, <1>2
  <2>. QED  BY <2>1, SentFacts
<1>4. /\ Sent(c) \in Seq(Replies) /\ Sent(c) # <<>> /\ DOMAIN Sent(c) = 1 .. 1 /\ Len(Sent(c)) = 1
      /\ Sent(c)[1] = Reply(id[c], Asked(c)) /\ Asked(c) \in Queries
  <2>1. /\ Sent(c) \in Seq(Replies) /\ Sent(c) # <<>> /\ DOMAIN Sent(c) = 1 .. 1
        /\ Sent(c)[1] = Reply(id[c], todo[c][1]) /\ todo[c][1] \in Queries
    BY <1>1, <1>3, SentFacts
  <2>2. Len(Sent(c)) = 1
    BY <2>1, LenProperties
  <2>. QED  BY <1>2, <2>1, <2>2
<1>5. Reply(id[c], Asked(c)).error # "coded"
      => Reply(id[c], Asked(c)).result = Result(Asked(c))
  BY <1>4, ReplyFacts DEF Typed, DaemonTyped, BatchTyped
<1>6. CASE Answered(c, Error)
  BY <1>6 DEF Answered, Left, SinglesAt
<1>7. ASSUME NEW delivered \in {Sent(c)} \cup Deliveries(Sent(c)), Heard(c, delivered),
             delivered = Sent(c) \/ faults' = faults + 1
      PROVE  SinglesAt(c)'
  <2> DEFINE results == [i \in DOMAIN delivered |-> delivered[i].result]
  <2>1. /\ \A i \in DOMAIN delivered : delivered[i].error # "coded" /\ delivered[i].id = id[c]
        /\ got'[c] = got[c] \o results
        /\ pc'[c] = "replied" /\ stage'[c] = "only"
    BY <1>2, <1>3, <1>7 DEF Heard
  <2>2. delivered \in Seq(Replies)
        /\ \A i \in DOMAIN delivered : delivered[i].result = NullValue
                                       \/ Fits(c, delivered[i].result)
    <3>1. CASE delivered = stray
      <4>1. stray \in Seq(Replies) /\ \A i \in DOMAIN stray : stray[i].id # id[c]
        BY <1>1 DEF Typed, DaemonTyped, Fresh, FreshAt
      <4>. QED  BY <2>1, <3>1, <4>1
    <3>2. CASE delivered # stray
      <4>1. /\ delivered \in Seq(Replies)
            /\ \A i \in DOMAIN delivered : ComesOf(Sent(c), delivered[i])
        BY <1>4, <3>2, DeliveryFacts
      <4>2. ASSUME NEW i \in DOMAIN delivered
            PROVE  delivered[i].result = NullValue \/ Fits(c, delivered[i].result)
        <5>1. \/ delivered[i] = Sent(c)[1]
              \/ \E e \in {"coded", "odd"} : delivered[i] = Spoilt(Sent(c)[1], e)
          BY <1>4, <4>1 DEF ComesOf
        <5>2. Sent(c)[1] \in Replies
          BY <1>4, ElementOfSeq
        <5>3. CASE delivered[i] = Sent(c)[1]
          <6>1. delivered[i].result = Result(Asked(c))
            BY <1>4, <1>5, <2>1, <5>3
          <6>. QED  BY <1>1, <6>1, AskedIsAnswered
        <5>4. CASE \E e \in {"coded", "odd"} : delivered[i] = Spoilt(Sent(c)[1], e)
          BY <5>2, <5>4, SpoiltFacts
        <5>. QED  BY <5>1, <5>3, <5>4
      <4>. QED  BY <4>1, <4>2
    <3>. QED  BY <3>1, <3>2
  <2>3. results \in Seq(Values) /\ Len(results) = Len(delivered) /\ DOMAIN results = DOMAIN delivered
        /\ \A i \in DOMAIN results : results[i] = delivered[i].result
    BY <2>2, ResultsFacts
  <2>. HIDE DEF results
  <2>4. /\ Len(got'[c]) = Len(delivered) /\ DOMAIN got'[c] = DOMAIN delivered
        /\ \A i \in DOMAIN got'[c] : got'[c][i] = delivered[i].result
    BY <1>1, <2>1, <2>3, EmptyConcat
  <2>5. faults' = 0 => Len(got'[c]) = 1
    <3>1. faults \in Nat
      BY DEF Typed, DaemonTyped
    <3>. QED  BY <1>4, <1>7, <2>4, <3>1
  <2>6. ASSUME NEW v, Fits(c, v)
        PROVE  Fits(c, v)'
    BY <1>1, <2>6 DEF Fits, Expects, Subject, Rung
  <2>. QED  BY <2>1, <2>2, <2>4, <2>5, <2>6 DEF SinglesAt
<1>. QED  BY <1>6, <1>7, SendStep

\* What get_new_headers has come to, and the next one.
LEMMA RungFacts ==
    ASSUME Typed, Staged, Climbed, NEW c \in Client, Open(c),
           call[c].method = "get_new_headers"
    PROVE  LET chain == Chain[call[c].block]
               n == Len(chain)
               k == Len(list[c])
           IN  /\ call[c].block \in Block /\ n \in Nat /\ k \in Nat /\ k < n /\ n - k \in 1 .. n
               /\ Rung(c) = chain[n - k]
               /\ Parent(Rung(c)) = IF n - k = 1 THEN None ELSE chain[n - k - 1]
               /\ n - k # 1 => chain[n - k - 1] \in Block
<1> DEFINE chain == Chain[call[c].block]
           n == Len(chain)
           k == Len(list[c])
<1>1. call[c].block \in Block
  BY CallFacts DEF Staged, StagedAt, Open
<1>2. k \in Nat
  BY LenProperties DEF Typed, CallTyped
<1>3. n \in Nat /\ k < n
  BY <1>1, ChainFacts DEF Climbed, ClimbedAt
<1>4. Rung(c) = chain[n - k]
  BY DEF Rung
<1>. HIDE DEF n, k
<1>5. n - k \in 1 .. n /\ (n - k # 1 => n - k - 1 \in 1 .. n)
  BY <1>2, <1>3
<1>6. /\ Parent(chain[n - k]) = IF n - k = 1 THEN None ELSE chain[n - k - 1]
      /\ n - k # 1 => chain[n - k - 1] \in Block
  BY <1>1, <1>5, Ancestor DEF n
<1>. QED  BY <1>1, <1>2, <1>3, <1>4, <1>5, <1>6 DEF n, k
\* A header that comes back is the one that was asked for.
LEMMA HeaderIsRung ==
    ASSUME Typed, Staged, Singles, NEW c \in Client, call[c].method = "get_new_headers",
           pc[c] = "replied", stage[c] = "only", Len(got[c]) = 1, got[c][1].type = "header"
    PROVE  got[c][1].x = Rung(c)
<1>1. 1 \in DOMAIN got[c]
  BY LenProperties DEF Typed, BatchTyped
<1>2. got[c][1] = NullValue \/ Fits(c, got[c][1])
  BY <1>1 DEF Singles, SinglesAt
<1>3. got[c][1] = Value("header", Rung(c))
  BY <1>2 DEF Fits, Expects, Subject, NullValue, Value
<1>. QED  BY <1>3 DEF Value

LEMMA SinglesStep ==
    ASSUME Typed, Staged, Fresh, Singles, Climbed, [Next]_vars
    PROVE  Singles'
<1>1. CASE UNCHANGED vars
  BY <1>1 DEF vars, batchVars, daemonVars, Singles, SinglesAt, Asked, Fits, Expects, Subject, Rung
<1>2. CASE \E b \in Block : MoveBest(b)
  BY <1>2, KeptByMove DEF Singles
<1>3. ASSUME NEW c \in Client, Thread(c)
      PROVE  Singles'
  <2>1. SUFFICES SinglesAt(c)'
    BY <1>3, ThreadKeeps, Kept DEF Singles, OthersKept
  <2>2. Typed' /\ SinglesAt(c) /\ StagedAt(c)
    BY <1>3, ThreadKeeps DEF Singles, Staged
  <2>3. ASSUME NEW k \in Calls, Begin(c, k)
        PROVE  SinglesAt(c)'
    <3>1. call'[c] = k /\ list'[c] = <<>> /\ Len(<<>>) = 0
      BY <2>2, <2>3, BeginStep, EmptySeq DEF StagedAt
    <3>2. CASE BeginsBatch(c, k) /\ k.method = "get_new_headers"
      <4>1. /\ pc'[c] = "batch" /\ todo'[c] = <<Query("getblockheader", k.block)>> /\ got'[c] = <<>>
        BY <3>2, OneQuery, CallFacts DEF BeginsBatch, Begun
      <4>2. Rung(c)' = Chain[k.block][Len(Chain[k.block]) - 0]
        BY <3>1 DEF Rung
      <4>3. Rung(c)' = k.block
        <5>1. k.block \in Block
          BY <3>2, CallFacts
        <5>2. Len(Chain[k.block]) - 0 = Len(Chain[k.block])
          BY <5>1, ChainFacts
        <5>. QED  BY <4>2, <5>1, <5>2, ChainFacts
      <4>4. Asked(c)' = Query("getblockheader", k.block)
        BY <3>1, <3>2, <4>3 DEF Asked, Subject
      <4>. QED  BY <4>1, <4>4 DEF SinglesAt
    <3>3. CASE BeginsBatch(c, k) /\ k.method = "get_all_headers"
      BY <3>3 DEF BeginsBatch, Begun, SinglesAt
    <3>4. CASE /\ BeginsBatch(c, k)
               /\ k.method \in {"getbestblockhash", "getblockheader", "gettxoutproof"}
      <4>1. /\ pc'[c] = "batch" /\ todo'[c] = <<Query(k.method, k.block)>> /\ got'[c] = <<>>
        BY <3>4, OneQuery, CallFacts DEF BeginsBatch, Begun
      <4>2. Asked(c)' = Query(k.method, k.block)
        BY <3>1, <3>4 DEF Asked, Subject
      <4>. QED  BY <4>1, <4>2 DEF SinglesAt
    <3>5. CASE Answered(c, Ok(<<>>))
      BY <3>5 DEF Answered, Left, SinglesAt
    <3>. QED  BY <2>3, <3>2, <3>3, <3>4, <3>5, BeginStep, CallFacts DEF Methods
  <2>4. CASE SendReq(c)
    <3>1. CASE stage[c] = "only"
      BY <2>4, <3>1, SingleIsHeard
    <3>2. CASE stage[c] # "only"
      <4>1. stage'[c] = stage[c]
        BY <2>4, SendStep DEF Answered, Left, Heard
      <4>. QED  BY <3>2, <4>1 DEF SinglesAt
    <3>. QED  BY <3>1, <3>2
  <2>5. CASE SimpleCall(c)
    BY <2>5, SimpleCallStep DEF Answered, Panicked, Left, SinglesAt
  <2>6. CASE GetNewHeaders(c)
    <3>1. CASE Left(c, "done") \/ Left(c, "panicked")
      BY <3>1 DEF Left, SinglesAt
    <3>2. CASE ~ (Left(c, "done") \/ Left(c, "panicked"))
      <4> DEFINE x == got[c][1].x
                 below == Parent(x)
                 chain == Chain[call[c].block]
                 n == Len(chain)
                 k == Len(list[c])
      <4>1. /\ Len(got[c]) = 1 /\ got[c][1].type = "header" /\ x \in Block
            /\ list'[c] = Append(list[c], x)
            /\ below # None
            /\ Begun(c, "only", <<Query("getblockheader", below)>>)
            /\ Steady(c) /\ pc[c] = "replied" /\ stage[c] = "only"
            /\ call[c].method = "get_new_headers"
        BY <2>6, <3>2, GetNewHeadersStep DEF Answered, Panicked
      <4>2. x = Rung(c)
        BY <4>1, HeaderIsRung
      <4>3. /\ n \in Nat /\ k \in Nat /\ k < n
            /\ below = IF n - k = 1 THEN None ELSE chain[n - k - 1]
        BY <4>1, <4>2, RungFacts DEF Open
      <4>4. Len(list'[c]) = k + 1
        BY <4>1, AppendProperties DEF Typed, CallTyped
      <4>5. call'[c] = call[c]
        BY <4>1 DEF Steady
      <4>6. Rung(c)' = chain[n - (k + 1)]
        BY <4>4, <4>5 DEF Rung
      <4>. HIDE DEF x, below, chain, n, k
      <4>7. n - (k + 1) = n - k - 1
        BY <4>3
      <4>8. Rung(c)' = below
        BY <4>1, <4>3, <4>6, <4>7
      <4>9. Asked(c)' = Query("getblockheader", below)
        BY <4>1, <4>5, <4>8 DEF Asked, Subject
      <4>10. below \in Block \cup {None}
        BY <4>1, ParentFacts DEF below
      <4>11. /\ pc'[c] = "batch" /\ todo'[c] = <<Query("getblockheader", below)>> /\ got'[c] = <<>>
        BY <4>1, <4>10, OneQuery DEF Begun
      <4>. QED  BY <4>9, <4>11 DEF SinglesAt
    <3>. QED  BY <3>1, <3>2
  <2>7. CASE GetTipHeight(c)
    BY <2>7, GetTipHeightStep DEF Panicked, Left, Begun, SinglesAt
  <2>8. CASE GetBlockHashes(c)
    BY <2>8, GetBlockHashesStep DEF Begun, SinglesAt
  <2>9. CASE GetBlockHeaders(c)
    BY <2>9, GetBlockHeadersStep DEF Answered, Panicked, Left, Begun, SinglesAt
  <2>. QED  BY <1>3, <2>3, <2>4, <2>5, <2>6, <2>7, <2>8, <2>9 DEF Thread
<1>. QED  BY <1>1, <1>2, <1>3, NextCases DEF Thread
-----------------------------------------------------------------------------
(* The climb of get_new_headers.                                            *)

LEMMA ClimbedStep ==
    ASSUME Typed, Staged, Singles, Climbed, [Next]_vars
    PROVE  Climbed'
<1>1. CASE UNCHANGED vars
  BY <1>1 DEF vars, batchVars, daemonVars, Climbed, ClimbedAt, Open
<1>2. CASE \E b \in Block : MoveBest(b)
  BY <1>2, KeptByMove DEF Climbed
<1>3. ASSUME NEW c \in Client, Thread(c)
      PROVE  Climbed'
  <2>1. SUFFICES ClimbedAt(c)'
    BY <1>3, ThreadKeeps, Kept DEF Climbed, OthersKept
  <2>2. Typed' /\ ClimbedAt(c) /\ StagedAt(c)
    BY <1>3, ThreadKeeps DEF Climbed, Staged
  <2>3. ASSUME NEW k \in Calls, Begin(c, k)
        PROVE  ClimbedAt(c)'
    <3>1. call'[c] = k /\ list'[c] = <<>> /\ Len(<<>>) = 0
      BY <2>2, <2>3, BeginStep, EmptySeq DEF StagedAt
    <3>2. CASE Answered(c, Ok(<<>>))
      BY <3>2 DEF Answered, Left, ClimbedAt, Open
    <3>3. CASE BeginsBatch(c, k)
      <4>1. SUFFICES ASSUME k.method = "get_new_headers" PROVE ClimbedAt(c)'
        BY <3>1 DEF ClimbedAt
      <4> DEFINE chain == Chain[k.block]
                 n == Len(chain)
      <4>2. k.block \in Block /\ k.block \notin k.known
        BY <3>3, <4>1, CallFacts DEF BeginsBatch
      <4>3. n \in Nat \ {0} /\ chain[n] = k.block
        BY <4>2, ChainFacts
      <4>. HIDE DEF n
      <4>4. /\ 0 < n /\ \A i \in 1 .. 0 + 1 : i = 1
            /\ n - 1 + 1 = n /\ \A i \in 1 .. 0 : FALSE
        BY <4>3
      <4>5. \A i \in 1 .. 0 + 1 : chain[n - i + 1] \notin k.known
        BY <4>2, <4>3, <4>4
      <4>. QED  BY <3>1, <4>4, <4>5 DEF ClimbedAt, n
    <3>. QED  BY <2>3, <3>2, <3>3, BeginStep
  <2>4. CASE SendReq(c)
    <3>1. UNCHANGED <<call, list>> /\ Open(c)
      BY <2>4, SendStep DEF Open
    <3>. QED  BY <2>2, <3>1 DEF ClimbedAt
  <2>5. CASE SimpleCall(c)
    BY <2>5, SimpleCallStep DEF Steady, ClimbedAt
  <2>6. CASE GetNewHeaders(c)
    <3>1. CASE Left(c, "done") \/ Left(c, "panicked")
      BY <3>1 DEF Left, ClimbedAt, Open
    <3>2. CASE ~ (Left(c, "done") \/ Left(c, "panicked"))
      <4> DEFINE x == got[c][1].x
                 below == Parent(x)
                 chain == Chain[call[c].block]
                 n == Len(chain)
                 k == Len(list[c])
      <4>1. /\ Len(got[c]) = 1 /\ got[c][1].type = "header" /\ x \in Block
            /\ list'[c] = Append(list[c], x)
            /\ below # None /\ below \notin call[c].known
            /\ call'[c] = call[c] /\ pc[c] = "replied" /\ stage[c] = "only"
            /\ call[c].method = "get_new_headers"
        BY <2>6, <3>2, GetNewHeadersStep DEF Answered, Panicked, Steady
      <4>2. x = Rung(c)
        BY <4>1, HeaderIsRung
      <4>3. /\ n \in Nat /\ k \in Nat /\ k < n
            /\ x = chain[n - k]
            /\ below = IF n - k = 1 THEN None ELSE chain[n - k - 1]
        BY <4>1, <4>2, RungFacts DEF Open
      <4>4. /\ Len(list'[c]) = k + 1
            /\ \A i \in 1 .. k : list'[c][i] = list[c][i]
            /\ list'[c][k + 1] = x
        BY <4>1, AppendProperties DEF Typed, CallTyped
      <4>5. /\ \A i \in 1 .. k : list[c][i] = chain[n - i + 1]
            /\ \A i \in 1 .. k + 1 : chain[n - i + 1] \notin call[c].known
        BY <2>2, <4>1 DEF ClimbedAt, Open
      <4>. HIDE DEF x, below, chain, n, k
      <4>6. n - k # 1 /\ below = chain[n - k - 1]
        BY <4>1, <4>3
      <4>7. /\ k + 1 < n /\ n - (k + 1) + 1 = n - k /\ n - (k + 1 + 1) + 1 = n - k - 1
            /\ \A i \in 1 .. k + 1 : i \in 1 .. k \/ i = k + 1
            /\ \A i \in 1 .. k + 1 + 1 : i \in 1 .. k + 1 \/ i = k + 1 + 1
        BY <4>3, <4>6
      <4>8. \A i \in 1 .. k + 1 : list'[c][i] = chain[n - i + 1]
        BY <4>3, <4>4, <4>5, <4>7
      <4>9. \A i \in 1 .. k + 1 + 1 : chain[n - i + 1] \notin call[c].known
        BY <4>1, <4>5, <4>6, <4>7
      <4>. QED  BY <4>1, <4>4, <4>7, <4>8, <4>9 DEF ClimbedAt, chain, n
    <3>. QED  BY <3>1, <3>2
  <2>7. CASE GetTipHeight(c)
    BY <2>2, <2>7, GetTipHeightStep DEF Steady, ClimbedAt, StagedAt, Open
  <2>8. CASE GetBlockHashes(c)
    BY <2>2, <2>8, GetBlockHashesStep DEF Steady, ClimbedAt, StagedAt, Open
  <2>9. CASE GetBlockHeaders(c)
    BY <2>2, <2>9, GetBlockHeadersStep DEF Steady, ClimbedAt, StagedAt, Open
  <2>. QED  BY <1>3, <2>3, <2>4, <2>5, <2>6, <2>7, <2>8, <2>9 DEF Thread
<1>. QED  BY <1>1, <1>2, <1>3, NextCases DEF Thread
-----------------------------------------------------------------------------
(* The way of get_all_headers while nothing goes wrong.                     *)

LEMMA TrackFacts ==
    ASSUME Typed, Staged, NEW c \in Client, call[c].method = "get_all_headers", Open(c), Calm(c)
    PROVE  /\ call[c].block \in Block /\ best \in Block
           /\ Len(Chain[call[c].block]) \in Nat \ {0}
           /\ stage[c] \in {"info", "hashes", "headers"}
           /\ Len(list[c]) \in Nat /\ Len(got[c]) \in Nat /\ Len(todo[c]) \in Nat
           /\ DOMAIN got[c] = 1 .. Len(got[c]) /\ DOMAIN todo[c] = 1 .. Len(todo[c])
           /\ Len(Chain[call[c].block]) <= Len(Chain[best])
           /\ \A i \in 1 .. Len(Chain[call[c].block]) : Chain[best][i] = Chain[call[c].block][i]
<1>1. /\ call[c].block \in Block /\ best \in window[c] /\ stage[c] # "only"
  BY CallFacts DEF Staged, StagedAt, Open
<1>2. best \in Block /\ call[c].block \in Range(Chain[best])
  BY <1>1 DEF Calm, Typed, DaemonTyped
<1>3. /\ Len(list[c]) \in Nat /\ Len(got[c]) \in Nat /\ Len(todo[c]) \in Nat
      /\ DOMAIN got[c] = 1 .. Len(got[c]) /\ DOMAIN todo[c] = 1 .. Len(todo[c])
  BY LenProperties DEF Typed, BatchTyped, CallTyped
<1>4. stage[c] \in {"info", "hashes", "headers"}
  BY <1>1 DEF Typed, BatchTyped
<1>. QED  BY <1>1, <1>2, <1>3, <1>4, ChainFacts, OnChain

\* The heights a batch is about are on the chain of the tip.
LEMMA ExpectedFacts ==
    ASSUME Typed, Staged, NEW c \in Client, call[c].method = "get_all_headers", Open(c), Calm(c),
           LinedUp(c), stage[c] # "info"
    PROVE  LET n == Len(Chain[call[c].block])
           IN  /\ height[c] = n - 1 /\ Len(list[c]) <= n - 1
               /\ Len(got[c]) + Len(todo[c]) = Len(HeightsFrom(Len(list[c]), n - 1))
               /\ Len(got[c]) + Len(todo[c]) <= n - Len(list[c])
<1> DEFINE n == Len(Chain[call[c].block])
           k == Len(list[c])
<1>1. n \in Nat \ {0} /\ k \in Nat /\ stage[c] \in {"info", "hashes", "headers"}
  BY TrackFacts
<1>2. height[c] = n - 1
  BY DEF LinedUp
<1>3. k <= n - 1
  BY <1>1, <1>2 DEF Staged, StagedAt
<1>4. Len(got[c]) + Len(todo[c]) = Len(HeightsFrom(k, n - 1))
  BY DEF LinedUp, Expected
<1>. HIDE DEF n, k
<1>5. n - 1 \in Nat
  BY <1>1
<1>6. (IF (n - 1) + 1 - k < HeightChunk THEN (n - 1) + 1 - k ELSE HeightChunk) <= n - k
  BY <1>1, BoundAssumption
<1>7. Len(HeightsFrom(k, n - 1)) = IF (n - 1) + 1 - k < HeightChunk THEN (n - 1) + 1 - k ELSE HeightChunk
  BY <1>1, <1>3, <1>5, HeightsFromFacts
<1>. QED  BY <1>2, <1>3, <1>4, <1>6, <1>7 DEF n, k

\* A query gets the value that is expected for it, or an error.
LEMMA ExpectedIsAnswered ==
    ASSUME Typed, Staged, NEW c \in Client, call[c].method = "get_all_headers", Open(c), Calm(c),
           LinedUp(c), NEW i \in DOMAIN todo[c]
    PROVE  Result(todo[c][i])
           = ExpectedValue(stage[c], call[c].block, Len(list[c]) + Len(got[c]) + i)
<1> DEFINE tip == call[c].block
           n == Len(Chain[tip])
           k == Len(list[c])
           g == Len(got[c])
           m == k + g + i
<1>1. todo[c][i] = ExpectedQuery(stage[c], tip, m)
  BY DEF LinedUp
<1>2. /\ n \in Nat \ {0} /\ k \in Nat /\ g \in Nat /\ Len(todo[c]) \in Nat
      /\ i \in 1 .. Len(todo[c])
  BY TrackFacts
<1>3. CASE stage[c] = "info"
  <2>1. todo[c][i] = Query("getblockheader verbose", tip)
    BY <1>1, <1>3 DEF ExpectedQuery
  <2>2. Result(Query("getblockheader verbose", tip)) = Value("info", n - 1)
    BY DEF Result, Query
  <2>. QED  BY <1>3, <2>1, <2>2 DEF ExpectedValue
<1>4. CASE stage[c] = "hashes"
  <2>1. todo[c][i] = Query("getblockhash", m - 1)
    BY <1>1, <1>4 DEF ExpectedQuery
  <2>2. Result(todo[c][i]) = Value("hash", Chain[best][(m - 1) + 1])
    BY <2>1 DEF Result, Query
  <2>3. g + Len(todo[c]) <= n - k
    BY <1>4, ExpectedFacts
  <2>4. (m - 1) + 1 = m /\ m \in 1 .. n
    <3>. HIDE DEF n, k, g
    <3>. QED  BY <1>2, <2>3
  <2>5. Chain[best][m] = Chain[tip][m]
    BY <2>4, TrackFacts
  <2>. QED  BY <1>4, <2>2, <2>4, <2>5 DEF ExpectedValue
<1>5. CASE stage[c] = "headers"
  <2>1. todo[c][i] = Query("getblockheader", Chain[tip][m])
    BY <1>1, <1>5 DEF ExpectedQuery
  <2>2. Result(todo[c][i]) = Value("header", Chain[tip][m])
    BY <2>1 DEF Result, Query
  <2>. QED  BY <1>5, <2>2 DEF ExpectedValue
<1>. QED  BY <1>3, <1>4, <1>5, TrackFacts

LEMMA EmptyIsEmpty == Len(<<>>) = 0 /\ DOMAIN <<>> = {}
  OBVIOUS

\* How a batch begins that is on track.
BegunOnTrack(c, s, queries, tip, k) ==
    /\ Begun(c, s, queries) /\ tip = call'[c].block /\ k = Len(list'[c]) /\ k \in Nat
    /\ s # "info" => /\ height'[c] = Len(Chain[tip]) - 1
                     /\ \A i \in 1 .. k : list'[c][i] = Chain[tip][i]
    /\ Len(queries) = IF s = "info" THEN 1 ELSE Len(HeightsFrom(k, Len(Chain[tip]) - 1))
    /\ Len(queries) \in Nat /\ DOMAIN queries = 1 .. Len(queries)
    /\ \A i \in DOMAIN queries : queries[i] = ExpectedQuery(s, tip, k + i)

LEMMA TrackBegun ==
    ASSUME NEW c \in Client, NEW s, NEW queries, NEW tip, NEW k,
           BegunOnTrack(c, s, queries, tip, k)
    PROVE  LinedUp(c)'
<1>0. /\ Begun(c, s, queries) /\ tip = call'[c].block /\ k = Len(list'[c]) /\ k \in Nat
      /\ s # "info" => /\ height'[c] = Len(Chain[tip]) - 1
                       /\ \A i \in 1 .. k : list'[c][i] = Chain[tip][i]
      /\ Len(queries) = IF s = "info" THEN 1 ELSE Len(HeightsFrom(k, Len(Chain[tip]) - 1))
      /\ Len(queries) \in Nat /\ DOMAIN queries = 1 .. Len(queries)
      /\ \A i \in DOMAIN queries : queries[i] = ExpectedQuery(s, tip, k + i)
  BY DEF BegunOnTrack
<1>1. stage'[c] = s /\ todo'[c] = queries /\ got'[c] = <<>>
  BY <1>0 DEF Begun
<1>2. Len(got'[c]) = 0 /\ DOMAIN got'[c] = {}
  BY <1>1, EmptyIsEmpty
<1>3. Len(got'[c]) + Len(todo'[c]) = Len(queries)
  BY <1>0, <1>1, <1>2
<1>4. \A i \in DOMAIN queries : k + Len(got'[c]) + i = k + i
  BY <1>0, <1>2
<1>5. \A i \in DOMAIN todo'[c] :
        todo'[c][i] = ExpectedQuery(stage'[c], tip, k + Len(got'[c]) + i)
  BY <1>0, <1>1, <1>4
<1>. QED  BY <1>0, <1>1, <1>2, <1>3, <1>5 DEF LinedUp, Expected
LEMMA SendOnTrack ==
    ASSUME Typed, Staged, NEW c \in Client, OnTrackAt(c), SendReq(c),
           call[c].method = "get_all_headers", Calm(c)', Open(c)'
    PROVE  LinedUp(c)'
<1> DEFINE s == stage[c]
           tip == call[c].block
           k == Len(list[c])
           g == Len(got[c])
           n == Len(todo[c])
           t == Taken(c)
           results == [i \in DOMAIN Sent(c) |-> Sent(c)[i].result]
<1>1. /\ pc[c] = "batch" /\ todo[c] # <<>>
      /\ UNCHANGED <<call, list, height, window>> /\ faults' \in {faults, faults + 1}
  BY SendStep DEF Staged, StagedAt
<1>2. faults \in Nat
  BY DEF Typed, DaemonTyped
<1>3. faults' = faults /\ Calm(c) /\ Open(c)
  BY <1>1, <1>2 DEF Calm, Open
<1>4. LinedUp(c)
  BY <1>3 DEF OnTrackAt
<1>5. Heard(c, Sent(c))
  <2>1. ~ Answered(c, Error)
    BY DEF Answered, Left, Open
  <2>2. faults' # faults + 1
    BY <1>2, <1>3
  <2>. QED  BY <2>1, <2>2, SendStep
<1>6. /\ k \in Nat /\ g \in Nat /\ n \in Nat /\ DOMAIN got[c] = 1 .. g /\ DOMAIN todo[c] = 1 .. n
  BY <1>3, TrackFacts
<1>7. /\ t \in 1 .. n /\ DOMAIN Sent(c) = 1 .. t /\ Sent(c) \in Seq(Replies)
      /\ \A i \in 1 .. t : todo[c][i] \in Queries /\ Sent(c)[i] = Reply(id[c], todo[c][i])
  BY <1>1, SentFacts
<1>8. ASSUME NEW i \in 1 .. t
      PROVE  results[i] = ExpectedValue(s, tip, k + g + i)
  <2>1. Sent(c)[i].error # "coded" /\ Sent(c)[i].result = results[i]
    BY <1>5, <1>7 DEF Heard
  <2>2. results[i] = Result(todo[c][i])
    BY <1>7, <2>1, ReplyFacts DEF Typed, BatchTyped, DaemonTyped
  <2>3. i \in DOMAIN todo[c]
    BY <1>6, <1>7
  <2>. QED  BY <1>3, <1>4, <2>2, <2>3, ExpectedIsAnswered
<1>9. /\ got'[c] = got[c] \o results
      /\ todo'[c] = SubSeq(todo[c], t + 1, n)
      /\ stage'[c] = s
  BY <1>5 DEF Heard
<1>10. results \in Seq(Values) /\ Len(results) = t
  <2>1. Len(Sent(c)) = t
    BY <1>7, LenProperties
  <2>. QED  BY <1>7, <2>1, ResultsFacts
<1>11. /\ Len(todo'[c]) = n - t /\ DOMAIN todo'[c] = 1 .. n - t
       /\ \A i \in 1 .. n - t : todo'[c][i] = todo[c][t + i]
  <2>1. /\ todo'[c] \in Seq(Queries) /\ Len(todo'[c]) = n - t
        /\ \A i \in 1 .. n - t : todo'[c][i] = todo[c][t + i]
    BY <1>1, <1>9, RemainderFacts
  <2>. QED  BY <2>1, LenProperties
<1>. HIDE DEF results
<1>12. /\ Len(got'[c]) = g + t /\ DOMAIN got'[c] = 1 .. g + t
       /\ \A i \in 1 .. g : got'[c][i] = got[c][i]
       /\ \A i \in 1 .. t : got'[c][g + i] = results[i]
  <2>1. got[c] \in Seq(Values)
    BY DEF Typed, BatchTyped
  <2>2. /\ got'[c] \in Seq(Values) /\ Len(got'[c]) = g + t
        /\ \A i \in 1 .. g : got'[c][i] = got[c][i]
        /\ \A i \in 1 .. t : got'[c][g + i] = results[i]
    <3> DEFINE u == got[c]
    <3>1. u \in Seq(Values) /\ results \in Seq(Values)
      BY <1>10, <2>1
    <3>. HIDE DEF u
    <3>2. /\ u \o results \in Seq(Values) /\ Len(u \o results) = Len(u) + Len(results)
          /\ \A i \in 1 .. Len(u) : (u \o results)[i] = u[i]
          /\ \A i \in 1 .. Len(results) : (u \o results)[Len(u) + i] = results[i]
      BY <3>1, ConcatFacts
    <3>. QED  BY <1>9, <1>10, <3>2 DEF u
  <2>. QED  BY <2>2, LenProperties
<1>13. /\ \A i \in 1 .. g : got[c][i] = ExpectedValue(s, tip, k + i)
       /\ \A i \in 1 .. n : todo[c][i] = ExpectedQuery(s, tip, k + g + i)
       /\ g + n = Expected(c, Len(Chain[tip]) - 1)
       /\ s # "info" => /\ height[c] = Len(Chain[tip]) - 1
                        /\ \A i \in 1 .. k : list[c][i] = Chain[tip][i]
  BY <1>4, <1>6 DEF LinedUp
<1>14. call'[c] = call[c] /\ list'[c] = list[c] /\ height'[c] = height[c]
  BY <1>1
<1>. HIDE DEF s, tip, k, g, n, t
<1>15. /\ (g + t) + (n - t) = g + n
       /\ \A i \in 1 .. g + t : i \in 1 .. g \/ (i - g \in 1 .. t /\ g + (i - g) = i /\ k + g + (i - g) = k + i)
       /\ \A i \in 1 .. n - t : t + i \in 1 .. n /\ k + g + (t + i) = k + (g + t) + i
  BY <1>6, <1>7
<1>16. \A i \in 1 .. g + t : got'[c][i] = ExpectedValue(s, tip, k + i)
  <2> TAKE i \in 1 .. g + t
  <2>1. CASE i \in 1 .. g
    BY <1>12, <1>13, <2>1
  <2>2. CASE i - g \in 1 .. t /\ g + (i - g) = i /\ k + g + (i - g) = k + i
    <3> DEFINE j == i - g
    <3>1. j \in 1 .. t /\ g + j = i /\ k + g + j = k + i
      BY <2>2
    <3>. HIDE DEF j
    <3>. QED  BY <1>8, <1>12, <3>1
  <2>. QED  BY <1>15, <2>1, <2>2
<1>17. \A i \in 1 .. n - t : todo'[c][i] = ExpectedQuery(s, tip, k + (g + t) + i)
  BY <1>11, <1>13, <1>15
<1>18. Expected(c, Len(Chain[tip]) - 1)' = Expected(c, Len(Chain[tip]) - 1)
  BY <1>9, <1>14 DEF Expected, s, tip
<1>19. Len(got'[c]) + Len(todo'[c]) = Expected(c, Len(Chain[tip]) - 1)
  BY <1>11, <1>12, <1>13, <1>15
<1>. QED  BY <1>9, <1>11, <1>12, <1>13, <1>14, <1>16, <1>17, <1>18, <1>19
          DEF LinedUp, s, tip, k, g, n, t
\* All replies to a batch are there, and are what is expected.
RepliedOnTrack(c) ==
    LET tip == call[c].block
        k   == Len(list[c])
    IN  /\ Calm(c) /\ Open(c) /\ LinedUp(c) /\ call[c].method = "get_all_headers"
        /\ tip \in Block /\ Len(Chain[tip]) \in Nat \ {0} /\ Len(got[c]) \in Nat /\ k \in Nat
        /\ DOMAIN got[c] = 1 .. Len(got[c])
        /\ Len(got[c]) = Expected(c, Len(Chain[tip]) - 1)
        /\ \A i \in DOMAIN got[c] : got[c][i] = ExpectedValue(stage[c], tip, k + i)

LEMMA OnTrackReplied ==
    ASSUME Typed, Staged, NEW c \in Client, OnTrackAt(c), pc[c] = "replied",
           call[c].method = "get_all_headers", Calm(c)
    PROVE  RepliedOnTrack(c)
<1>1. Open(c) /\ LinedUp(c)
  BY DEF OnTrackAt, Open
<1>2. todo[c] = <<>>
  BY DEF Staged, StagedAt
<1>3. /\ call[c].block \in Block /\ Len(Chain[call[c].block]) \in Nat \ {0}
      /\ Len(got[c]) \in Nat /\ Len(list[c]) \in Nat
      /\ DOMAIN got[c] = 1 .. Len(got[c])
  BY <1>1, TrackFacts
<1>4. /\ Len(got[c]) + Len(todo[c]) = Expected(c, Len(Chain[call[c].block]) - 1)
      /\ \A i \in DOMAIN got[c] :
            got[c][i] = ExpectedValue(stage[c], call[c].block, Len(list[c]) + i)
  BY <1>1 DEF LinedUp
<1>5. Len(got[c]) + Len(todo[c]) = Len(got[c])
  BY <1>2, <1>3, EmptyIsEmpty
<1>. QED  BY <1>1, <1>3, <1>4, <1>5 DEF RepliedOnTrack

\* The headers collected so far are the lower part of the chain.
LEMMA CollectedOnTrack ==
    ASSUME Typed, NEW c \in Client, RepliedOnTrack(c), stage[c] = "headers",
           \A i \in DOMAIN got[c] : got[c][i].type = "header"
    PROVE  LET all == list[c] \o Collected(c)
           IN  /\ all \in Seq(Block) /\ Len(all) = Len(list[c]) + Len(got[c])
               /\ \A i \in 1 .. Len(all) : all[i] = Chain[call[c].block][i]
<1> DEFINE tip == call[c].block
           k == Len(list[c])
           g == Len(got[c])
           all == list[c] \o Collected(c)
<1>1. \A i \in 1 .. k : list[c][i] = Chain[tip][i]
  BY DEF RepliedOnTrack, LinedUp
<1>2. /\ all \in Seq(Block) /\ Len(all) = k + g
      /\ \A i \in 1 .. k : all[i] = list[c][i]
      /\ \A i \in 1 .. g : all[k + i] = got[c][i].x
  BY CollectedFacts
<1>3. \A i \in 1 .. g : got[c][i].x = Chain[tip][k + i]
  <2> TAKE i \in 1 .. g
  <2>1. got[c][i] = ExpectedValue("headers", tip, k + i)
    BY DEF RepliedOnTrack
  <2>2. ExpectedValue("headers", tip, k + i) = Value("header", Chain[tip][k + i])
    BY DEF ExpectedValue
  <2>. QED  BY <2>1, <2>2 DEF Value
<1>4. k \in Nat /\ g \in Nat
  BY DEF RepliedOnTrack
<1>. HIDE DEF all, k, g
<1>5. \A i \in 1 .. k + g : i \in 1 .. k \/ (i - k \in 1 .. g /\ k + (i - k) = i)
  BY <1>4
<1>6. \A i \in 1 .. Len(all) : all[i] = Chain[tip][i]
  <2> TAKE i \in 1 .. Len(all)
  <2>1. i \in 1 .. k + g
    BY <1>2
  <2>2. CASE i \in 1 .. k
    BY <1>1, <1>2, <2>2
  <2>3. CASE i - k \in 1 .. g /\ k + (i - k) = i
    <3> DEFINE j == i - k
    <3>1. j \in 1 .. g /\ k + j = i
      BY <2>3
    <3>. HIDE DEF j
    <3>. QED  BY <1>2, <1>3, <3>1
  <2>. QED  BY <1>5, <2>1, <2>2, <2>3
<1>. QED  BY <1>2, <1>6 DEF all, k, g

LEMMA OnTrackStep ==
    ASSUME Typed, Staged, OnTrack, [Next]_vars
    PROVE  OnTrack'
<1>1. CASE UNCHANGED vars
  BY <1>1 DEF vars, batchVars, daemonVars, OnTrack, OnTrackAt, LinedUp, Open, Calm, Expected
<1>2. CASE \E b \in Block : MoveBest(b)
  BY <1>2, KeptByMove DEF OnTrack
<1>3. ASSUME NEW c \in Client, Thread(c)
      PROVE  OnTrack'
  <2>1. SUFFICES ASSUME call'[c].method = "get_all_headers", Calm(c)', Open(c)'
                 PROVE  LinedUp(c)'
    BY <1>3, ThreadKeeps, Kept DEF OnTrack, OnTrackAt, OthersKept
  <2>2. Typed' /\ OnTrackAt(c) /\ StagedAt(c)
    BY <1>3, ThreadKeeps DEF OnTrack, Staged
  <2> DEFINE tip == call[c].block
             k == Len(list[c])
  <2>3. ASSUME NEW j \in Calls, Begin(c, j)
        PROVE  LinedUp(c)'
    <3>1. call'[c] = j /\ list'[c] = <<>> /\ Len(<<>>) = 0
      BY <2>2, <2>3, BeginStep, EmptySeq DEF StagedAt
    <3>2. ~ Answered(c, Ok(<<>>))
      BY <2>1 DEF Answered, Left, Open
    <3> DEFINE queries == <<Query("getblockheader verbose", j.block)>>
    <3>3. Begun(c, "info", queries)
      BY <2>1, <2>3, <3>1, <3>2, BeginStep DEF BeginsBatch
    <3>4. queries \in Seq(Queries) /\ Len(queries) = 1 /\ queries[1] = Query("getblockheader verbose", j.block)
      BY CallFacts, OneQuery, Singleton
    <3>5. DOMAIN queries = 1 .. 1
      BY <3>4, LenProperties
    <3>. HIDE DEF queries
    <3>6. \A i \in DOMAIN queries : queries[i] = ExpectedQuery("info", j.block, 0 + i)
      <4>1. \A i : ExpectedQuery("info", j.block, 0 + i) = Query("getblockheader verbose", j.block)
        BY DEF ExpectedQuery
      <4>2. \A i \in 1 .. 1 : i = 1
        OBVIOUS
      <4>. QED  BY <3>4, <3>5, <4>1, <4>2
    <3>7. Len(list'[c]) = 0 /\ call'[c].block = j.block
      BY <3>1
    <3>8. BegunOnTrack(c, "info", queries, j.block, 0)
      <4>1. Len(queries) = 1 /\ DOMAIN queries = 1 .. Len(queries)
        BY <3>4, <3>5
      <4>. QED  BY <3>3, <3>6, <3>7, <4>1 DEF BegunOnTrack
    <3>. QED  BY <3>8, TrackBegun
  <2>4. CASE SendReq(c)
    <3>1. UNCHANGED call
      BY <2>4, SendStep
    <3>. QED  BY <2>1, <2>2, <2>4, <3>1, SendOnTrack
  <2>5. CASE SimpleCall(c)
    BY <2>1, <2>5, SimpleCallStep DEF Steady
  <2>6. CASE GetNewHeaders(c)
    BY <2>1, <2>6, GetNewHeadersStep DEF Steady
  <2>7. ASSUME Steady(c), pc[c] = "replied"
        PROVE  RepliedOnTrack(c) /\ call'[c] = call[c]
    <3>1. /\ call[c].method = "get_all_headers" /\ Calm(c) /\ call'[c] = call[c]
      BY <2>1, <2>7 DEF Steady, Calm
    <3>. QED  BY <2>2, <2>7, <3>1, OnTrackReplied
  <2>8. CASE GetTipHeight(c)
    <3> DEFINE top == Len(Chain[tip]) - 1
               queries == HeightsFrom(0, top)
    <3>1. /\ Steady(c) /\ pc[c] = "replied" /\ stage[c] = "info" /\ UNCHANGED list
          /\ height'[c] = got[c][1].x
          /\ Begun(c, "hashes", HeightsFrom(0, got[c][1].x))
      BY <2>1, <2>8, GetTipHeightStep DEF Panicked, Left, Open
    <3>2. list[c] = <<>> /\ k = 0
      BY <2>2, <3>1, EmptyIsEmpty DEF StagedAt, Open
    <3>3. got[c][1] = Value("info", top)
      <4>1. 1 \in DOMAIN got[c]
        BY <2>7, <3>1 DEF RepliedOnTrack, Expected
      <4>. QED  BY <2>7, <3>1, <3>2, <4>1 DEF RepliedOnTrack, ExpectedValue
    <3>4. got[c][1].x = top
      BY <3>3 DEF Value
    <3>5. top \in Nat /\ 0 <= top
      BY <2>7, <3>1 DEF RepliedOnTrack
    <3>. HIDE DEF top
    <3>6. /\ Len(queries) \in Nat /\ DOMAIN queries = 1 .. Len(queries)
          /\ \A i \in DOMAIN queries : queries[i] = Query("getblockhash", 0 + i - 1)
      BY <3>5, HeightsFromFacts, LenProperties
    <3>. HIDE DEF queries
    <3>7. \A i \in DOMAIN queries : queries[i] = ExpectedQuery("hashes", tip, 0 + i)
      BY <3>6 DEF ExpectedQuery
    <3>8. Begun(c, "hashes", queries) /\ height'[c] = top /\ Len(list'[c]) = 0 /\ call'[c].block = tip
      BY <2>7, <3>1, <3>2, <3>4 DEF queries
    <3>9. BegunOnTrack(c, "hashes", queries, tip, 0)
      BY <3>6, <3>7, <3>8 DEF BegunOnTrack, top, queries
    <3>. QED  BY <3>9, TrackBegun
  <2>9. CASE GetBlockHashes(c)
    <3> DEFINE queries == [i \in DOMAIN got[c] |-> Query("getblockheader", got[c][i].x)]
               top == Len(Chain[tip]) - 1
    <3>1. /\ Steady(c) /\ pc[c] = "replied" /\ stage[c] = "hashes" /\ UNCHANGED <<list, height>>
          /\ Begun(c, "headers", queries)
      BY <2>9, GetBlockHashesStep
    <3>2. /\ DOMAIN queries = 1 .. Len(got[c]) /\ Len(queries) = Len(got[c])
          /\ Len(got[c]) \in Nat
      BY <2>7, <3>1 DEF RepliedOnTrack
    <3>3. \A i \in DOMAIN queries : queries[i] = ExpectedQuery("headers", tip, k + i)
      <4> TAKE i \in DOMAIN queries
      <4>1. got[c][i] = Value("hash", Chain[tip][k + i])
        BY <2>7, <3>1, <3>2 DEF RepliedOnTrack, ExpectedValue
      <4>2. queries[i] = Query("getblockheader", Chain[tip][k + i])
        BY <4>1 DEF Value
      <4>. QED  BY <4>2 DEF ExpectedQuery
    <3>. HIDE DEF queries
    <3>4. Len(queries) = Len(HeightsFrom(k, top))
      BY <2>7, <3>1, <3>2 DEF RepliedOnTrack, Expected
    <3>5. /\ height'[c] = top /\ \A i \in 1 .. k : list'[c][i] = Chain[tip][i]
          /\ Len(list'[c]) = k /\ call'[c].block = tip /\ k \in Nat
      BY <2>7, <3>1 DEF RepliedOnTrack, LinedUp
    <3>6. BegunOnTrack(c, "headers", queries, tip, k)
      BY <3>1, <3>2, <3>3, <3>4, <3>5 DEF BegunOnTrack
    <3>. QED  BY <3>6, TrackBegun
  <2>10. CASE GetBlockHeaders(c)
    <3> DEFINE all == list[c] \o Collected(c)
               top == Len(Chain[tip]) - 1
               queries == HeightsFrom(Len(all), top)
    <3>1. /\ Steady(c) /\ pc[c] = "replied" /\ stage[c] = "headers" /\ UNCHANGED height
          /\ \A i \in DOMAIN got[c] : got[c][i].type = "header"
          /\ list'[c] = all /\ Len(all) <= height[c]
          /\ Begun(c, "hashes", HeightsFrom(Len(all), height[c]))
      BY <2>1, <2>10, GetBlockHeadersStep DEF Answered, Panicked, Left, Open
    <3>2. height[c] = top
      BY <2>7, <3>1 DEF RepliedOnTrack, LinedUp
    <3>3. /\ all \in Seq(Block)
          /\ \A i \in 1 .. Len(all) : all[i] = Chain[tip][i]
      BY <2>7, <3>1, CollectedOnTrack
    <3>. HIDE DEF all
    <3>6. top \in Nat /\ Len(all) \in Nat /\ tip \in Block
      <4>1. Len(Chain[tip]) \in Nat \ {0} /\ tip \in Block
        BY <2>7, <3>1 DEF RepliedOnTrack
      <4>2. Len(all) \in Nat
        BY <3>3, LenProperties
      <4>. HIDE DEF tip
      <4>. QED  BY <4>1, <4>2
    <3>. HIDE DEF top
    <3>7. /\ Len(queries) \in Nat /\ DOMAIN queries = 1 .. Len(queries)
          /\ \A i \in DOMAIN queries : queries[i] = Query("getblockhash", Len(all) + i - 1)
      BY <3>6, HeightsFromFacts, LenProperties
    <3>. HIDE DEF queries
    <3>8. \A i \in DOMAIN queries : queries[i] = ExpectedQuery("hashes", tip, Len(all) + i)
      BY <3>7 DEF ExpectedQuery
    <3>9. Begun(c, "hashes", queries) /\ height'[c] = top /\ call'[c].block = tip
      BY <2>7, <3>1, <3>2 DEF queries
    <3>10. BegunOnTrack(c, "hashes", queries, tip, Len(all))
      BY <3>1, <3>3, <3>6, <3>7, <3>8, <3>9 DEF BegunOnTrack, top, queries
    <3>. QED  BY <3>10, TrackBegun
  <2>. QED  BY <1>3, <2>3, <2>4, <2>5, <2>6, <2>8, <2>9, <2>10 DEF Thread
<1>. QED  BY <1>1, <1>2, <1>3, NextCases DEF Thread
-----------------------------------------------------------------------------
(* The properties.                                                          *)

LEMMA DoneKept ==
    ASSUME NEW d \in Client, BatchKept(d), CallKept(d)
    PROVE  \A m : Done(d, m)' <=> Done(d, m)
  BY DEF BatchKept, CallKept, Done

LEMMA DoneKeptByMove ==
    ASSUME Typed, NEW b \in Block, MoveBest(b), NEW d \in Client
    PROVE  /\ \A m : Done(d, m)' <=> Done(d, m)
           /\ answer'[d] = answer[d] /\ call'[d] = call[d] /\ pc'[d] = pc[d]
           /\ pc[d] # "idle" => window[d] \subseteq window'[d]
<1>1. /\ UNCHANGED <<pc, call, answer>>
      /\ window'[d] = IF pc[d] = "idle" THEN {} ELSE window[d] \cup {b}
  BY MoveBestStep DEF batchVars
<1>. QED  BY <1>1 DEF Done

\* Where an answer comes from.
LEMMA BecomesDone ==
    ASSUME Typed, Staged, NEW c \in Client, Thread(c), NEW m, Done(c, m)'
    PROVE  \/ m = "get_new_headers" /\ \E k \in Calls : Begin(c, k)
           \/ m \in {"getbestblockhash", "getblockheader", "gettxoutproof"} /\ SimpleCall(c)
           \/ m = "get_new_headers" /\ GetNewHeaders(c)
           \/ m = "get_all_headers" /\ GetBlockHeaders(c)
<1>1. pc'[c] = "done" /\ call'[c].method = m /\ answer'[c].tag = "ok"
  BY DEF Done
<1>2. ~ Answered(c, Error)
  BY <1>1 DEF Answered, Error
<1>3. \A s, queries : ~ Begun(c, s, queries)
  BY <1>1 DEF Begun
<1>4. ~ Panicked(c)
  BY <1>1 DEF Panicked, Left
<1>5. CASE \E k \in Calls : Begin(c, k)
  BY <1>1, <1>3, <1>5, BeginStep DEF BeginsBatch
<1>6. CASE SendReq(c)
  BY <1>1, <1>2, <1>6, SendStep DEF Heard
<1>7. CASE SimpleCall(c)
  BY <1>1, <1>7, SimpleCallStep DEF Steady
<1>8. CASE GetNewHeaders(c)
  BY <1>1, <1>8, GetNewHeadersStep DEF Steady
<1>9. CASE GetTipHeight(c)
  BY <1>3, <1>4, <1>9, GetTipHeightStep
<1>10. CASE GetBlockHashes(c)
  BY <1>3, <1>10, GetBlockHashesStep
<1>11. CASE GetBlockHeaders(c)
  <2>1. call'[c] = call[c] /\ pc[c] = "replied" /\ stage[c] = "headers"
    BY <1>11, GetBlockHeadersStep DEF Steady
  <2>2. call[c].method = "get_all_headers"
    BY <2>1 DEF Staged, StagedAt, Open
  <2>. QED  BY <1>1, <1>11, <2>1, <2>2
<1>. QED  BY <1>5, <1>6, <1>7, <1>8, <1>9, <1>10, <1>11 DEF Thread

OwnReplyAt(c) ==
    /\ Done(c, "getblockheader") \/ Done(c, "gettxoutproof") => answer[c].val = call[c].block
    /\ Done(c, "getbestblockhash") => answer[c].val \in window[c]

LEMMA OwnReplyStep ==
    ASSUME Typed, Staged, Singles, OwnReply, [Next]_vars
    PROVE  OwnReply'
<1>0. SUFFICES ASSUME NEW d \in Client PROVE OwnReplyAt(d)'
  BY DEF OwnReply, OwnReplyAt
<1>1. OwnReplyAt(d)
  BY DEF OwnReply, OwnReplyAt
<1>2. CASE UNCHANGED vars
  BY <1>1, <1>2 DEF vars, batchVars, daemonVars, OwnReplyAt, Done
<1>3. ASSUME NEW b \in Block, MoveBest(b)
      PROVE  OwnReplyAt(d)'
  <2>1. Done(d, "getbestblockhash") => pc[d] # "idle"
    BY DEF Done
  <2>. QED  BY <1>1, <1>3, <2>1, DoneKeptByMove DEF OwnReplyAt
<1>4. ASSUME NEW c \in Client, Thread(c)
      PROVE  OwnReplyAt(d)'
  <2>1. CASE d # c
    <3>1. BatchKept(d) /\ CallKept(d)
      BY <1>4, <2>1, ThreadKeeps DEF OthersKept
    <3>2. answer'[d] = answer[d] /\ call'[d] = call[d] /\ window'[d] = window[d]
      BY <3>1 DEF CallKept
    <3>. QED  BY <1>1, <3>1, <3>2, DoneKept DEF OwnReplyAt
  <2>2. CASE d = c
    <3>1. SUFFICES ASSUME NEW m \in {"getbestblockhash", "getblockheader", "gettxoutproof"},
                          Done(c, m)'
                   PROVE  /\ m # "getbestblockhash" => answer'[c].val = call'[c].block
                          /\ m = "getbestblockhash" => answer'[c].val \in window'[c]
      BY <2>2 DEF OwnReplyAt
    <3>2. SimpleCall(c)
      BY <1>4, <3>1, BecomesDone
    <3>3. /\ pc'[c] = "done" /\ answer'[c].tag = "ok" /\ call'[c] = call[c] /\ call[c].method = m
          /\ window'[c] = window[c] /\ pc[c] = "replied" /\ stage[c] = "only"
      BY <3>1, <3>2, SimpleCallStep DEF Done, Steady
    <3>4. /\ Len(got[c]) = 1 /\ got[c][1].type = Expects(c)
          /\ Answered(c, Ok(got[c][1].x))
      BY <3>2, <3>3, SimpleCallStep DEF Answered, Panicked, Left, Error
    <3>5. answer'[c].val = got[c][1].x
      BY <3>4 DEF Answered, Ok
    <3>6. 1 \in DOMAIN got[c]
      BY <3>4, LenProperties DEF Typed, BatchTyped
    <3>7. got[c][1] = NullValue \/ Fits(c, got[c][1])
      BY <3>3, <3>6 DEF Singles, SinglesAt
    <3>8. Fits(c, got[c][1])
      BY <3>4, <3>7 DEF NullValue, Value, Expects
    <3>9. CASE m = "getbestblockhash"
      <4>1. PICK b \in window[c] : got[c][1] = Value("hash", b)
        BY <3>3, <3>8, <3>9 DEF Fits
      <4>2. got[c][1].x = b
        BY <4>1 DEF Value
      <4>. QED  BY <3>3, <3>5, <3>9, <4>1, <4>2
    <3>10. CASE m # "getbestblockhash"
      <4>1. got[c][1] = Value(Expects(c), call[c].block)
        BY <3>1, <3>3, <3>8, <3>10 DEF Fits, Subject
      <4>2. got[c][1].x = call[c].block
        BY <4>1 DEF Value
      <4>. QED  BY <3>3, <3>5, <3>10, <4>2
    <3>. QED  BY <3>9, <3>10
  <2>. QED  BY <2>1, <2>2
<1>. QED  BY <1>2, <1>3, <1>4, NextCases DEF Thread

-----------------------------------------------------------------------------
(* get_all_headers.                                                         *)

LEMMA LeastOf ==
    ASSUME NEW T \in SUBSET Nat, T # {}
    PROVE  \E m \in T : \A n \in T : m <= n
<1> DEFINE Below == OpToRel(<, Nat)
<1>1. IsWellFoundedOn(Below, Nat)
  BY NatLessThanWellFounded
<1>2. \A m, n \in Nat : m < n => <<m, n>> \in Below
  BY DEF OpToRel
<1>. HIDE DEF Below
<1>3. PICK m \in T : \A n \in T : ~ (<<n, m>> \in Below)
  BY <1>1, WFMin
<1>4. \A n \in T : ~ (n < m)
  BY <1>2, <1>3
<1>. QED  BY <1>4

\* Headers that follow one another from a genesis block to the tip are its chain.
LEMMA LinkedIsChain ==
    ASSUME NEW h \in Seq(Block), NEW tip \in Block, IsChainTo(h, tip)
    PROVE  h = Chain[tip]
<1> DEFINE n == Len(h)
           Lower(i) == Len(Chain[h[i]]) = i /\ \A j \in 1 .. i : Chain[h[i]][j] = h[j]
<1>1. n \in Nat /\ n >= 1 /\ DOMAIN h = 1 .. n /\ \A i \in 1 .. n : h[i] \in Block
  <2>1. h # <<>>
    BY DEF IsChainTo
  <2>2. n \in Nat /\ DOMAIN h = 1 .. n
    BY LenProperties
  <2>3. n # 0
    BY <2>1, EmptySeq
  <2>4. \A i \in 1 .. n : h[i] \in Block
    BY ElementOfSeq
  <2>. QED  BY <2>2, <2>3, <2>4
<1>2. /\ h[n] = tip
      /\ \A i \in 1 .. n : Parent(h[i]) = IF i = 1 THEN None ELSE h[i - 1]
  BY <1>1 DEF IsChainTo, Last
<1>. HIDE DEF n
<1>3. ASSUME NEW i \in 1 .. n, i # 1 => Lower(i - 1)
      PROVE  Lower(i)
  <2> DEFINE x == h[i]
             m == Len(Chain[x])
  <2>1. x \in Block /\ m \in Nat \ {0} /\ m \in 1 .. m
    <3>1. x \in Block
      BY <1>1
    <3>2. m \in Nat \ {0}
      BY <3>1, ChainFacts
    <3>. HIDE DEF m
    <3>. QED  BY <3>1, <3>2
  <2>. HIDE DEF x
  <2>2. Parent(x) = IF m = 1 THEN None ELSE Chain[x][m - 1]
    <3>1. Chain[x][m] = x
      BY <2>1, ChainFacts
    <3>2. Parent(Chain[x][m]) = IF m = 1 THEN None ELSE Chain[x][m - 1]
      BY <2>1, Ancestor
    <3>. QED  BY <3>1, <3>2
  <2>3. CASE i = 1
    <3>1. Parent(x) = None
      BY <1>1, <1>2, <2>3 DEF x
    <3>2. m = 1
      <4>1. SUFFICES ASSUME m # 1 PROVE FALSE
        OBVIOUS
      <4>2. m - 1 \in 1 .. m
        <5>. HIDE DEF m
        <5>. QED  BY <2>1, <4>1
      <4>3. Chain[x][m - 1] \in Block
        BY <2>1, <4>2, Ancestor
      <4>. QED  BY <2>2, <3>1, <4>1, <4>3, NoBlockAssumption
    <3>3. Chain[x][1] = x
      BY <2>1, <3>2, ChainFacts
    <3>4. \A j \in 1 .. 1 : j = 1
      OBVIOUS
    <3>. QED  BY <2>3, <3>2, <3>3, <3>4 DEF x
  <2>4. CASE i # 1
    <3>1. i - 1 \in 1 .. n /\ i \in Nat
      BY <1>1, <2>4
    <3>2. Parent(x) = h[i - 1] /\ h[i - 1] \in Block /\ h[i - 1] # None
      BY <1>1, <1>2, <2>4, <3>1, NoBlockAssumption DEF x
    <3>3. m # 1 /\ Chain[x][m - 1] = h[i - 1]
      BY <2>2, <3>2
    <3>4. m - 1 \in 1 .. m
      <4>. HIDE DEF m
      <4>. QED  BY <2>1, <3>3
    <3>5. /\ Len(Chain[h[i - 1]]) = m - 1
          /\ \A j \in 1 .. m - 1 : Chain[h[i - 1]][j] = Chain[x][j]
      <4>1. /\ Len(Chain[Chain[x][m - 1]]) = m - 1
            /\ \A j \in 1 .. m - 1 : Chain[Chain[x][m - 1]][j] = Chain[x][j]
        BY <2>1, <3>4, Ancestor
      <4>. QED  BY <3>3, <4>1
    <3>6. Len(Chain[h[i - 1]]) = i - 1 /\ \A j \in 1 .. i - 1 : Chain[h[i - 1]][j] = h[j]
      BY <1>3, <2>4
    <3>7. Chain[x][m] = x
      BY <2>1, ChainFacts
    <3>8. m = i /\ \A j \in 1 .. i : j \in 1 .. i - 1 \/ j = i
      <4>1. m - 1 = i - 1
        BY <3>5, <3>6
      <4>. HIDE DEF m
      <4>. QED  BY <2>1, <3>1, <4>1
    <3>9. ASSUME NEW j \in 1 .. i
          PROVE  Chain[x][j] = h[j]
      <4>1. CASE j = i
        BY <3>7, <3>8, <4>1 DEF x
      <4>2. CASE j \in 1 .. i - 1
        BY <3>5, <3>6, <3>8, <4>2
      <4>. QED  BY <3>8, <4>1, <4>2
    <3>. QED  BY <3>8, <3>9 DEF x
  <2>. QED  BY <2>3, <2>4
<1>. HIDE DEF Lower
<1>4. \A i \in 1 .. n : Lower(i)
  <2> DEFINE T == {i \in 1 .. n : ~ Lower(i)}
  <2>1. SUFFICES ASSUME T # {} PROVE FALSE
    OBVIOUS
  <2>2. T \in SUBSET Nat
    BY <1>1
  <2>3. PICK i \in T : \A j \in T : i <= j
    BY <2>1, <2>2, LeastOf
  <2>4. i # 1 => i - 1 \in 1 .. n /\ ~ (i <= i - 1)
    BY <1>1
  <2>5. i # 1 => Lower(i - 1)
    BY <2>3, <2>4
  <2>. QED  BY <1>3, <2>3, <2>5
<1>5. Len(Chain[tip]) = n /\ \A j \in 1 .. n : Chain[tip][j] = h[j]
  <2>1. n \in 1 .. n
    BY <1>1
  <2>. QED  BY <1>2, <1>4, <2>1 DEF Lower
<1>. QED  BY <1>5, ChainFacts, SeqEqual DEF n

LEMMA AllHeadersStep ==
    ASSUME Typed, Staged, AllHeadersExact, [Next]_vars
    PROVE  AllHeadersExact'
<1>0. SUFFICES ASSUME NEW d \in Client, Done(d, "get_all_headers")'
               PROVE  answer'[d].val = Chain[call'[d].block]
  BY DEF AllHeadersExact
<1>2. CASE UNCHANGED vars
  BY <1>0, <1>2 DEF vars, batchVars, daemonVars, AllHeadersExact, Done
<1>3. ASSUME NEW b \in Block, MoveBest(b)
      PROVE  answer'[d].val = Chain[call'[d].block]
  BY <1>0, <1>3, DoneKeptByMove DEF AllHeadersExact
<1>4. ASSUME NEW c \in Client, Thread(c)
      PROVE  answer'[d].val = Chain[call'[d].block]
  <2>1. CASE d # c
    <3>1. BatchKept(d) /\ CallKept(d)
      BY <1>4, <2>1, ThreadKeeps DEF OthersKept
    <3>2. answer'[d] = answer[d] /\ call'[d] = call[d]
      BY <3>1 DEF CallKept
    <3>. QED  BY <1>0, <3>1, <3>2, DoneKept DEF AllHeadersExact
  <2>2. CASE d = c
    <3> DEFINE all == list[c] \o Collected(c)
    <3>1. GetBlockHeaders(c)
      BY <1>0, <1>4, <2>2, BecomesDone
    <3>2. pc'[c] = "done" /\ answer'[c].tag = "ok" /\ call'[c].method = "get_all_headers"
      BY <1>0, <2>2 DEF Done
    <3>3. /\ call'[c] = call[c] /\ pc[c] = "replied"
          /\ \A i \in DOMAIN got[c] : got[c][i].type = "header"
          /\ IsChainTo(all, call[c].block) /\ Answered(c, Ok(all))
      BY <3>1, <3>2, GetBlockHeadersStep DEF Steady, Answered, Panicked, Left, Begun, Error
    <3>4. all \in Seq(Block) /\ call[c].block \in Block
      BY <3>2, <3>3, CollectedFacts, CallFacts DEF Staged, StagedAt
    <3>. HIDE DEF all
    <3>5. all = Chain[call[c].block]
      BY <3>3, <3>4, LinkedIsChain
    <3>. QED  BY <2>2, <3>3, <3>5 DEF Answered, Ok
  <2>. QED  BY <2>1, <2>2
<1>. QED  BY <1>2, <1>3, <1>4, NextCases DEF Thread
-----------------------------------------------------------------------------
(* get_new_headers.                                                         *)

LEMMA ReverseFacts ==
    ASSUME NEW S, NEW s \in Seq(S)
    PROVE  /\ Reverse(s) \in Seq(S) /\ Len(Reverse(s)) = Len(s)
           /\ DOMAIN Reverse(s) = 1 .. Len(s)
           /\ \A i \in 1 .. Len(s) : Reverse(s)[i] = s[Len(s) - i + 1]
<1> DEFINE n == Len(s)
<1>1. n \in Nat /\ \A i \in 1 .. n : s[i] \in S
  BY LenProperties, ElementOfSeq
<1>2. Reverse(s) = [i \in 1 .. n |-> s[n - i + 1]]
  BY DEF Reverse
<1>. HIDE DEF n
<1>3. \A i \in 1 .. n : n - i + 1 \in 1 .. n
  BY <1>1
<1>4. Reverse(s) \in [1 .. n -> S]
  BY <1>1, <1>2, <1>3
<1>5. Reverse(s) \in Seq(S)
  BY <1>1, <1>4, SeqDef
<1>6. Len(Reverse(s)) = n
  BY <1>1, <1>4, <1>5, LenProperties
<1>. QED  BY <1>2, <1>4, <1>5, <1>6 DEF n

LEMMA SuffixFacts ==
    ASSUME NEW S, NEW s \in Seq(S), NEW t \in Seq(S), Len(s) <= Len(t),
           \A i \in 1 .. Len(s) : Reverse(s)[i] = Reverse(t)[i]
    PROVE  IsSuffix(s, t)
<1> DEFINE n == Len(s)
           m == Len(t)
           u == Reverse(s)
           v == Reverse(t)
<1>1. n \in Nat /\ m \in Nat /\ n <= m
  BY LenProperties
<1>2. /\ Len(u) = n /\ Len(v) = m
      /\ u \in Seq(S) /\ v \in Seq(S)
  BY ReverseFacts
<1>3. \A i \in 1 .. n : u[i] = v[i]
  OBVIOUS
<1>. HIDE DEF n, m, u, v
<1>4. \A i \in 1 .. n : i \in 1 .. m /\ 1 + i - 1 = i
  BY <1>1
<1>5. \A i \in 1 .. n : u[i] \in S /\ v[i] \in S
  BY <1>2, <1>4, ElementOfSeq
<1>6. n - 1 + 1 = n /\ (IF 1 <= n THEN n - 1 + 1 ELSE 0) = n
  BY <1>1
<1>7. /\ SubSeq(u, 1, n) \in Seq(S) /\ Len(SubSeq(u, 1, n)) = n
      /\ \A i \in 1 .. n : SubSeq(u, 1, n)[i] = u[i]
  <2>1. /\ SubSeq(u, 1, n) \in Seq(S) /\ Len(SubSeq(u, 1, n)) = IF 1 <= n THEN n - 1 + 1 ELSE 0
        /\ \A i \in 1 .. n - 1 + 1 : SubSeq(u, 1, n)[i] = u[1 + i - 1]
    BY <1>1, <1>5, SubSeqProperties
  <2>. QED  BY <1>4, <1>6, <2>1
<1>8. /\ SubSeq(v, 1, n) \in Seq(S) /\ Len(SubSeq(v, 1, n)) = n
      /\ \A i \in 1 .. n : SubSeq(v, 1, n)[i] = v[i]
  <2>1. /\ SubSeq(v, 1, n) \in Seq(S) /\ Len(SubSeq(v, 1, n)) = IF 1 <= n THEN n - 1 + 1 ELSE 0
        /\ \A i \in 1 .. n - 1 + 1 : SubSeq(v, 1, n)[i] = v[1 + i - 1]
    BY <1>1, <1>5, SubSeqProperties
  <2>. QED  BY <1>4, <1>6, <2>1
<1>9. SubSeq(u, 1, n) = SubSeq(v, 1, n)
  <2> DEFINE x == SubSeq(u, 1, n)
             y == SubSeq(v, 1, n)
  <2>1. /\ x \in Seq(S) /\ y \in Seq(S) /\ Len(x) = Len(y)
        /\ \A i \in 1 .. Len(x) : x[i] = y[i]
    BY <1>3, <1>7, <1>8
  <2>. HIDE DEF x, y
  <2>2. x = y
    BY <2>1, SeqEqual
  <2>. QED  BY <2>2 DEF x, y
<1>10. IsPrefix(u, v)
  BY <1>1, <1>2, <1>9 DEF IsPrefix
<1>. QED  BY <1>10 DEF IsSuffix, u, v

\* What a call of get_new_headers must return, for its tip and what was known.
Attaches(a, tip, known) ==
    /\ IsSuffix(a, Chain[tip])
    /\ Range(Chain[tip]) \cap known = Range(Chain[tip]) \ Range(a)

\* A tip that is known already.
LEMMA NothingNew ==
    ASSUME NEW k \in Calls, k.method = "get_new_headers", k.block \in k.known
    PROVE  Attaches(<<>>, k.block, k.known)
<1>1. k.block \in Block /\ Range(Chain[k.block]) \subseteq k.known
  BY CallFacts
<1>2. Chain[k.block] \in Seq(Block) /\ Len(Chain[k.block]) \in Nat
  BY <1>1, ChainFacts
<1>3. <<>> \in Seq(Block) /\ Len(<<>>) = 0 /\ 0 <= Len(Chain[k.block])
      /\ \A i \in 1 .. 0 : FALSE
  BY <1>2, EmptySeq
<1>4. IsSuffix(<<>>, Chain[k.block])
  BY <1>2, <1>3, SuffixFacts
<1>5. Range(<<>>) = {}
  BY EmptyIsEmpty DEF Range
<1>. QED  BY <1>1, <1>4, <1>5 DEF Attaches

\* The headers climbed through, reversed.
LEMMA ClimbAttaches ==
    ASSUME NEW tip \in Block, NEW known \in SUBSET Block,
           \A b \in known : Range(Chain[b]) \subseteq known,
           NEW l \in Seq(Block), NEW m \in Nat \ {0}, Len(l) = m,
           NEW n \in Nat, n = Len(Chain[tip]), m <= n,
           \A i \in 1 .. m : l[i] = Chain[tip][n - i + 1],
           \A i \in 1 .. m : Chain[tip][n - i + 1] \notin known,
           m = n \/ Chain[tip][n - m] \in known
    PROVE  Attaches(Reverse(l), tip, known)
<1> DEFINE chain == Chain[tip]
           a == Reverse(l)
<1>1. chain \in Seq(Block) /\ DOMAIN chain = 1 .. n
  BY ChainFacts
<1>2. a \in Seq(Block) /\ Len(a) = m /\ DOMAIN a = 1 .. m
      /\ \A i \in 1 .. m : a[i] = l[m - i + 1]
  BY ReverseFacts
<1>3. \A i \in 1 .. m : /\ m - i + 1 \in 1 .. m /\ m - (m - i + 1) + 1 = i
                        /\ i \in 1 .. n /\ n - i + 1 \in 1 .. n
  OBVIOUS
<1>4. \A i \in 1 .. m : Reverse(a)[i] = chain[n - i + 1]
  <2> TAKE i \in 1 .. m
  <2>1. Reverse(a)[i] = a[m - i + 1]
    <3>. HIDE DEF a
    <3>1. \A j \in 1 .. Len(a) : Reverse(a)[j] = a[Len(a) - j + 1]
      BY <1>2, ReverseFacts
    <3>. QED  BY <1>2, <3>1
  <2>2. a[m - i + 1] = l[m - (m - i + 1) + 1]
    BY <1>2, <1>3
  <2>. QED  BY <1>3, <2>1, <2>2
<1>5. \A i \in 1 .. m : Reverse(chain)[i] = chain[n - i + 1]
  BY <1>1, <1>3, ReverseFacts
<1>6. IsSuffix(a, chain)
  <2>1. \A i \in 1 .. Len(a) : Reverse(a)[i] = Reverse(chain)[i]
    BY <1>2, <1>4, <1>5
  <2>2. Len(a) <= Len(chain)
    BY <1>2
  <2>. HIDE DEF a, chain
  <2>. QED  BY <1>1, <1>2, <2>1, <2>2, SuffixFacts
<1>7. Range(a) = {chain[n - i + 1] : i \in 1 .. m}
  <2>1. Range(a) = {a[i] : i \in 1 .. m}
    BY <1>2 DEF Range
  <2>2. \A i \in 1 .. m : a[i] = chain[n - (m - i + 1) + 1]
    BY <1>2, <1>3
  <2>3. \A x : x \in {a[i] : i \in 1 .. m} => x \in {chain[n - i + 1] : i \in 1 .. m}
    <3>1. \A i \in 1 .. m : a[i] \in {chain[n - j + 1] : j \in 1 .. m}
      <4> TAKE i \in 1 .. m
      <4> DEFINE j == m - i + 1
      <4>1. j \in 1 .. m /\ a[i] = chain[n - j + 1]
        BY <1>3, <2>2
      <4>. HIDE DEF j, a, chain
      <4>. QED  BY <4>1
    <3>. HIDE DEF a, chain
    <3> SUFFICES ASSUME NEW x \in {a[i] : i \in 1 .. m}
                 PROVE  x \in {chain[n - j + 1] : j \in 1 .. m}
      OBVIOUS
    <3>2. PICK i \in 1 .. m : x = a[i]
      OBVIOUS
    <3>. QED  BY <3>1, <3>2
  <2>4. \A i \in 1 .. m : chain[n - i + 1] = a[m - i + 1]
    BY <1>3, <2>2
  <2>5. \A x : x \in {chain[n - i + 1] : i \in 1 .. m} => x \in {a[i] : i \in 1 .. m}
    BY <1>3, <2>4
  <2>. HIDE DEF a, chain
  <2>. QED  BY <2>1, <2>3, <2>5
<1>8. Range(chain) = {chain[j] : j \in 1 .. n}
  BY <1>1 DEF Range
<1>9. ASSUME NEW j \in 1 .. n
      PROVE  chain[j] \in known <=> chain[j] \notin Range(a)
  <2>1. CASE j > n - m
    <3> DEFINE i == n - j + 1
    <3>1. i \in 1 .. m /\ n - i + 1 = j
      BY <2>1
    <3>. HIDE DEF i
    <3>2. chain[j] \notin known
      BY <3>1
    <3>3. chain[j] \in Range(a)
      BY <1>7, <3>1
    <3>. QED  BY <3>2, <3>3
  <2>2. CASE ~ (j > n - m)
    <3>1. j \in 1 .. n - m /\ m # n /\ n - m \in 1 .. n
      BY <2>2
    <3>2. chain[j] \notin Range(a)
      <4>1. SUFFICES ASSUME NEW i \in 1 .. m, chain[j] = chain[n - i + 1] PROVE FALSE
        BY <1>7
      <4>2. n - i + 1 \in 1 .. n
        BY <1>3
      <4>3. j = n - i + 1
        BY <4>1, <4>2, ChainInjective
      <4>. QED  BY <3>1, <4>3
    <3>3. chain[j] \in known
      <4> DEFINE b == chain[n - m]
                 k == n - m
      <4>0. k \in 1 .. Len(Chain[tip]) /\ j \in 1 .. k
        BY <3>1
      <4>1. b \in known /\ b \in Block
        BY <3>1, Ancestor
      <4>2. Len(Chain[b]) = n - m /\ Chain[b][j] = chain[j]
        <5>. HIDE DEF k
        <5>1. Len(Chain[Chain[tip][k]]) = k /\ Chain[Chain[tip][k]][j] = Chain[tip][j]
          BY <4>0, Ancestor
        <5>. QED  BY <5>1 DEF k
      <4>. HIDE DEF b
      <4>3. Range(Chain[b]) = {Chain[b][i] : i \in 1 .. Len(Chain[b])}
        BY <4>1, ChainFacts
      <4>4. Chain[b][j] \in Range(Chain[b])
        BY <3>1, <4>2, <4>3
      <4>. QED  BY <4>1, <4>2, <4>4
    <3>. QED  BY <3>2, <3>3
  <2>. QED  BY <2>1, <2>2
<1>. HIDE DEF a, chain
<1>10. Range(chain) \cap known = Range(chain) \ Range(a)
  <2>1. \A x \in Range(chain) : x \in known <=> x \notin Range(a)
    BY <1>8, <1>9
  <2>. QED  BY <2>1
<1>. QED  BY <1>6, <1>10 DEF Attaches, a, chain
LEMMA NewHeadersStep ==
    ASSUME Typed, Staged, Singles, Climbed, NewHeadersAttach, [Next]_vars
    PROVE  NewHeadersAttach'
<1>0. SUFFICES ASSUME NEW d \in Client, Done(d, "get_new_headers")'
               PROVE  Attaches(answer'[d].val, call'[d].block, call'[d].known)
  BY DEF NewHeadersAttach, Attaches
<1>1. Done(d, "get_new_headers") => Attaches(answer[d].val, call[d].block, call[d].known)
  BY DEF NewHeadersAttach, Attaches
<1>2. CASE UNCHANGED vars
  <2>1. answer'[d] = answer[d] /\ call'[d] = call[d] /\ pc'[d] = pc[d]
    BY <1>2 DEF vars, batchVars
  <2>. QED  BY <1>0, <1>1, <2>1 DEF Done
<1>3. ASSUME NEW b \in Block, MoveBest(b)
      PROVE  Attaches(answer'[d].val, call'[d].block, call'[d].known)
  BY <1>0, <1>1, <1>3, DoneKeptByMove
<1>4. ASSUME NEW c \in Client, Thread(c)
      PROVE  Attaches(answer'[d].val, call'[d].block, call'[d].known)
  <2>1. CASE d # c
    <3>1. BatchKept(d) /\ CallKept(d)
      BY <1>4, <2>1, ThreadKeeps DEF OthersKept
    <3>2. answer'[d] = answer[d] /\ call'[d] = call[d]
      BY <3>1 DEF CallKept
    <3>. QED  BY <1>0, <1>1, <3>1, <3>2, DoneKept
  <2>2. CASE d = c
    <3>0. pc'[c] = "done" /\ answer'[c].tag = "ok" /\ call'[c].method = "get_new_headers"
      BY <1>0, <2>2 DEF Done
    <3>1. ASSUME NEW k \in Calls, Begin(c, k)
          PROVE  Attaches(answer'[c].val, call'[c].block, call'[c].known)
      <4>1. call'[c] = k /\ k.block \in k.known /\ Answered(c, Ok(<<>>))
        BY <3>0, <3>1, BeginStep DEF BeginsBatch, Begun
      <4>2. answer'[c].val = <<>>
        BY <4>1 DEF Answered, Ok
      <4>. QED  BY <3>0, <4>1, <4>2, NothingNew
    <3>2. CASE GetNewHeaders(c)
      <4> DEFINE x == got[c][1].x
                 below == Parent(x)
                 tip == call[c].block
                 chain == Chain[tip]
                 n == Len(chain)
                 k == Len(list[c])
      <4>1. /\ Len(got[c]) = 1 /\ got[c][1].type = "header"
            /\ list'[c] = Append(list[c], x)
            /\ below = None \/ below \in call[c].known
            /\ Answered(c, Ok(Reverse(list'[c])))
            /\ call'[c] = call[c] /\ pc[c] = "replied" /\ stage[c] = "only"
            /\ call[c].method = "get_new_headers"
        BY <3>0, <3>2, GetNewHeadersStep DEF Answered, Panicked, Left, Begun, Error, Steady
      <4>2. x = Rung(c)
        BY <4>1, HeaderIsRung
      <4>3. /\ tip \in Block /\ n \in Nat /\ k \in Nat /\ k < n
            /\ x = chain[n - k]
            /\ below = IF n - k = 1 THEN None ELSE chain[n - k - 1]
            /\ n - k # 1 => chain[n - k - 1] \in Block
        BY <4>1, <4>2, RungFacts DEF Open
      <4>4. /\ list'[c] \in Seq(Block) /\ Len(list'[c]) = k + 1
            /\ \A i \in 1 .. k : list'[c][i] = list[c][i]
            /\ list'[c][k + 1] = x
        <5>1. list[c] \in Seq(Block) /\ got[c] \in Seq(Values)
          BY DEF Typed, CallTyped, BatchTyped
        <5>2. got[c][1] \in Values
          BY <4>1, <5>1, ElementOfSeq
        <5>3. x \in Block
          BY <4>1, <5>2, ValueFacts
        <5>. QED  BY <4>1, <5>1, <5>3, AppendProperties
      <4>5. /\ \A i \in 1 .. k : list[c][i] = chain[n - i + 1]
            /\ \A i \in 1 .. k + 1 : chain[n - i + 1] \notin call[c].known
        BY <4>1 DEF Climbed, ClimbedAt, Open
      <4>6. /\ call[c].known \in SUBSET Block
            /\ \A b \in call[c].known : Range(Chain[b]) \subseteq call[c].known
        BY <4>1, CallFacts DEF Staged, StagedAt
      <4>. HIDE DEF x, below, n, k
      <4>7. /\ k + 1 \in Nat \ {0} /\ k + 1 <= n /\ n - (k + 1) + 1 = n - k /\ n - (k + 1) = n - k - 1
            /\ \A i \in 1 .. k + 1 : i \in 1 .. k \/ i = k + 1
            /\ n - k = 1 => k + 1 = n
        BY <4>3
      <4>8. \A i \in 1 .. k + 1 : list'[c][i] = chain[n - i + 1]
        BY <4>3, <4>4, <4>5, <4>7
      <4>9. k + 1 = n \/ chain[n - (k + 1)] \in call[c].known
        BY <4>1, <4>3, <4>7, NoBlockAssumption
      <4>10. Attaches(Reverse(list'[c]), tip, call[c].known)
        <5> DEFINE l == list'[c]
                   known == call[c].known
                   m == k + 1
        <5>1. /\ l \in Seq(Block) /\ Len(l) = m /\ m \in Nat \ {0} /\ n = Len(Chain[tip]) /\ m <= n
              /\ \A i \in 1 .. m : l[i] = Chain[tip][n - i + 1]
              /\ \A i \in 1 .. m : Chain[tip][n - i + 1] \notin known
              /\ m = n \/ Chain[tip][n - m] \in known
              /\ known \in SUBSET Block /\ \A b \in known : Range(Chain[b]) \subseteq known
              /\ tip \in Block /\ n \in Nat
          BY <4>3, <4>4, <4>5, <4>6, <4>7, <4>8, <4>9 DEF n
        <5>. HIDE DEF l, known, m, tip
        <5>2. Attaches(Reverse(l), tip, known)
          BY <5>1, ClimbAttaches
        <5>. QED  BY <5>2 DEF l, known
      <4>11. answer'[c].val = Reverse(list'[c]) /\ call'[c] = call[c]
        BY <4>1 DEF Answered, Ok
      <4>. QED  BY <2>2, <4>10, <4>11
    <3>. QED  BY <1>0, <1>4, <2>2, <3>1, <3>2, BecomesDone
  <2>. QED  BY <2>1, <2>2
<1>. QED  BY <1>2, <1>3, <1>4, NextCases DEF Thread

-----------------------------------------------------------------------------
(* The asserts.                                                             *)

\* The headers of the whole chain pass for it.
LEMMA ChainIsChain ==
    ASSUME NEW tip \in Block, NEW h \in Seq(Block), Len(h) = Len(Chain[tip]),
           \A i \in 1 .. Len(h) : h[i] = Chain[tip][i]
    PROVE  IsChainTo(h, tip)
<1> DEFINE n == Len(h)
<1>1. /\ n \in Nat \ {0} /\ n = Len(Chain[tip]) /\ Chain[tip][n] = tip
      /\ DOMAIN h = 1 .. n
  BY ChainFacts, LenProperties
<1>2. h # <<>>
  BY <1>1, EmptyIsEmpty
<1>3. n \in 1 .. n /\ Last(h) = h[n]
  BY <1>1 DEF Last
<1>4. ASSUME NEW i \in 1 .. n
      PROVE  Parent(h[i]) = IF i = 1 THEN None ELSE h[i - 1]
  <2>1. Parent(Chain[tip][i]) = IF i = 1 THEN None ELSE Chain[tip][i - 1]
    BY <1>1, Ancestor
  <2>2. i # 1 => i - 1 \in 1 .. n
    BY <1>1
  <2>. QED  BY <2>1, <2>2
<1>. QED  BY <1>1, <1>2, <1>3, <1>4 DEF IsChainTo

\* With replies in good order and the tip on the best chain, a batch of headers is
\* complete, and the last one completes the chain.
LEMMA AssertsHold ==
    ASSUME Typed, Staged, NEW c \in Client, RepliedOnTrack(c), stage[c] = "headers",
           \A i \in DOMAIN got[c] : got[c][i].type = "header"
    PROVE  LET all == list[c] \o Collected(c)
           IN  /\ AsMany(Collected(c), HeightsFrom(Len(list[c]), height[c]))
               /\ ~ Len(all) <= height[c] => IsChainTo(all, call[c].block)
<1> DEFINE tip == call[c].block
           n == Len(Chain[tip])
           all == list[c] \o Collected(c)
<1>1. /\ Calm(c) /\ Open(c) /\ LinedUp(c) /\ call[c].method = "get_all_headers"
      /\ tip \in Block /\ n \in Nat \ {0} /\ Len(got[c]) \in Nat /\ Len(list[c]) \in Nat
      /\ Len(got[c]) = Len(HeightsFrom(Len(list[c]), n - 1))
  BY DEF RepliedOnTrack, Expected
<1>2. height[c] = n - 1
  BY <1>1 DEF LinedUp
<1>3. Len(Collected(c)) = Len(got[c])
  BY CollectedFacts
<1>4. /\ all \in Seq(Block) /\ Len(all) = Len(list[c]) + Len(got[c])
      /\ \A i \in 1 .. Len(all) : all[i] = Chain[tip][i]
  BY CollectedOnTrack
<1>5. Len(got[c]) + Len(todo[c]) <= n - Len(list[c]) /\ Len(todo[c]) \in Nat
  BY <1>1, ExpectedFacts, TrackFacts
<1>. HIDE DEF n, all
<1> DEFINE k == Len(list[c])
           g == Len(got[c])
           t == Len(todo[c])
           h == height[c]
<1>6. /\ Len(all) = k + g /\ g + t <= n - k /\ h = n - 1
      /\ k \in Nat /\ g \in Nat /\ t \in Nat /\ n \in Nat
  BY <1>1, <1>2, <1>4, <1>5
<1>. HIDE DEF k, g, t, h
<1>8. Len(all) <= n /\ (~ Len(all) <= h => Len(all) = n)
  BY <1>6
<1>7. ASSUME ~ Len(all) <= height[c]
      PROVE  IsChainTo(all, tip)
  <2>1. Len(all) = n
    BY <1>7, <1>8 DEF h
  <2>. QED  BY <1>1, <1>4, <2>1, ChainIsChain DEF n
<1>. QED  BY <1>1, <1>2, <1>3, <1>7 DEF AsMany, n, all

PanicsAt(c) ==
    faults = 0 /\ pc[c] = "panicked" => \E b \in window[c] : call[c].block \notin Range(Chain[b])

LEMMA PanicsStep ==
    ASSUME Typed, Staged, Singles, OnTrack, PanicsOnReorg, [Next]_vars
    PROVE  PanicsOnReorg'
<1>0. SUFFICES ASSUME NEW d \in Client PROVE PanicsAt(d)'
  BY DEF PanicsOnReorg, PanicsAt
<1>1. PanicsAt(d)
  BY DEF PanicsOnReorg, PanicsAt
<1>2. CASE UNCHANGED vars
  BY <1>1, <1>2 DEF vars, batchVars, daemonVars, PanicsAt
<1>3. ASSUME NEW b \in Block, MoveBest(b)
      PROVE  PanicsAt(d)'
  <2>1. faults' = faults
    BY <1>3, MoveBestStep
  <2>. QED  BY <1>1, <1>3, <2>1, DoneKeptByMove DEF PanicsAt
<1>4. ASSUME NEW c \in Client, Thread(c)
      PROVE  PanicsAt(d)'
  <2>1. CASE d # c
    <3>1. /\ BatchKept(d) /\ CallKept(d) /\ faults' \in {faults, faults + 1} /\ faults \in Nat
      BY <1>4, <2>1, ThreadKeeps DEF OthersKept, Typed, DaemonTyped
    <3>2. faults' = 0 => faults = 0
      BY <3>1
    <3>. QED  BY <1>1, <3>1, <3>2 DEF PanicsAt, BatchKept, CallKept
  <2>2. CASE d = c
    <3>1. SUFFICES ASSUME faults' = 0, pc'[c] = "panicked",
                          \A b \in window'[c] : call'[c].block \in Range(Chain[b])
                   PROVE  FALSE
      BY <2>2 DEF PanicsAt
    <3>2. (\A a : ~ Answered(c, a)) /\ (\A s, queries : ~ Begun(c, s, queries))
      BY <3>1 DEF Answered, Left, Begun
    <3>3. CASE \E k \in Calls : Begin(c, k)
      <4>1. PICK k \in Calls : Begin(c, k)
        BY <3>3
      <4>2. BeginsBatch(c, k) \/ Answered(c, Ok(<<>>))
        BY <1>4, <4>1, BeginStep
      <4>3. CASE BeginsBatch(c, k)
        BY <3>2, <4>3 DEF BeginsBatch
      <4>. QED  BY <3>2, <4>2, <4>3
    <3>4. CASE SendReq(c)
      BY <3>1, <3>2, <3>4, SendStep DEF Heard
    <3>5. CASE SimpleCall(c)
      <4>1. pc[c] = "replied" /\ stage[c] = "only" /\ Len(got[c]) # 1 /\ faults' = faults
        BY <3>2, <3>5, SimpleCallStep DEF Steady
      <4>. QED  BY <3>1, <4>1 DEF Singles, SinglesAt
    <3>6. CASE GetNewHeaders(c)
      <4>1. pc[c] = "replied" /\ stage[c] = "only" /\ Len(got[c]) # 1 /\ faults' = faults
        BY <3>2, <3>6, GetNewHeadersStep DEF Steady
      <4>. QED  BY <3>1, <4>1 DEF Singles, SinglesAt
    <3>7. ASSUME Steady(c), pc[c] = "replied", stage[c] # "only"
          PROVE  RepliedOnTrack(c)
      <4>1. call[c].method = "get_all_headers"
        BY <3>7 DEF Staged, StagedAt, Open
      <4>2. Calm(c)
        BY <3>1, <3>7 DEF Steady, Calm
      <4>. QED  BY <3>7, <4>1, <4>2, OnTrackReplied DEF OnTrack
    <3>8. CASE GetTipHeight(c)
      <4>1. /\ Steady(c) /\ pc[c] = "replied" /\ stage[c] = "info"
            /\ Len(got[c]) # 1 \/ got[c][1].type # "info"
        BY <3>2, <3>8, GetTipHeightStep
      <4>2. RepliedOnTrack(c)
        BY <3>7, <4>1
      <4>3. Len(got[c]) = 1 /\ 1 \in DOMAIN got[c]
        BY <4>1, <4>2 DEF RepliedOnTrack, Expected
      <4>4. got[c][1] = ExpectedValue("info", call[c].block, Len(list[c]) + 1)
        BY <4>1, <4>2, <4>3 DEF RepliedOnTrack
      <4>5. got[c][1].type = "info"
        BY <4>4 DEF ExpectedValue, Value
      <4>. QED  BY <4>1, <4>3, <4>5
    <3>9. CASE GetBlockHashes(c)
      BY <3>2, <3>9, GetBlockHashesStep
    <3>10. CASE GetBlockHeaders(c)
      <4> DEFINE all == list[c] \o Collected(c)
      <4>1. /\ Steady(c) /\ pc[c] = "replied" /\ stage[c] = "headers"
            /\ \A i \in DOMAIN got[c] : got[c][i].type = "header"
            /\ \/ ~ AsMany(Collected(c), HeightsFrom(Len(list[c]), height[c]))
               \/ ~ Len(all) <= height[c] /\ ~ IsChainTo(all, call[c].block)
        BY <3>2, <3>10, GetBlockHeadersStep
      <4>2. RepliedOnTrack(c)
        BY <3>7, <4>1
      <4>. QED  BY <4>1, <4>2, AssertsHold
    <3>. QED  BY <1>4, <3>3, <3>4, <3>5, <3>6, <3>8, <3>9, <3>10 DEF Thread
  <2>. QED  BY <2>1, <2>2
<1>. QED  BY <1>2, <1>3, <1>4, NextCases DEF Thread

-----------------------------------------------------------------------------
(* Theorems.                                                                *)

LEMMA InitIInv ==
    ASSUME Init
    PROVE  IInv
<1>1. \A c \in Client : /\ pc[c] = "idle" /\ call[c] = NoCall /\ stage[c] = "only"
                        /\ list[c] = <<>> /\ window[c] = {}
  BY DEF Init
<1>2. \A m \in Methods : NoCall.method # m
  BY DEF NoCall, Methods
<1>3. \A c \in Client : ~ Open(c) /\ pc[c] # "done" /\ pc[c] # "panicked" /\ pc[c] # "batch"
                        /\ pc[c] # "replied"
  BY <1>1 DEF Open
<1>4. Typed
  <2>1. <<>> \in Seq(Queries) /\ <<>> \in Seq(Values) /\ <<>> \in Seq(Block) /\ <<>> \in Seq(Replies)
    BY EmptySeq
  <2>2. BatchTyped
    BY <2>1 DEF Init, BatchTyped
  <2>3. CallTyped
    BY <2>1 DEF Init, CallTyped
  <2>4. DaemonTyped
    BY <2>1, BoundAssumption, EmptyIsEmpty DEF Init, DaemonTyped
  <2>. QED  BY <2>2, <2>3, <2>4 DEF Typed
<1>5. Staged
  BY <1>1, <1>2, <1>3 DEF Staged, StagedAt, Methods
<1>6. Fresh /\ Singles /\ Climbed /\ OnTrack
  BY <1>3 DEF Fresh, FreshAt, Singles, SinglesAt, Climbed, ClimbedAt, OnTrack, OnTrackAt
<1>7. OwnReply /\ NewHeadersAttach /\ AllHeadersExact /\ PanicsOnReorg
  BY <1>3 DEF OwnReply, NewHeadersAttach, AllHeadersExact, PanicsOnReorg, Done
<1>. QED  BY <1>4, <1>5, <1>6, <1>7 DEF IInv

LEMMA StepIInv ==
    ASSUME IInv, [Next]_vars
    PROVE  IInv'
<1>. USE DEF IInv
<1>1. Typed'
  BY TypedStep
<1>2. Staged'
  BY StagedStep
<1>3. Fresh'
  BY FreshStep
<1>4. Singles'
  BY SinglesStep
<1>5. Climbed'
  BY ClimbedStep
<1>6. OnTrack'
  BY OnTrackStep
<1>7. OwnReply'
  BY OwnReplyStep
<1>8. NewHeadersAttach'
  BY NewHeadersStep
<1>9. AllHeadersExact'
  BY AllHeadersStep
<1>10. PanicsOnReorg'
  BY PanicsStep
<1>. QED  BY <1>1, <1>2, <1>3, <1>4, <1>5, <1>6, <1>7, <1>8, <1>9, <1>10

LEMMA AlwaysIInv == Spec => []IInv
  BY InitIInv, StepIInv, PTL DEF Spec

\* Ids, queries, values and collected headers stay of their kinds, and the headers
\* never outnumber the heights up to the tip (daemon.rs:45-169, 234-315).
THEOREM TypeCorrect == Spec => []TypeOK
<1>1. IInv => TypeOK
  BY TypedIsTypeOK DEF IInv
<1>. QED  BY <1>1, AlwaysIInv, PTL

\* However threads interleave, and whatever comes back late, twice, short or spoilt,
\* a call with one query per batch is answered with what was asked for or with an
\* error (daemon.rs:45-76, 114-118, 136).
THEOREM RepliesAreOwn == Spec => []OwnReply
<1>1. IInv => OwnReply
  BY DEF IInv
<1>. QED  BY <1>1, AlwaysIInv, PTL

\* get_new_headers returns exactly the unknown part of the chain of its tip, in
\* order, for any tree of blocks and any set of known headers that holds the
\* ancestors of its members (daemon.rs:284-315).
THEOREM NewHeadersContinue == Spec => []NewHeadersAttach
<1>1. IInv => NewHeadersAttach
  BY DEF IInv
<1>. QED  BY <1>1, AlwaysIInv, PTL

\* What get_all_headers returns is the chain of the tip it was asked for, for any
\* sizes of batches and chunks, although replies out of order pass the check of
\* the id (daemon.rs:130-169, 234-282).
THEOREM AllHeadersAreTheChain == Spec => []AllHeadersExact
<1>1. IInv => AllHeadersExact
  BY DEF IInv
<1>. QED  BY <1>1, AlwaysIInv, PTL

\* As long as replies are in good order, an assert ends a thread only if a
\* reorganisation took the tip off the daemon's best chain during the call: no
\* cut into chunks and no new block on top trips one (daemon.rs:266-280).
THEOREM PanicsMeanReorg == Spec => []PanicsOnReorg
<1>1. IInv => PanicsOnReorg
  BY DEF IInv
<1>. QED  BY <1>1, AlwaysIInv, PTL
=============================================================================
