---------------------------- MODULE SolAnswerProofs ----------------------------
(***************************************************************************)
(* Further theorems about the Solana quorum client: what a refusal, a list *)
(* and an open call stand for, and that the client implements QuorumRead.  *)
(*                                                                         *)
(* All of it rests on IInv of SolClientProofs, to which three conjuncts    *)
(* are added: an event that refuses has a cause (EventCaused), a call that *)
(* is open is in exactly one place of the pipeline (InOnePlace), and the   *)
(* current task has not passed any worker by (NobodyMissed).               *)
(***************************************************************************)
EXTENDS SolRefinement, SolClientProofs

\* Only an account request is answered by an event of another kind; such an event,
\* and an internal error, stand for an RPC that failed; a mismatch, for replies of
\* all RPCs among which no value leads.
EventCaused ==
    \A r \in Req : \A i \in DOMAIN response[r] :
        LET event == response[r][i]
        IN  /\ event.kind # kind[r] => kind[r] = "GetAccountInfo"
            /\ event.kind # kind[r] \/ event.res = Failed
               => \E w \in Rpc : reported[r][w] = Failed
            /\ event.res = Err("Custom")
               => /\ kind[r] \in ScalarKinds
                  /\ AllReplied(reported[r])
                  /\ event.res = Decide(kind[r], BallotsOf(Rpc, reported[r]))

Queued(r) == \E i \in DOMAIN taskQueue : taskQueue[i] = r

\* ServedOnce, said without counting.
InOnePlace ==
    \A r \in Req :
        /\ pc[r] = "waiting" => \/ Queued(r) /\ current # r /\ response[r] = <<>>
                                \/ ~ Queued(r) /\ current = r /\ response[r] = <<>>
                                \/ ~ Queued(r) /\ current # r /\ response[r] # <<>>
        /\ pc[r] \in {"idle", "sending", "done"}
           => ~ Queued(r) /\ current # r /\ response[r] = <<>>

-----------------------------------------------------------------------------
(* No worker misses the current task.                                       *)

LEMMA NobodyMissedStep ==
    ASSUME TypeOK, TakenOnce, NobodyMissed, [Next]_vars
    PROVE  NobodyMissed'
<1> SUFFICES ASSUME current' # None, NEW w \in Rpc
             PROVE  \/ reported'[current'][w] # Pending
                    \/ task'[w] = current'
                    \/ next'[w] <= Len(broadcast') /\ broadcast'[Len(broadcast')] = current'
  BY DEF NobodyMissed
<1>1. CASE StartDispatcher
  <2>1. /\ taskQueue \in Seq(Req) /\ taskQueue # <<>> /\ broadcast \in Seq(Req)
        /\ current' = Head(taskQueue) /\ broadcast' = Append(broadcast, Head(taskQueue))
        /\ next' = next /\ next[w] \in 1 .. Len(broadcast) + 1
    BY <1>1 DEF TypeOK, DispatcherTypeOK, WorkerTypeOK, StartDispatcher, workerVars
  <2>2. Head(taskQueue) \in Req
    BY <2>1
  <2> DEFINE h == Head(taskQueue)
  <2> HIDE DEF h
  <2>3. broadcast' = Append(broadcast, h) /\ h \in Req /\ current' = h
    BY <2>1, <2>2 DEF h
  <2>4. Len(broadcast') = Len(broadcast) + 1 /\ broadcast'[Len(broadcast) + 1] = h
    BY <2>1, <2>3
  <2>5. next'[w] <= Len(broadcast')
    BY <2>1, <2>4
  <2>. QED  BY <2>3, <2>4, <2>5
\* Any other step that leaves a current task leaves that one.
<1> DEFINE missed == ~ (\/ reported[current][w] # Pending
                        \/ task[w] = current
                        \/ next[w] <= Len(broadcast) /\ broadcast[Len(broadcast)] = current)
<1>2. CASE ~ StartDispatcher
  <2>1. current' = current /\ current \in Req /\ broadcast' = broadcast
    <3>1. current' = current /\ broadcast' = broadcast
      <4>1. \A r \in Req : AskJudge(r) \/ SendTask(r) \/ Receive(r) \/ Disconnect(r)
                           => UNCHANGED <<current, broadcast>>
        BY DEF AskJudge, SendTask, Receive, Disconnect, dispatcherVars
      <4>2. Collect /\ current # None => UNCHANGED <<current, broadcast>>
        BY DEF Collect, Respond
      <4>3. \A x \in Rpc : WorkerLagged(x) \/ WorkerReceive(x) \/ RpcCall(x)
                           => UNCHANGED <<current, broadcast>>
        BY DEF WorkerLagged, WorkerReceive, RpcCall, dispatcherVars
      <4>4. PollTimeout \/ UNCHANGED vars => UNCHANGED <<current, broadcast>>
        BY DEF PollTimeout, vars
      <4>. QED  BY <1>2, <4>1, <4>2, <4>3, <4>4, StepCases
    <3>. QED  BY <3>1 DEF TypeOK, DispatcherTypeOK
  <2>2. ~ missed
    BY <2>1 DEF NobodyMissed
  <2>3. reported[current][w] # Pending => reported'[current][w] # Pending
    BY <2>1, ReportFinal
  <2>4. broadcast \in Seq(Req) /\ broadcast # <<>> /\ broadcast[Len(broadcast)] = current
    BY <2>1 DEF TypeOK, DispatcherTypeOK, TakenOnce
  <2>5. CASE task'[w] = task[w] /\ next'[w] = next[w]
    BY <2>1, <2>2, <2>3, <2>5
  <2>6. CASE WorkerLagged(w)
    <3>1. Oldest <= Len(broadcast)
      <4>1. Len(broadcast) \in Nat /\ Len(broadcast) # 0
        BY <2>4
      <4> DEFINE n == Len(broadcast)
      <4>2. n \in Nat /\ n # 0 /\ Oldest = IF n <= BroadcastCap THEN 1 ELSE n - BroadcastCap + 1
        BY <4>1 DEF Oldest
      <4> HIDE DEF n
      <4>3. Oldest <= n
        BY <4>2, CapAssumption
      <4>. QED  BY <4>3 DEF n
    <3>2. next'[w] = Oldest
      BY <2>6 DEF WorkerLagged, ResumeAt, TypeOK, WorkerTypeOK
    <3>. QED  BY <2>1, <2>4, <3>1, <3>2
  <2>7. CASE WorkerReceive(w)
    <3>1. /\ task[w] = None /\ task'[w] = broadcast[next[w]] /\ next'[w] = next[w] + 1
          /\ reported' = reported /\ next[w] <= Len(broadcast) /\ next[w] \in Nat
          /\ Len(broadcast) \in Nat
      BY <2>4, <2>7, ReceivedTask DEF WorkerReceive, TypeOK, WorkerTypeOK
    <3>2. CASE next[w] = Len(broadcast)
      BY <2>1, <2>4, <3>1, <3>2
    <3>3. CASE next[w] < Len(broadcast)
      <4>1. next'[w] <= Len(broadcast)
        BY <3>1, <3>3
      <4>. QED  BY <2>1, <2>4, <4>1
    <3>. QED  BY <3>1, <3>2, <3>3
  <2>8. CASE task[w] # None /\ RpcCall(w)
    <3>1. CASE \E res \in Reports(kind[task[w]]) : SendBallot(w, res)
      <4>1. PICK res \in Reports(kind[task[w]]) : SendBallot(w, res)
        BY <3>1
      <4>2. next'[w] = next[w] /\ reported' = [reported EXCEPT ![task[w]][w] = res]
        BY <4>1 DEF SendBallot
      <4>3. res # Pending
        BY DEF Reports, Pending, Failed, Err, Ok
      <4>4. task[w] = current => reported'[current][w] # Pending
        BY <2>1, <4>2, <4>3 DEF TypeOK, WorkerTypeOK
      <4>. QED  BY <2>1, <2>2, <2>3, <4>2, <4>4
    <3>2. CASE UNCHANGED <<inbox, next, task, reported>>
      BY <2>5, <3>2
    <3>. QED  BY <2>8, <3>1, <3>2, RpcCallCases
  <2>9. \/ task'[w] = task[w] /\ next'[w] = next[w]
        \/ WorkerLagged(w)
        \/ WorkerReceive(w)
        \/ task[w] # None /\ RpcCall(w)
    <3>1. \A r \in Req : AskJudge(r) \/ SendTask(r) \/ Receive(r) \/ Disconnect(r)
                         => UNCHANGED <<task, next>>
      BY DEF AskJudge, SendTask, Receive, Disconnect, workerVars
    <3>2. Collect \/ PollTimeout \/ UNCHANGED vars => UNCHANGED <<task, next>>
      BY DEF Collect, PollTimeout, vars, workerVars
    <3>3. \A x \in Rpc \ {w} : WorkerLagged(x) \/ WorkerReceive(x)
                               => task'[w] = task[w] /\ next'[w] = next[w]
      BY DEF WorkerLagged, WorkerReceive, TypeOK, WorkerTypeOK
    <3>4. \A x \in Rpc \ {w} : task[x] # None /\ RpcCall(x)
                               => task'[w] = task[w] /\ next'[w] = next[w]
      BY RpcCallCases DEF SendBallot, TypeOK, WorkerTypeOK
    <3>. QED  BY <1>2, <3>1, <3>2, <3>3, <3>4, StepCases
  <2>. QED  BY <2>5, <2>6, <2>7, <2>8, <2>9
<1>. QED  BY <1>1, <1>2

-----------------------------------------------------------------------------
(* A call is in one place of the pipeline.                                  *)

\* Steps that move no task.
LEMMA InOnePlaceQuiet ==
    ASSUME InOnePlace, UNCHANGED <<taskQueue, current, response>>,
           \A r \in Req : \/ pc'[r] = pc[r]
                          \/ pc[r] = "idle" /\ pc'[r] \in {"sending", "done"}
    PROVE  InOnePlace'
<1>1. \A r \in Req : pc'[r] = "waiting" => pc[r] = "waiting"
  OBVIOUS
<1>2. \A r \in Req : pc'[r] \in {"idle", "sending", "done"} => pc[r] \in {"idle", "sending", "done"}
  OBVIOUS
<1>. QED  BY <1>1, <1>2 DEF InOnePlace, Queued

LEMMA InOnePlaceSendTask ==
    ASSUME TypeOK, InOnePlace, NEW q \in Req, SendTask(q)
    PROVE  InOnePlace'
<1>1. /\ taskQueue \in Seq(Req) /\ taskQueue' = Append(taskQueue, q)
      /\ UNCHANGED <<current, response>>
      /\ pc[q] = "sending" /\ \A r \in Req : pc'[r] = IF r = q THEN "waiting" ELSE pc[r]
  BY DEF SendTask, TypeOK, CallerTypeOK, DispatcherTypeOK, dispatcherVars
<1>2. \A r : Queued(r)' <=> Queued(r) \/ r = q
  <2> DEFINE n == Len(taskQueue)
  <2>1. /\ n \in Nat /\ DOMAIN taskQueue = 1 .. n /\ DOMAIN taskQueue' = 1 .. n + 1
        /\ taskQueue'[n + 1] = q /\ \A i \in 1 .. n : taskQueue'[i] = taskQueue[i]
    BY <1>1
  <2> HIDE DEF n
  <2>2. /\ \A i \in 1 .. n : i \in 1 .. n + 1
        /\ \A i \in 1 .. n + 1 : i \in 1 .. n \/ i = n + 1
        /\ n + 1 \in 1 .. n + 1
    BY <2>1
  <2>. QED  BY <2>1, <2>2 DEF Queued
<1>3. ~ Queued(q) /\ current # q /\ response[q] = <<>>
  BY <1>1 DEF InOnePlace
<1>. QED  BY <1>1, <1>2, <1>3 DEF InOnePlace

LEMMA InOnePlaceReceive ==
    ASSUME TypeOK, InOnePlace, NEW q \in Req, Receive(q)
    PROVE  InOnePlace'
<1>1. /\ UNCHANGED <<taskQueue, current>> /\ pc[q] = "waiting" /\ response[q] # <<>>
      /\ response' = [response EXCEPT ![q] = Tail(@)]
      /\ \A r \in Req \ {q} : pc'[r] = pc[r]
      /\ pc'[q] \in {"done", "panicked"}
  BY DEF Receive, Return, TypeOK, CallerTypeOK, dispatcherVars
<1>2. Tail(response[q]) = <<>>
  <2>1. response[q] \in Seq(Events(kind[q])) /\ Len(response[q]) <= 1
    BY DEF TypeOK, CallerTypeOK
  <2>. QED  BY <1>1, <2>1
<1>3. response'[q] = <<>> /\ \A r \in Req \ {q} : response'[r] = response[r]
  BY <1>1, <1>2 DEF TypeOK, CallerTypeOK
<1>4. \A r : Queued(r)' <=> Queued(r)
  BY <1>1 DEF Queued
<1>5. ~ Queued(q) /\ current # q
  BY <1>1 DEF InOnePlace
<1>. QED  BY <1>1, <1>3, <1>4, <1>5 DEF InOnePlace

LEMMA InOnePlaceDisconnect ==
    ASSUME TypeOK, InOnePlace, NEW q \in Req, Disconnect(q)
    PROVE  InOnePlace'
<1>1. /\ UNCHANGED <<taskQueue, current>> /\ pc'[q] = "gone"
      /\ \A r \in Req \ {q} : pc'[r] = pc[r] /\ response'[r] = response[r]
  BY DEF Disconnect, TypeOK, CallerTypeOK, dispatcherVars
<1>. QED  BY <1>1 DEF InOnePlace, Queued

LEMMA InOnePlaceStartDispatcher ==
    ASSUME TypeOK, TakenOnce, InOnePlace, StartDispatcher
    PROVE  InOnePlace'
<1> DEFINE h == Head(taskQueue)
<1>1. /\ taskQueue \in Seq(Req) /\ taskQueue # <<>>
      /\ UNCHANGED <<pc, response>> /\ current = None /\ current' = h
      /\ taskQueue' = Tail(taskQueue)
  BY DEF StartDispatcher, TypeOK, DispatcherTypeOK, callerVars
<1>2. /\ 1 \in DOMAIN taskQueue /\ taskQueue[1] = h /\ h \in Req
      /\ \A i \in DOMAIN taskQueue' :
           i + 1 \in DOMAIN taskQueue /\ taskQueue'[i] = taskQueue[i + 1] /\ i + 1 # 1
      /\ \A j \in DOMAIN taskQueue : j # 1 => j - 1 \in DOMAIN taskQueue' /\ j - 1 + 1 = j
  BY <1>1
<1> HIDE DEF h
<1>3. \A r : Queued(r)' <=> Queued(r) /\ r # h
  <2>1. \A r : Queued(r)' => Queued(r) /\ r # h
    <3> SUFFICES ASSUME NEW r, NEW i \in DOMAIN taskQueue', taskQueue'[i] = r
                 PROVE  Queued(r) /\ r # h
      BY DEF Queued
    <3>1. i + 1 \in DOMAIN taskQueue /\ taskQueue[i + 1] = r /\ i + 1 # 1
      BY <1>2
    <3>2. r # h
      BY <1>2, <3>1 DEF TakenOnce
    <3>. QED  BY <3>1, <3>2 DEF Queued
  <2>2. \A r : Queued(r) /\ r # h => Queued(r)'
    <3> SUFFICES ASSUME NEW r, r # h, NEW j \in DOMAIN taskQueue, taskQueue[j] = r
                 PROVE  Queued(r)'
      BY DEF Queued
    <3>1. j # 1
      BY <1>2
    <3>2. j - 1 \in DOMAIN taskQueue' /\ taskQueue'[j - 1] = taskQueue[j]
      BY <1>2, <3>1
    <3>. QED  BY <3>2 DEF Queued
  <2>. QED  BY <2>1, <2>2
<1>4. Queued(h)
  BY <1>2 DEF Queued
<1>. QED  BY <1>1, <1>2, <1>3, <1>4, NoneAssumption DEF InOnePlace

LEMMA InOnePlaceCollect ==
    ASSUME TypeOK, InOnePlace, current # None, Collect
    PROVE  InOnePlace'
<1>1. UNCHANGED <<pc, taskQueue>> /\ current \in Req
  BY CollectCases DEF callerVars, TypeOK, DispatcherTypeOK
<1>2. CASE UNCHANGED <<current, response>>
  <2>1. \A r \in Req : pc'[r] = pc[r]
    BY <1>1
  <2>. QED  BY <1>1, <1>2, <2>1, InOnePlaceQuiet
<1>3. ASSUME NEW k, NEW res, Respond(k, res)
      PROVE  InOnePlace'
  <2>1. current' = None /\ \A r \in Req : current' # r
    BY <1>3, NoneAssumption DEF Respond
  <2>2. CASE pc[current] = "gone" /\ UNCHANGED response
    BY <1>1, <2>1, <2>2 DEF InOnePlace, Queued
  <2>3. CASE response' = [response EXCEPT ![current] = Append(@, [kind |-> k, res |-> res])]
    <3>1. response[current] \in Seq(Events(kind[current])) /\ DOMAIN response = Req
      BY <1>1 DEF TypeOK, CallerTypeOK
    <3> DEFINE event == [kind |-> k, res |-> res]
    <3>2. /\ response'[current] = Append(response[current], event)
          /\ \A r \in Req \ {current} : response'[r] = response[r]
      BY <1>1, <2>3, <3>1
    <3> HIDE DEF event
    <3>3. response'[current] # <<>>
      <4>1. 1 \in DOMAIN Append(response[current], event) /\ DOMAIN <<>> = {}
        BY <3>1
      <4>. QED  BY <3>2, <4>1
    <3>. QED  BY <1>1, <2>1, <3>2, <3>3 DEF InOnePlace, Queued
  <2>. QED  BY <1>3, <2>2, <2>3 DEF Respond
<1>. QED  BY <1>2, <1>3, CollectCases

LEMMA InOnePlaceStep ==
    ASSUME TypeOK, TakenOnce, InOnePlace, [Next]_vars
    PROVE  InOnePlace'
<1>1. ASSUME NEW q \in Req, AskJudge(q)
      PROVE  InOnePlace'
  <2>1. \A r \in Req : \/ pc'[r] = pc[r]
                       \/ pc[r] = "idle" /\ pc'[r] \in {"sending", "done"}
    BY <1>1 DEF AskJudge, Return, TypeOK, CallerTypeOK
  <2>2. UNCHANGED <<taskQueue, current, response>>
    BY <1>1 DEF AskJudge, dispatcherVars
  <2>. QED  BY <2>1, <2>2, InOnePlaceQuiet
<1>2. CASE UNCHANGED <<pc, taskQueue, current, response>>
  <2>1. \A r \in Req : pc'[r] = pc[r]
    BY <1>2
  <2>. QED  BY <1>2, <2>1, InOnePlaceQuiet
<1>3. PollTimeout \/ UNCHANGED vars => UNCHANGED <<pc, taskQueue, current, response>>
  BY DEF PollTimeout, vars, callerVars
<1>4. \A w \in Rpc : WorkerLagged(w) \/ WorkerReceive(w) \/ RpcCall(w)
                     => UNCHANGED <<pc, taskQueue, current, response>>
  BY DEF WorkerLagged, WorkerReceive, RpcCall, callerVars, dispatcherVars
<1>. QED  BY <1>1, <1>2, <1>3, <1>4, StepCases, InOnePlaceSendTask, InOnePlaceReceive,
             InOnePlaceDisconnect, InOnePlaceStartDispatcher, InOnePlaceCollect

\* In one place, counted.
LEMMA OnePlaceServes ==
    ASSUME TypeOK, TakenOnce, InOnePlace
    PROVE  ServedOnce
<1> SUFFICES ASSUME NEW r \in Req
             PROVE  /\ pc[r] = "waiting" => Places(r) = 1
                    /\ pc[r] \in {"idle", "sending", "done"} => Places(r) = 0
  BY DEF ServedOnce
<1> DEFINE P == {i \in DOMAIN taskQueue : taskQueue[i] = r}
<1>1. Queued(r) => Cardinality(P) = 1
  <2> SUFFICES ASSUME NEW i \in DOMAIN taskQueue, taskQueue[i] = r PROVE Cardinality(P) = 1
    BY DEF Queued
  <2>1. P = {i}
    BY DEF TakenOnce
  <2>. QED  BY <2>1, FS_Singleton
<1>2. ~ Queued(r) => Cardinality(P) = 0
  <2> SUFFICES ASSUME ~ Queued(r) PROVE Cardinality(P) = 0
    OBVIOUS
  <2>1. P = {}
    BY DEF Queued
  <2>. QED  BY <2>1, FS_EmptySet
<1>3. /\ response[r] = <<>> => Len(response[r]) = 0
      /\ response[r] # <<>> => Len(response[r]) = 1
  <2>1. response[r] \in Seq(Events(kind[r])) /\ Len(response[r]) <= 1
    BY DEF TypeOK, CallerTypeOK
  <2>2. Len(response[r]) \in Nat /\ (Len(response[r]) = 0 <=> response[r] = <<>>)
    BY <2>1
  <2> DEFINE n == Len(response[r])
  <2> HIDE DEF n
  <2>3. n \in Nat /\ n <= 1 /\ (n = 0 <=> response[r] = <<>>)
    BY <2>1, <2>2 DEF n
  <2>4. (response[r] = <<>> => n = 0) /\ (response[r] # <<>> => n = 1)
    BY <2>3
  <2>. QED  BY <2>4 DEF n
<1>4. Places(r) = Cardinality(P) + (IF current = r THEN 1 ELSE 0) + Len(response[r])
  BY DEF Places
<1>5. ASSUME NEW p, NEW l, p \in {0, 1}, l \in {0, 1}, Cardinality(P) = p, Len(response[r]) = l
      PROVE  Places(r) = p + (IF current = r THEN 1 ELSE 0) + l
  BY <1>4, <1>5
<1> HIDE DEF P
<1>6. CASE pc[r] = "waiting"
  <2>1. CASE Queued(r)
    <3>1. current # r /\ response[r] = <<>>
      BY <1>6, <2>1 DEF InOnePlace
    <3>. QED  BY <1>1, <1>3, <1>5, <1>6, <2>1, <3>1
  <2>2. CASE ~ Queued(r) /\ current = r
    <3>1. response[r] = <<>>
      BY <1>6, <2>2 DEF InOnePlace
    <3>. QED  BY <1>2, <1>3, <1>5, <1>6, <2>2, <3>1
  <2>3. CASE ~ Queued(r) /\ current # r
    <3>1. response[r] # <<>>
      BY <1>6, <2>3 DEF InOnePlace
    <3>2. Cardinality(P) = 0 /\ Len(response[r]) = 1
      BY <1>2, <1>3, <2>3, <3>1
    <3>3. Places(r) = 0 + (IF current = r THEN 1 ELSE 0) + 1
      BY <1>5, <3>2
    <3>. QED  BY <1>6, <2>3, <3>3
  <2>. QED  BY <2>1, <2>2, <2>3
<1>7. CASE pc[r] \in {"idle", "sending", "done"}
  <2>1. ~ Queued(r) /\ current # r /\ response[r] = <<>>
    BY <1>7 DEF InOnePlace
  <2>. QED  BY <1>2, <1>3, <1>5, <1>7, <2>1
<1>. QED  BY <1>6, <1>7

-----------------------------------------------------------------------------
(* Why an event refuses, and why a call is refused.                         *)

LEMMA ReportsTyped ==
    ASSUME TypeOK, NEW r \in Req, NEW w \in Rpc
    PROVE  /\ reported[r][w].tag = "ok" => /\ reported[r][w] = Ok(reported[r][w].val)
                                           /\ reported[r][w].val \in Replies(kind[r])
           /\ reported[r][w].tag = "err" => reported[r][w] = Failed
           /\ reported[r][w] = Failed => reported[r][w] # Pending
  BY DEF TypeOK, WorkerTypeOK, Pending, Reports, Failed, Err, Ok

\* A failed ballot at the head of the inner channel is an RPC that has failed for
\* the current task.
LEMMA FailedLetter ==
    ASSUME TypeOK, BoxSound, current # None, inbox # <<>>, Head(inbox).res.tag = "err"
    PROVE  \E w \in Rpc : reported[current][w] = Failed
<1>1. /\ current \in Req /\ 1 \in DOMAIN inbox /\ inbox[1] = Head(inbox)
      /\ Head(inbox) \in Letters(kind[current])
  BY DEF TypeOK, DispatcherTypeOK
<1>2. Head(inbox).from \in Rpc
  BY <1>1 DEF Letters
<1>3. reported[current][Head(inbox).from] = Head(inbox).res
  BY <1>1 DEF BoxSound
<1>4. reported[current][Head(inbox).from] = Failed
  BY <1>1, <1>2, <1>3, ReportsTyped
<1>. QED  BY <1>2, <1>4

LEMMA EventCausedStep ==
    ASSUME TypeOK, TakenOnce, BoxSound, EventCaused, [Next]_vars
    PROVE  EventCaused'
<1> DEFINE Cause(r, event) ==
             /\ event.kind # kind[r] => kind[r] = "GetAccountInfo"
             /\ event.kind # kind[r] \/ event.res = Failed
                => \E w \in Rpc : reported[r][w] = Failed
             /\ event.res = Err("Custom")
                => /\ kind[r] \in ScalarKinds
                   /\ AllReplied(reported[r])
                   /\ event.res = Decide(kind[r], BallotsOf(Rpc, reported[r]))
\* Events that were already in a channel keep their cause: the replies are final.
<1>1. ASSUME UNCHANGED kind,
             \A r \in Req : \A i \in DOMAIN response'[r] :
                 \E j \in DOMAIN response[r] : response'[r][i] = response[r][j]
      PROVE  EventCaused'
  <2> SUFFICES ASSUME NEW r \in Req, NEW i \in DOMAIN response'[r]
               PROVE  Cause(r, response[r][i])'
    BY DEF EventCaused
  <2>1. PICK j \in DOMAIN response[r] : response'[r][i] = response[r][j]
    BY <1>1
  <2>2. Cause(r, response[r][j])
    BY DEF EventCaused
  <2>3. (\E w \in Rpc : reported[r][w] = Failed) => \E w \in Rpc : reported'[r][w] = Failed
    BY ReportFinal, ReportsTyped
  <2>4. AllReplied(reported[r]) => reported'[r] = reported[r]
    BY ReportFinal
  <2>. QED  BY <1>1, <2>1, <2>2, <2>3, <2>4
<1>2. CASE UNCHANGED <<kind, response>>
  BY <1>1, <1>2
<1>3. ASSUME NEW r \in Req, Receive(r) \/ Disconnect(r)
      PROVE  EventCaused'
  <2>1. /\ UNCHANGED kind /\ DOMAIN response = Req
        /\ \/ response[r] # <<>> /\ response' = [response EXCEPT ![r] = Tail(@)]
           \/ response' = [response EXCEPT ![r] = <<>>]
    BY <1>3 DEF Receive, Disconnect, TypeOK, CallerTypeOK
  <2>2. /\ \A q \in Req : q # r => response'[q] = response[q]
        /\ response'[r] \in {Tail(response[r]), <<>>}
    BY <2>1
  <2>3. response[r] \in Seq(Events(kind[r])) /\ Len(response[r]) <= 1
    BY DEF TypeOK, CallerTypeOK
  <2>4. DOMAIN response'[r] = {}
    <3>1. CASE response[r] = <<>>
      BY <2>1, <3>1
    <3>2. CASE response[r] # <<>>
      <4>1. Tail(response[r]) = <<>> /\ DOMAIN <<>> = {}
        BY <2>3, <3>2
      <4>. QED  BY <2>2, <4>1
    <3>. QED  BY <3>1, <3>2
  <2>. QED  BY <1>1, <2>1, <2>2, <2>4
<1>4. CASE current # None /\ Collect
  <2> DEFINE k == kind[current]
             bs == Cast(k, Head(inbox).res.val, Head(inbox).from)
  <2>1. current \in Req /\ inbox # <<>> /\ UNCHANGED <<kind, reported>> /\ k \in Kinds
    BY <1>4, CollectCases DEF TypeOK, CallerTypeOK, DispatcherTypeOK, callerVars, workerVars
  <2>2. ASSUME NEW e, NEW res, Respond(e, res), Cause(current, [kind |-> e, res |-> res])
        PROVE  EventCaused'
    <3>1. CASE UNCHANGED response
      BY <1>2, <2>1, <3>1
    <3>2. CASE response' = [response EXCEPT ![current] = Append(@, [kind |-> e, res |-> res])]
      <4> DEFINE event == [kind |-> e, res |-> res]
      <4>1. /\ response'[current] = Append(response[current], event)
            /\ \A q \in Req : q # current => response'[q] = response[q]
            /\ response[current] \in Seq(Events(k))
        BY <2>1, <3>2 DEF TypeOK, CallerTypeOK
      <4>2. Cause(current, event)
        BY <2>2
      <4> HIDE DEF event
      <4>3. \A i \in DOMAIN response'[current] :
              \/ i \in DOMAIN response[current] /\ response'[current][i] = response[current][i]
              \/ response'[current][i] = event
        BY <4>1
      <4>4. \A r \in Req : \A i \in DOMAIN response[r] : Cause(r, response[r][i])
        BY DEF EventCaused
      <4> HIDE DEF Cause
      <4>5. \A r \in Req : \A i \in DOMAIN response'[r] : Cause(r, response'[r][i])
        BY <4>1, <4>2, <4>3, <4>4
      <4>. QED  BY <2>1, <4>5 DEF EventCaused, Cause
    <3>. QED  BY <2>2, <3>1, <3>2 DEF Respond
  <2>3. CASE Head(inbox).res.tag = "err" /\ Respond(ErrorEvent(k), Failed)
    <3>1. Failed # Err("Custom")
      BY DEF Failed, Err
    <3>2. Cause(current, [kind |-> ErrorEvent(k), res |-> Failed])
      BY <1>4, <2>1, <2>3, <3>1, FailedLetter DEF ErrorEvent
    <3>. QED  BY <2>2, <2>3, <3>2
  <2>4. CASE Head(inbox).res.tag # "err" /\ Complete(bs) /\ Respond(k, Decide(k, bs))
    <3>1. /\ AllReplied(reported[current])
          /\ Decide(k, bs) = Decide(k, BallotsOf(Rpc, reported[current]))
      BY <1>4, <2>1, <2>4, BoxOfCurrent
    <3>a. k \in ScalarKinds \cup ListKinds
      BY <2>1, KindAssumption
    <3>b. k \in ListKinds => Decide(k, bs) = Ok(Common(bs))
      BY DEF Decide, ListKinds, DealGetSignaturesForAddressRes, DealGetProgramAccountsRes
    <3>c. k \in ScalarKinds => Decide(k, bs) = Plurality(bs)
      BY DEF Decide, ScalarKinds, DealGetTransactionRes, DealGetSlotRes, DealGetAccountRes
    <3>2. Decide(k, bs) # Failed
      <4>1. Plurality(bs) # Failed /\ Ok(Common(bs)) # Failed
        BY DEF Plurality, Failed, Err, Ok
      <4>. QED  BY <3>a, <3>b, <3>c, <4>1
    <3>3. Decide(k, bs) = Err("Custom") => k \in ScalarKinds
      BY <3>a, <3>b DEF Ok, Err
    <3>4. Cause(current, [kind |-> k, res |-> Decide(k, bs)])
      BY <3>1, <3>2, <3>3
    <3>. QED  BY <2>2, <2>4, <3>4
  <2>5. CASE Respond(k, Err("TimeOut"))
    <3>1. Err("TimeOut") # Failed /\ Err("TimeOut") # Err("Custom")
      BY DEF Failed, Err
    <3>2. Cause(current, [kind |-> k, res |-> Err("TimeOut")])
      BY <3>1
    <3>. QED  BY <2>2, <2>5, <3>2
  <2>6. CASE UNCHANGED response
    BY <1>2, <2>1, <2>6
  <2>. QED  BY <1>4, <2>3, <2>4, <2>5, <2>6, CollectCases
<1>5. \A r \in Req : AskJudge(r) \/ SendTask(r) => UNCHANGED <<kind, response>>
  BY DEF AskJudge, SendTask
<1>6. \A w \in Rpc : WorkerLagged(w) \/ WorkerReceive(w) \/ RpcCall(w) => UNCHANGED <<kind, response>>
  BY DEF WorkerLagged, WorkerReceive, RpcCall, callerVars
<1>7. StartDispatcher \/ PollTimeout \/ UNCHANGED vars => UNCHANGED <<kind, response>>
  BY DEF StartDispatcher, PollTimeout, vars, callerVars
<1>. QED  BY <1>2, <1>3, <1>4, <1>5, <1>6, <1>7, StepCases

\* Where the extra RPCs' replies back the judge's, the decision and the verdict
\* give the judge's reply: a refusal is never due to the quorum code itself.
LEMMA BackedIsAnswered ==
    ASSUME NEW k \in Kinds, k \in ScalarKinds, NEW j, NEW report,
           \A w \in Rpc : /\ report[w].tag = "ok" /\ report[w] = Ok(report[w].val)
                          /\ report[w].val \in Replies(k),
           Backs(k, report, j)
    PROVE  LET res == Decide(k, BallotsOf(Rpc, report))
           IN  res.tag = "ok" /\ Verdict(k, j, res.val) = Ok(j)
<1> DEFINE res == Decide(k, BallotsOf(Rpc, report))
<1>1. PICK v \in Replies(k) : UniqueLeader(k, report, v) /\ Agrees(k, j, v)
  BY DEF Backs
<1>2. res = Plurality(BallotsOf(Rpc, report))
  BY DEF Decide, ScalarKinds, DealGetTransactionRes, DealGetSlotRes, DealGetAccountRes
<1>3. Plurality(BallotsOf(Rpc, report)) = Ok(v)
  <2>1. \A u \in Replies(k) \ {v} : Cardinality(Voters(Rpc, report, u)) < Cardinality(Voters(Rpc, report, v))
    BY <1>1 DEF UniqueLeader
  <2>. QED  BY <2>1, RpcAssumption, UniqueLeaderIsPlurality
<1>4. res.tag = "ok" /\ res.val = v
  BY <1>2, <1>3 DEF Ok
<1> HIDE DEF res
<1>5. Verdict(k, j, v) = Ok(j)
  <2>1. CASE k = "GetSlot"
    BY <1>1, <2>1 DEF Agrees, Verdict, SlotVerdict
  <2>2. CASE k \in {"GetTransaction", "GetAccountInfo"}
    BY <1>1, <2>2 DEF Agrees, Verdict, SameVerdict
  <2>. QED  BY <2>1, <2>2 DEF ScalarKinds
<1>. QED  BY <1>4, <1>5 DEF res

LEMMA RefusalJustifiedStep ==
    ASSUME TypeOK, JudgeHeld, TakenOnce, EventFaithful, EventCaused, RefusalJustified, [Next]_vars
    PROVE  RefusalJustified'
<1> DEFINE Refused(r) == pc[r] = "done" /\ answer[r].tag = "err"
           Justified(r, ans) ==
             /\ ans = Err("Internal") => \E w \in Rpc : reported[r][w] = Failed
             /\ ans = Err("Custom")
                => \/ judge[r] = Err("Custom")
                   \/ /\ kind[r] \in ScalarKinds
                      /\ AllReplied(reported[r])
                      /\ ~ Backs(kind[r], reported[r], judge[r].val)
<1>0. ASSUME \A r \in Req : (Refused(r) => Justified(r, answer[r]))'
      PROVE  RefusalJustified'
  BY <1>0 DEF RefusalJustified
\* A call that had returned before, and is not touched by the step.
<1>1. ASSUME NEW r \in Req, pc'[r] = "done" => pc[r] = "done",
             kind'[r] = kind[r], answer'[r] = answer[r], judge'[r] = judge[r]
      PROVE  (Refused(r) => Justified(r, answer[r]))'
  <2>1. Refused(r)' => Justified(r, answer[r])
    BY <1>1 DEF RefusalJustified
  <2>2. (\E w \in Rpc : reported[r][w] = Failed) => \E w \in Rpc : reported'[r][w] = Failed
    BY ReportFinal, ReportsTyped
  <2>3. AllReplied(reported[r]) => reported'[r] = reported[r]
    BY ReportFinal
  <2>. QED  BY <1>1, <2>1, <2>2, <2>3
<1>2. CASE UNCHANGED callerVars
  BY <1>0, <1>1, <1>2 DEF callerVars
<1>3. ASSUME NEW q \in Req, SendTask(q) \/ Disconnect(q)
      PROVE  RefusalJustified'
  <2>1. \A r \in Req : /\ pc'[r] = "done" => pc[r] = "done"
                       /\ kind'[r] = kind[r] /\ answer'[r] = answer[r] /\ judge'[r] = judge[r]
    BY <1>3 DEF SendTask, Disconnect, TypeOK, CallerTypeOK
  <2>. QED  BY <1>0, <1>1, <2>1
<1>4. ASSUME NEW q \in Req, AskJudge(q)
      PROVE  RefusalJustified'
  <2>1. \A r \in Req \ {q} : /\ pc'[r] = pc[r] /\ kind'[r] = kind[r]
                             /\ answer'[r] = answer[r] /\ judge'[r] = judge[r]
    BY <1>4 DEF AskJudge, Return, TypeOK, CallerTypeOK
  <2>2. \/ pc'[q] = "done" /\ answer'[q] = Err("Custom") /\ judge'[q] = Err("Custom")
        \/ pc'[q] = "done" /\ answer'[q] = Ok({})
        \/ pc'[q] = "sending"
    BY <1>4 DEF AskJudge, Return, TypeOK, CallerTypeOK
  <2>3. Ok({}).tag # "err" /\ Err("Custom") # Err("Internal")
    BY DEF Ok, Err
  <2>4. (Refused(q) => Justified(q, answer[q]))'
    BY <2>2, <2>3
  <2>5. \A r \in Req \ {q} : (Refused(r) => Justified(r, answer[r]))'
    BY <1>1, <2>1
  <2>. QED  BY <1>0, <2>4, <2>5
<1>5. ASSUME NEW q \in Req, Receive(q)
      PROVE  RefusalJustified'
  <2> DEFINE event == Head(response[q])
             a == IF event.res.tag = "ok" THEN Verdict(kind[q], judge[q].val, event.res.val)
                  ELSE event.res
  <2>1. UNCHANGED <<kind, judge, reported>> /\ pc[q] = "waiting" /\ response[q] # <<>>
    BY <1>5 DEF Receive, workerVars
  <2>2. \/ pc' = [pc EXCEPT ![q] = "panicked"] /\ UNCHANGED answer
        \/ pc' = [pc EXCEPT ![q] = "done"] /\ answer' = [answer EXCEPT ![q] = a]
    BY <1>5 DEF Receive, Return
  <2>3. event = response[q][1] /\ 1 \in DOMAIN response[q] /\ kind[q] \in Kinds
    BY <2>1 DEF TypeOK, CallerTypeOK
  <2>4. a.tag = "err" => Justified(q, a)
    <3>1. \A w \in Rpc : reported[q][w].tag = "ok"
                         => /\ reported[q][w] = Ok(reported[q][w].val)
                            /\ reported[q][w].val \in Replies(kind[q])
      BY ReportsTyped
    <3>2. CASE event.res.tag # "ok"
      <4>1. a = event.res
        BY <3>2
      <4>2. Justified(q, event.res)
        <5>1. event.res = Err("Internal") => \E w \in Rpc : reported[q][w] = Failed
          BY <2>3 DEF EventCaused, Failed
        <5>2. ASSUME event.res = Err("Custom")
              PROVE  /\ kind[q] \in ScalarKinds
                     /\ AllReplied(reported[q])
                     /\ ~ Backs(kind[q], reported[q], judge[q].val)
          <6>1. /\ kind[q] \in ScalarKinds
                /\ AllReplied(reported[q])
                /\ event.res = Decide(kind[q], BallotsOf(Rpc, reported[q]))
            BY <2>3, <5>2 DEF EventCaused
          <6>2. \A w \in Rpc : reported[q][w].tag = "ok"
            BY <6>1 DEF AllReplied
          <6>3. Backs(kind[q], reported[q], judge[q].val) => event.res.tag = "ok"
            BY <2>3, <3>1, <6>1, <6>2, BackedIsAnswered
          <6>. QED  BY <3>2, <6>1, <6>3
        <5> HIDE DEF event
        <5>. QED  BY <5>1, <5>2
      <4>. QED  BY <4>1, <4>2
    <3>3. CASE event.res.tag = "ok" /\ a.tag = "err"
      <4>1. a = Verdict(kind[q], judge[q].val, event.res.val)
        BY <3>3
      <4>2. /\ AllReplied(reported[q])
            /\ event.res = Decide(kind[q], BallotsOf(Rpc, reported[q]))
        BY <2>3, <3>3 DEF EventFaithful
      <4>3. kind[q] \in ScalarKinds
        <5>1. kind[q] \in ScalarKinds \cup ListKinds
          BY <2>3, KindAssumption
        <5>2. kind[q] \in ListKinds => Verdict(kind[q], judge[q].val, event.res.val).tag = "ok"
          BY DEF Verdict, ListKinds, SignaturesVerdict, AccountsVerdict, Ok
        <5>. QED  BY <3>3, <4>1, <5>1, <5>2
      <4>4. a # Err("Internal")
        <5>1. Err("Custom") # Err("Internal") /\ \A v : Ok(v) # Err("Internal")
          BY DEF Err, Ok
        <5> HIDE DEF event, a
        <5>. QED  BY <4>1, <4>3, <5>1 DEF Verdict, ScalarKinds, SlotVerdict, SameVerdict
      <4>5. \A w \in Rpc : reported[q][w].tag = "ok"
        BY <4>2 DEF AllReplied
      <4>6. Backs(kind[q], reported[q], judge[q].val) => a.tag = "ok"
        <5>1. Ok(judge[q].val).tag = "ok"
          BY DEF Ok
        <5> HIDE DEF event, a
        <5>. QED  BY <2>3, <3>1, <4>1, <4>2, <4>3, <4>5, <5>1, BackedIsAnswered
      <4> HIDE DEF a
      <4>. QED  BY <3>3, <4>2, <4>3, <4>4, <4>6
    <3>. QED  BY <3>2, <3>3
  <2>5. (Refused(q) => Justified(q, answer[q]))'
    <3> HIDE DEF a
    <3>1. q \in DOMAIN pc /\ q \in DOMAIN answer
      BY DEF TypeOK, CallerTypeOK
    <3>. QED  BY <2>1, <2>2, <2>4, <3>1
  <2>6. \A r \in Req \ {q} : (Refused(r) => Justified(r, answer[r]))'
    <3>1. \A r \in Req \ {q} : /\ pc'[r] = pc[r] /\ kind'[r] = kind[r]
                               /\ answer'[r] = answer[r] /\ judge'[r] = judge[r]
      BY <2>1, <2>2 DEF TypeOK, CallerTypeOK
    <3>. QED  BY <1>1, <3>1
  <2>. QED  BY <1>0, <2>5, <2>6
<1>6. /\ StartDispatcher \/ PollTimeout \/ Collect => UNCHANGED callerVars
      /\ \A w \in Rpc : WorkerLagged(w) \/ WorkerReceive(w) \/ RpcCall(w) => UNCHANGED callerVars
      /\ UNCHANGED vars => UNCHANGED callerVars
  BY DEF StartDispatcher, PollTimeout, Collect, WorkerLagged, WorkerReceive, RpcCall, vars, callerVars
<1>. QED  BY <1>2, <1>3, <1>4, <1>5, <1>6, StepCases

-----------------------------------------------------------------------------
(* Lists.                                                                   *)

\* What a caller makes of a list event, where no list repeats an item.
LEMMA ListVerdict ==
    ASSUME NEW k \in ListKinds, NEW j, j \in Seq(Range(j)),
           k = "GetSignaturesForAddress" => j # <<>>,
           NEW report, \A w \in Rpc : report[w].tag = "ok",
           NoRepeats(j), \A w \in Rpc : NoRepeats(report[w].val)
    PROVE  LET first == IF k = "GetSignaturesForAddress" THEN {Head(j)} ELSE {}
               common == Common(BallotsOf(Rpc, report))
           IN  Verdict(k, j, common) = Ok(first \cup {x \in Range(j) : InEveryReply(report, x)})
<1> DEFINE common == Common(BallotsOf(Rpc, report))
           agreed(l) == {x \in Range(l) : InEveryReply(report, x)}
<1>1. \A x : x \in common <=> InEveryReply(report, x)
  <2> SUFFICES ASSUME NEW x PROVE x \in common <=> InEveryReply(report, x)
    OBVIOUS
  <2>1. \A w \in Rpc : \A i, n \in DOMAIN report[w].val :
            report[w].val[i] = report[w].val[n] => i = n
    BY DEF NoRepeats
  <2>2. x \in common <=> \A w \in Rpc : x \in Range(report[w].val)
    BY <2>1, RpcAssumption, CommonIsInEveryList
  <2>. QED  BY <2>2 DEF InEveryReply
<1>2. ASSUME NEW l, NoRepeats(l)
      PROVE  SeenTwice(l, common) = agreed(l)
  <2>1. \A i, n \in DOMAIN l : l[i] = l[n] => i = n
    BY <1>2 DEF NoRepeats
  <2>2. \A x : x \in SeenTwice(l, common) <=> x \in Range(l) /\ x \in common
    <3> HIDE DEF common
    <3>. QED  BY <2>1, SeenTwiceIsShared
  <2> HIDE DEF common
  <2>. QED  BY <1>1, <2>2
<1> HIDE DEF common
<1>3. CASE k = "GetProgramAccounts"
  BY <1>2, <1>3 DEF Verdict, AccountsVerdict, common
<1>4. CASE k = "GetSignaturesForAddress"
  <2>1. j # <<>> /\ Head(j) \in Range(j)
    BY <1>4 DEF Range
  <2>2. /\ \A i \in DOMAIN Tail(j) : i + 1 \in DOMAIN j /\ Tail(j)[i] = j[i + 1]
        /\ \A i \in DOMAIN j : i # 1 => i - 1 \in DOMAIN Tail(j) /\ Tail(j)[i - 1] = j[i]
        /\ \A i, n \in DOMAIN Tail(j) : i + 1 = n + 1 => i = n
        /\ Head(j) = j[1]
    BY <2>1
  <2>3. NoRepeats(Tail(j))
    BY <2>2 DEF NoRepeats
  <2>4. Range(j) = {Head(j)} \cup Range(Tail(j))
    <3>1. \A x \in Range(Tail(j)) : x \in Range(j)
      BY <2>2 DEF Range
    <3>2. \A x \in Range(j) : x = Head(j) \/ x \in Range(Tail(j))
      <4> SUFFICES ASSUME NEW i \in DOMAIN j, i # 1 PROVE j[i] \in Range(Tail(j))
        BY <2>2 DEF Range
      <4>1. i - 1 \in DOMAIN Tail(j) /\ Tail(j)[i - 1] = j[i]
        BY <2>2
      <4>. QED  BY <4>1 DEF Range
    <3>. QED  BY <2>1, <3>1, <3>2
  <2>5. Verdict(k, j, common) = Ok({Head(j)} \cup SeenTwice(Tail(j), common))
    BY <1>4 DEF Verdict, SignaturesVerdict
  <2>6. SeenTwice(Tail(j), common) = agreed(Tail(j))
    BY <1>2, <2>3
  <2>7. {Head(j)} \cup agreed(Tail(j)) = {Head(j)} \cup agreed(j)
    BY <2>4
  <2>. QED  BY <1>4, <2>5, <2>6, <2>7 DEF common
<1>. QED  BY <1>3, <1>4 DEF ListKinds

LEMMA ListBackedStep ==
    ASSUME TypeOK, JudgeHeld, TakenOnce, EventFaithful, ListBacked, [Next]_vars
    PROVE  ListBacked'
<1> DEFINE Listed(r) == pc[r] = "done" /\ kind[r] \in ListKinds /\ answer[r].tag = "ok"
           first(r) == IF kind[r] = "GetSignaturesForAddress" THEN {Head(judge[r].val)} ELSE {}
           Held(r, ans) ==
             \/ kind[r] = "GetSignaturesForAddress" /\ judge[r] = Ok(<<>>) /\ ans = Ok({})
             \/ /\ AllReplied(reported[r])
                /\ NoRepeats(judge[r].val) /\ (\A w \in Rpc : NoRepeats(reported[r][w].val))
                   => ans.val = first(r)
                                \cup {x \in Range(judge[r].val) : InEveryReply(reported[r], x)}
<1>0. ASSUME \A r \in Req : (Listed(r) => Held(r, answer[r]))'
      PROVE  ListBacked'
  BY <1>0 DEF ListBacked
\* A call that had returned before, and is not touched by the step.
<1>1. ASSUME NEW r \in Req, pc'[r] = "done" => pc[r] = "done",
             kind'[r] = kind[r], answer'[r] = answer[r], judge'[r] = judge[r]
      PROVE  (Listed(r) => Held(r, answer[r]))'
  <2>1. Listed(r)' => Held(r, answer[r])
    BY <1>1 DEF ListBacked
  <2>2. AllReplied(reported[r]) => reported'[r] = reported[r]
    BY ReportFinal
  <2>. QED  BY <1>1, <2>1, <2>2
<1>2. CASE UNCHANGED callerVars
  BY <1>0, <1>1, <1>2 DEF callerVars
<1>3. ASSUME NEW q \in Req, SendTask(q) \/ Disconnect(q)
      PROVE  ListBacked'
  <2>1. \A r \in Req : /\ pc'[r] = "done" => pc[r] = "done"
                       /\ kind'[r] = kind[r] /\ answer'[r] = answer[r] /\ judge'[r] = judge[r]
    BY <1>3 DEF SendTask, Disconnect, TypeOK, CallerTypeOK
  <2>. QED  BY <1>0, <1>1, <2>1
<1>4. ASSUME NEW q \in Req, AskJudge(q)
      PROVE  ListBacked'
  <2>1. \A r \in Req \ {q} : /\ pc'[r] = pc[r] /\ kind'[r] = kind[r]
                             /\ answer'[r] = answer[r] /\ judge'[r] = judge[r]
    BY <1>4 DEF AskJudge, Return, TypeOK, CallerTypeOK
  <2>2. \/ answer'[q] = Err("Custom")
        \/ /\ answer'[q] = Ok({}) /\ judge'[q] = Ok(<<>>)
           /\ kind'[q] = "GetSignaturesForAddress"
        \/ pc'[q] = "sending"
    BY <1>4 DEF AskJudge, Return, TypeOK, CallerTypeOK
  <2>3. (Listed(q) => Held(q, answer[q]))'
    <3>1. Err("Custom").tag # "ok"
      BY DEF Err
    <3>. QED  BY <2>2, <3>1
  <2>4. \A r \in Req \ {q} : (Listed(r) => Held(r, answer[r]))'
    BY <1>1, <2>1
  <2>. QED  BY <1>0, <2>3, <2>4
<1>5. ASSUME NEW q \in Req, Receive(q)
      PROVE  ListBacked'
  <2> DEFINE event == Head(response[q])
             a == IF event.res.tag = "ok" THEN Verdict(kind[q], judge[q].val, event.res.val)
                  ELSE event.res
  <2>1. UNCHANGED <<kind, judge, reported>> /\ pc[q] = "waiting" /\ response[q] # <<>>
    BY <1>5 DEF Receive, workerVars
  <2>2. \/ pc' = [pc EXCEPT ![q] = "panicked"] /\ UNCHANGED answer
        \/ pc' = [pc EXCEPT ![q] = "done"] /\ answer' = [answer EXCEPT ![q] = a]
    BY <1>5 DEF Receive, Return
  <2>3. event = response[q][1] /\ 1 \in DOMAIN response[q] /\ kind[q] \in Kinds
    BY <2>1 DEF TypeOK, CallerTypeOK
  <2>4. kind[q] \in ListKinds /\ a.tag = "ok" => Held(q, a)
    <3> SUFFICES ASSUME kind[q] \in ListKinds, a.tag = "ok"
                 PROVE  Held(q, a)
      OBVIOUS
    <3>1. event.res.tag = "ok" /\ a = Verdict(kind[q], judge[q].val, event.res.val)
      OBVIOUS
    <3>2. /\ AllReplied(reported[q])
          /\ event.res = Decide(kind[q], BallotsOf(Rpc, reported[q]))
      BY <2>3, <3>1 DEF EventFaithful
    <3>3. event.res = Ok(Common(BallotsOf(Rpc, reported[q])))
      <4> HIDE DEF event
      <4>. QED  BY <3>2 DEF Decide, ListKinds, DealGetSignaturesForAddressRes,
                            DealGetProgramAccountsRes
    <3>4. event.res.val = Common(BallotsOf(Rpc, reported[q]))
      <4> HIDE DEF event
      <4>. QED  BY <3>3 DEF Ok
    <3>5. /\ judge[q].val \in Replies(kind[q])
          /\ kind[q] = "GetSignaturesForAddress" => judge[q].val # <<>>
      BY <2>1, ReceivedTyped
    <3>6. judge[q].val \in Seq(Range(judge[q].val))
      BY <3>5, DataAssumption DEF Replies, ListKinds
    <3>7. \A w \in Rpc : reported[q][w].tag = "ok"
      BY <3>2 DEF AllReplied
    <3>8. ASSUME NoRepeats(judge[q].val), \A w \in Rpc : NoRepeats(reported[q][w].val)
          PROVE  a = Ok(first(q) \cup {x \in Range(judge[q].val) : InEveryReply(reported[q], x)})
      <4> HIDE DEF event, a
      <4>. QED  BY <3>1, <3>4, <3>5, <3>6, <3>7, <3>8, ListVerdict
    <3> HIDE DEF event, a
    <3>. QED  BY <3>2, <3>8 DEF Ok
  <2>5. (Listed(q) => Held(q, answer[q]))'
    <3> HIDE DEF a
    <3>1. q \in DOMAIN pc /\ q \in DOMAIN answer
      BY DEF TypeOK, CallerTypeOK
    <3>. QED  BY <2>1, <2>2, <2>4, <3>1
  <2>6. \A r \in Req \ {q} : (Listed(r) => Held(r, answer[r]))'
    <3>1. \A r \in Req \ {q} : /\ pc'[r] = pc[r] /\ kind'[r] = kind[r]
                               /\ answer'[r] = answer[r] /\ judge'[r] = judge[r]
      BY <2>1, <2>2 DEF TypeOK, CallerTypeOK
    <3>. QED  BY <1>1, <3>1
  <2>. QED  BY <1>0, <2>5, <2>6
<1>6. /\ StartDispatcher \/ PollTimeout \/ Collect => UNCHANGED callerVars
      /\ \A w \in Rpc : WorkerLagged(w) \/ WorkerReceive(w) \/ RpcCall(w) => UNCHANGED callerVars
      /\ UNCHANGED vars => UNCHANGED callerVars
  BY DEF StartDispatcher, PollTimeout, Collect, WorkerLagged, WorkerReceive, RpcCall, vars, callerVars
<1>. QED  BY <1>2, <1>3, <1>4, <1>5, <1>6, StepCases

-----------------------------------------------------------------------------
(* The theorems.                                                            *)

\* IInv and what this module adds to it.
FullInv == /\ IInv
           /\ NobodyMissed
           /\ InOnePlace
           /\ EventCaused
           /\ RefusalJustified
           /\ ListBacked

LEMMA FullInvInit == Init => FullInv
<1> SUFFICES ASSUME Init PROVE FullInv
  OBVIOUS
<1>1. IInv
  BY InvInit
<1>2. /\ \A r \in Req : pc[r] = "idle" /\ response[r] = <<>>
      /\ current = None /\ taskQueue = <<>>
      /\ DOMAIN <<>> = {}
  BY DEF Init
<1>3. NobodyMissed /\ RefusalJustified /\ ListBacked
  BY <1>2 DEF NobodyMissed, RefusalJustified, ListBacked
<1>4. InOnePlace
  BY <1>2, NoneAssumption DEF InOnePlace, Queued
<1>5. EventCaused
  BY <1>2 DEF EventCaused
<1>. QED  BY <1>1, <1>3, <1>4, <1>5 DEF FullInv

LEMMA FullInvStep == FullInv /\ [Next]_vars => FullInv'
  BY InvStep, NobodyMissedStep, InOnePlaceStep, EventCausedStep, RefusalJustifiedStep,
     ListBackedStep DEF FullInv, IInv

LEMMA FullInvariance == Spec => []FullInv
  BY FullInvInit, FullInvStep, PTL DEF Spec

\* The current task reaches every worker, however far the worker lags behind the
\* broadcast channel and however small that channel is (sol.rs:275).
THEOREM NobodyIsMissed == Spec => []NobodyMissed
  BY FullInvariance, PTL DEF FullInv

\* A call that waits is queued, or being dealt with, or answered: exactly one of
\* these (sol.rs:206-256 and every exit of the deal_ functions).
THEOREM CallsAreServedOnce == Spec => []ServedOnce
<1>1. FullInv => ServedOnce
  BY OnePlaceServes DEF FullInv, IInv
<1>. QED  BY <1>1, FullInvariance, PTL

\* A call is refused for a cause: an RPC that failed, or a judge's reply that the
\* extra RPCs' replies do not back (sol.rs:614-624, 1081-1090, 1384-1578).
THEOREM RefusalsAreJustified == Spec => []RefusalJustified
  BY FullInvariance, PTL DEF FullInv

\* A list that is answered holds what the judge and every extra RPC listed
\* (sol.rs:1046-1070, 1161-1182, 1195-1382).
THEOREM ListsAreBacked == Spec => []ListBacked
  BY FullInvariance, PTL DEF FullInv

-----------------------------------------------------------------------------
(* The refinement: every step of the client is a step of QuorumRead, or     *)
(* changes nothing a caller sees.                                           *)

\* The operators QuorumRead takes from SolQuorum and Functions are those.
LEMMA SameOperators ==
    /\ \A v : QR!Ok(v) = Ok(v)
    /\ \A e : QR!Err(e) = Err(e)
    /\ \A report, v : QR!Voters(Rpc, report, v) = Voters(Rpc, report, v)
    /\ QR!Pending = Pending
    /\ QR!ListMethods = ListKinds
  BY DEF QR!Ok, QR!Err, QR!Voters, QR!Pending, QR!ListMethods, Ok, Err, Voters, Pending, ListKinds

\* What QuorumRead asks of the replies, in the terms of SolClient's properties.
LEMMA SamePredicates ==
    ASSUME TypeOK, NEW r \in Req
    PROVE  /\ ReplySets[kind[r]] = Replies(kind[r])
           /\ {QR!Ok(v) : v \in ResultSets[kind[r]]}
              \cup {QR!Err(e) : e \in {"Internal", "Custom", "TimeOut"}} = Outcomes(kind[r])
           /\ QR!AllReplied(r) <=> AllReplied(reported[r])
           /\ QR!SomeFailed(r) <=> \E w \in Rpc : reported[r][w] = Failed
           /\ QR!Backed(r) <=> /\ AllReplied(reported[r])
                               /\ Backs(kind[r], reported[r], judge[r].val)
           /\ QR!RepeatFree(r) => /\ NoRepeats(judge[r].val)
                                  /\ \A w \in Rpc : NoRepeats(reported[r][w].val)
           /\ QR!Agreed(r) = (IF kind[r] = "GetSignaturesForAddress" THEN {Head(judge[r].val)} ELSE {})
                             \cup {x \in Range(judge[r].val) : InEveryReply(reported[r], x)}
<1>1. kind[r] \in Kinds
  BY DEF TypeOK, CallerTypeOK
<1>2. ReplySets[kind[r]] = Replies(kind[r])
  BY <1>1 DEF ReplySets
<1>3. ResultSets[kind[r]] = IF kind[r] \in ListKinds THEN SUBSET ListedItems ELSE Replies(kind[r])
  BY <1>1 DEF ResultSets, ListedItems
<1>4. {QR!Ok(v) : v \in ResultSets[kind[r]]}
      \cup {QR!Err(e) : e \in {"Internal", "Custom", "TimeOut"}} = Outcomes(kind[r])
  BY <1>3, SameOperators DEF Outcomes
<1>5. QR!AllReplied(r) <=> AllReplied(reported[r])
  BY DEF QR!AllReplied, AllReplied
<1>6. QR!SomeFailed(r) <=> \E w \in Rpc : reported[r][w] = Failed
  BY SameOperators DEF QR!SomeFailed, Failed
<1>a. \A S : QR!Cardinality(S) = Cardinality(S)
  BY DEF QR!Cardinality, Cardinality
<1>7. \A v \in Replies(kind[r]) :
        QR!Backs(r, v) <=> UniqueLeader(kind[r], reported[r], v) /\ Agrees(kind[r], judge[r].val, v)
  BY <1>2, <1>a, SameOperators DEF QR!Backs, UniqueLeader, Agrees
<1>8. QR!Backed(r) <=> AllReplied(reported[r]) /\ Backs(kind[r], reported[r], judge[r].val)
  BY <1>2, <1>5, <1>7 DEF QR!Backed, Backs
<1>9. QR!RepeatFree(r) => /\ NoRepeats(judge[r].val)
                          /\ \A w \in Rpc : NoRepeats(reported[r][w].val)
  BY DEF QR!RepeatFree, QR!IsInjective, NoRepeats
<1>10. QR!Agreed(r) = (IF kind[r] = "GetSignaturesForAddress" THEN {Head(judge[r].val)} ELSE {})
                      \cup {x \in Range(judge[r].val) : InEveryReply(reported[r], x)}
  <2>1. \A l : QR!Range(l) = Range(l)
    BY DEF QR!Range, Range
  <2>. QED  BY <2>1 DEF QR!Agreed, InEveryReply
<1>. QED  BY <1>2, <1>4, <1>5, <1>6, <1>8, <1>9, <1>10

LEMMA StatusStep ==
    ASSUME TypeOK, NEW q \in Req, NEW s, pc' = [pc EXCEPT ![q] = s]
    PROVE  Status' = [Status EXCEPT ![q] = IF s \in {"sending", "waiting"} THEN "open" ELSE s]
  BY DEF Status, TypeOK, CallerTypeOK

LEMMA RefinesInit == Init => QR!Init
  BY SameOperators DEF Init, QR!Init, Status

LEMMA RefinesAsk ==
    ASSUME TypeOK, NEW q \in Req, AskJudge(q)
    PROVE  QR!Ask(q)
<1>1. Status[q] = "idle" /\ UNCHANGED <<kind, reported>>
  BY DEF Status, AskJudge, workerVars
<1>2. ReplySets[kind[q]] = Replies(kind[q])
  BY SamePredicates
<1>3. CASE judge' = [judge EXCEPT ![q] = Err("Custom")] /\ Return(q, Err("Custom"))
  <2>1. Status' = [Status EXCEPT ![q] = "done"]
    BY <1>3, StatusStep DEF Return
  <2>. QED  BY <1>1, <1>3, <2>1, SameOperators DEF QR!Ask, QR!End, Return
<1>4. ASSUME NEW v \in Replies(kind[q]), judge' = [judge EXCEPT ![q] = Ok(v)],
             kind[q] = "GetSignaturesForAddress", v = <<>>, Return(q, Ok({}))
      PROVE  QR!Ask(q)
  <2>1. Status' = [Status EXCEPT ![q] = "done"]
    BY <1>4, StatusStep DEF Return
  <2>. QED  BY <1>1, <1>2, <1>4, <2>1, SameOperators DEF QR!Ask, QR!End, Return
<1>5. ASSUME NEW v \in Replies(kind[q]), judge' = [judge EXCEPT ![q] = Ok(v)],
             pc' = [pc EXCEPT ![q] = "sending"], UNCHANGED answer
      PROVE  QR!Ask(q)
  <2>1. Status' = [Status EXCEPT ![q] = "open"]
    BY <1>5, StatusStep
  <2>. QED  BY <1>1, <1>2, <1>5, <2>1, SameOperators DEF QR!Ask
<1>. QED  BY <1>3, <1>4, <1>5 DEF AskJudge

\* The answer, or the panic, that ends a call is warranted by the replies to it.
LEMMA RefinesGive ==
    ASSUME FullInv, FullInv', NEW q \in Req, Receive(q)
    PROVE  QR!Give(q) \/ QR!Panic(q)
<1> DEFINE event == Head(response[q])
           a == IF event.res.tag = "ok" THEN Verdict(kind[q], judge[q].val, event.res.val)
                ELSE event.res
<1>1. /\ TypeOK /\ JudgeHeld /\ EventCaused
      /\ AnswerBacked' /\ RefusalJustified' /\ ListBacked'
  BY DEF FullInv, IInv
<1>2. /\ UNCHANGED <<kind, judge, reported>> /\ pc[q] = "waiting" /\ response[q] # <<>>
      /\ Status[q] = "open" /\ kind[q] \in Kinds
  BY <1>1 DEF Receive, workerVars, Status, TypeOK, CallerTypeOK
<1>3. \/ event.kind # kind[q] /\ pc' = [pc EXCEPT ![q] = "panicked"] /\ UNCHANGED answer
      \/ pc' = [pc EXCEPT ![q] = "done"] /\ answer' = [answer EXCEPT ![q] = a]
  BY DEF Receive, Return
<1>4. CASE event.kind # kind[q] /\ pc' = [pc EXCEPT ![q] = "panicked"] /\ UNCHANGED answer
  <2>1. kind[q] = "GetAccountInfo" /\ \E w \in Rpc : reported[q][w] = Failed
    <3>1. event = response[q][1] /\ 1 \in DOMAIN response[q]
      BY <1>1, <1>2 DEF TypeOK, CallerTypeOK
    <3>. QED  BY <1>1, <1>4, <3>1 DEF EventCaused
  <2>2. QR!SomeFailed(q)
    BY <1>1, <2>1, SamePredicates
  <2>3. Status' = [Status EXCEPT ![q] = "panicked"]
    BY <1>1, <1>4, StatusStep
  <2>. QED  BY <1>2, <1>4, <2>1, <2>2, <2>3 DEF QR!Panic
<1>5. CASE pc' = [pc EXCEPT ![q] = "done"] /\ answer' = [answer EXCEPT ![q] = a]
  <2>1. a \in Outcomes(kind[q])
    BY <1>1, <1>2, ReceivedTyped, VerdictTyped
  <2> HIDE DEF a
  <2>2. pc'[q] = "done" /\ answer'[q] = a
    BY <1>1, <1>5 DEF TypeOK, CallerTypeOK
  <2>3. QR!Warranted(q, a)
    <3>1. kind[q] \in ScalarKinds \cup ListKinds /\ ScalarKinds \cap ListKinds = {}
      BY <1>2, KindAssumption DEF ScalarKinds, ListKinds
    <3>2. \/ a.tag = "ok"
          \/ a = Err("Internal") \/ a = Err("Custom") \/ a = Err("TimeOut")
      BY <2>1 DEF Outcomes, Ok
    <3>3. /\ Err("Internal").tag = "err" /\ Err("Custom").tag = "err" /\ Err("TimeOut").tag = "err"
          /\ Err("Internal") # Err("Custom") /\ Err("Internal") # Err("TimeOut")
          /\ Err("Custom") # Err("TimeOut")
      BY DEF Err
    <3>4. CASE a.tag = "ok" /\ kind[q] \in ScalarKinds
      <4>1. AllReplied(reported[q]) /\ a = judge[q] /\ Backs(kind[q], reported[q], judge[q].val)
        BY <1>1, <1>2, <2>2, <3>4 DEF AnswerBacked
      <4>2. QR!Backed(q)
        BY <1>1, <4>1, SamePredicates
      <4>3. kind[q] \notin QR!ListMethods
        BY <3>1, <3>4, SameOperators
      <4>. QED  BY <3>4, <4>1, <4>2, <4>3, <3>3, SameOperators DEF QR!Warranted
    <3>5. CASE a.tag = "ok" /\ kind[q] \in ListKinds
      <4> DEFINE agreed == (IF kind[q] = "GetSignaturesForAddress" THEN {Head(judge[q].val)} ELSE {})
                           \cup {x \in Range(judge[q].val) : InEveryReply(reported[q], x)}
      <4>1. ~ (kind[q] = "GetSignaturesForAddress" /\ judge[q] = Ok(<<>>))
        BY <1>1, <1>2 DEF JudgeHeld
      <4>2. /\ AllReplied(reported[q])
            /\ NoRepeats(judge[q].val) /\ (\A w \in Rpc : NoRepeats(reported[q][w].val))
               => a.val = agreed
        BY <1>1, <1>2, <2>2, <3>5, <4>1 DEF ListBacked
      <4>3. QR!AllReplied(q) /\ (QR!RepeatFree(q) => a.val = QR!Agreed(q))
        <5> HIDE DEF agreed
        <5>1. QR!Agreed(q) = agreed
          BY <1>1, SamePredicates DEF agreed
        <5>. QED  BY <1>1, <4>2, <5>1, SamePredicates
      <4>4. kind[q] \in QR!ListMethods
        BY <3>5, SameOperators
      <4>. QED  BY <3>5, <4>3, <4>4, <3>3, SameOperators DEF QR!Warranted
    <3>6. CASE a = Err("Internal")
      <4>1. QR!SomeFailed(q)
        BY <1>1, <1>2, <2>2, <3>3, <3>6, SamePredicates DEF RefusalJustified
      <4>. QED  BY <3>3, <3>6, <4>1, SameOperators DEF QR!Warranted
    <3>7. CASE a = Err("Custom")
      <4>1. judge[q] # Err("Custom")
        BY <1>1, <1>2, <3>3 DEF JudgeHeld
      <4>2. /\ kind[q] \in ScalarKinds /\ AllReplied(reported[q])
            /\ ~ Backs(kind[q], reported[q], judge[q].val)
        BY <1>1, <1>2, <2>2, <3>3, <3>7, <4>1 DEF RefusalJustified
      <4>3. kind[q] \notin QR!ListMethods /\ QR!AllReplied(q) /\ ~ QR!Backed(q)
        BY <1>1, <3>1, <4>2, SamePredicates, SameOperators
      <4>. QED  BY <3>3, <3>7, <4>3, SameOperators DEF QR!Warranted
    <3>8. CASE a = Err("TimeOut")
      BY <3>3, <3>8, SameOperators DEF QR!Warranted
    <3>. QED  BY <3>1, <3>2, <3>4, <3>5, <3>6, <3>7, <3>8
  <2>4. Status' = [Status EXCEPT ![q] = "done"]
    BY <1>1, <1>5, StatusStep
  <2>5. a \in {QR!Ok(v) : v \in ResultSets[kind[q]]}
              \cup {QR!Err(e) : e \in {"Internal", "Custom", "TimeOut"}}
    BY <1>1, <2>1, SamePredicates
  <2>. QED  BY <1>2, <1>5, <2>3, <2>4, <2>5 DEF QR!Give, QR!End
<1>. QED  BY <1>3, <1>4, <1>5

LEMMA RefinesLeave ==
    ASSUME TypeOK, NEW q \in Req, Disconnect(q)
    PROVE  QR!Leave(q)
<1>1. Status' = [Status EXCEPT ![q] = "gone"]
  BY StatusStep DEF Disconnect
<1>. QED  BY <1>1 DEF Disconnect, QR!Leave, Status, workerVars

LEMMA RefinesReply ==
    ASSUME TypeOK, TakenOnce, NEW w \in Rpc, task[w] # None,
           NEW res \in Reports(kind[task[w]]), SendBallot(w, res), UNCHANGED callerVars
    PROVE  QR!Reply(task[w], w)
<1>1. task[w] \in Req
  BY DEF TypeOK, WorkerTypeOK
<1>2. reported[task[w]][w] = Pending /\ pc[task[w]] # "idle"
  BY DEF TakenOnce
<1>3. Status[task[w]] # "idle" /\ UNCHANGED Status
  BY <1>1, <1>2 DEF Status, callerVars
<1>4. res \in {QR!Err("Internal")} \cup {QR!Ok(v) : v \in ReplySets[kind[task[w]]]}
  BY <1>1, SamePredicates, SameOperators DEF Reports, Failed
<1>. QED  BY <1>2, <1>3, <1>4, SameOperators DEF SendBallot, QR!Reply, callerVars

LEMMA RefinesStep ==
    ASSUME FullInv, FullInv', [Next]_vars
    PROVE  [QR!Next]_(QR!vars)
<1>1. TypeOK /\ TakenOnce
  BY DEF FullInv, IInv
<1>2. CASE UNCHANGED <<pc, kind, judge, reported, answer>>
  BY <1>2 DEF QR!vars, Status
<1>3. ASSUME NEW q \in Req, SendTask(q)
      PROVE  UNCHANGED QR!vars
  <2>1. Status' = [Status EXCEPT ![q] = "open"]
    BY <1>1, <1>3, StatusStep DEF SendTask
  <2>2. Status' = Status
    BY <1>3, <2>1 DEF SendTask, Status
  <2>. QED  BY <1>3, <2>2 DEF SendTask, QR!vars, workerVars
<1>4. ASSUME NEW w \in Rpc, task[w] # None, RpcCall(w)
      PROVE  [QR!Next]_(QR!vars)
  <2>1. CASE \E res \in Reports(kind[task[w]]) : SendBallot(w, res)
    <3>1. QR!Reply(task[w], w)
      BY <1>1, <1>4, <2>1, RpcCallCases, RefinesReply
    <3>2. task[w] \in Req
      BY <1>1, <1>4 DEF TypeOK, WorkerTypeOK
    <3>. QED  BY <3>1, <3>2 DEF QR!Next
  <2>2. CASE UNCHANGED <<inbox, next, task, reported>>
    <3>1. UNCHANGED <<pc, kind, judge, reported, answer>>
      BY <1>1, <1>4, <2>2, RpcCallCases DEF callerVars
    <3>. QED  BY <1>2, <3>1
  <2>. QED  BY <1>1, <1>4, <2>1, <2>2, RpcCallCases
<1>5. \A q \in Req : AskJudge(q) \/ Receive(q) \/ Disconnect(q) => QR!Next
  BY <1>1, RefinesAsk, RefinesGive, RefinesLeave DEF QR!Next
<1>6. /\ StartDispatcher \/ PollTimeout \/ Collect
         => UNCHANGED <<pc, kind, judge, reported, answer>>
      /\ \A w \in Rpc : WorkerLagged(w) \/ WorkerReceive(w)
                        => UNCHANGED <<pc, kind, judge, reported, answer>>
      /\ UNCHANGED vars => UNCHANGED <<pc, kind, judge, reported, answer>>
  BY DEF StartDispatcher, PollTimeout, Collect, WorkerLagged, WorkerReceive, vars, callerVars,
         workerVars
<1>. QED  BY <1>2, <1>3, <1>4, <1>5, <1>6, StepCases

\* The pipeline of dispatcher, workers and channels keeps the promise QuorumRead
\* makes to a caller (sol.rs:200-1578).
THEOREM QuorumReadIsImplemented == Spec => ImplementsQuorumRead
<1>1. FullInv /\ FullInv' /\ [Next]_vars => [QR!Next]_(QR!vars)
  BY RefinesStep
<1>. QED  BY <1>1, RefinesInit, FullInvariance, PTL DEF Spec, ImplementsQuorumRead, QR!Spec
=============================================================================
