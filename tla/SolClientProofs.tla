--------------------------- MODULE SolClientProofs ---------------------------
(***************************************************************************)
(* Theorems about the Solana quorum client, for any number of extra RPCs,  *)
(* requests, attempts and channel capacities.                              *)
(*                                                                         *)
(* AnswerBacked is not inductive.  IInv adds what links a caller's answer  *)
(* back to the RPCs: the event it received was computed from the replies   *)
(* of all RPCs (EventFaithful), because the ballots that were counted are  *)
(* the replies to the current task (BoxSound), because every worker takes  *)
(* every task once and so never alters what it has replied (TakenOnce).    *)
(***************************************************************************)
EXTENDS SolClient, SolQuorumProofs

\* What lies in the inner channel or in `res` was replied to the current task.
BoxSound ==
    /\ \A i \in DOMAIN inbox : reported[current][inbox[i].from] = inbox[i].res
    /\ \A b \in ballots : reported[current][b[2]] = Ok(b[1])

\* No RPC has two ballots there.
BoxOnce ==
    /\ \A i, j \in DOMAIN inbox : inbox[i].from = inbox[j].from => i = j
    /\ \A i \in DOMAIN inbox : \A b \in ballots : inbox[i].from # b[2]

IInv == /\ TypeOK
        /\ JudgeHeld
        /\ TakenOnce
        /\ BoxSound
        /\ BoxOnce
        /\ EventFaithful
        /\ AnswerBacked

USE RpcAssumption, KindAssumption, DataAssumption, NoneAssumption, CapAssumption,
    TimeAssumption

-----------------------------------------------------------------------------
(* Every step is one of these, whatever the kind of the request.           *)

LEMMA StepCases ==
    ASSUME [Next]_vars
    PROVE  \/ \E r \in Req : AskJudge(r) \/ SendTask(r) \/ Receive(r) \/ Disconnect(r)
           \/ StartDispatcher
           \/ current # None /\ Collect
           \/ PollTimeout
           \/ \E w \in Rpc : \/ WorkerLagged(w)
                             \/ WorkerReceive(w)
                             \/ task[w] # None /\ RpcCall(w)
           \/ UNCHANGED vars
  BY DEF Next, CallMethod, Deal, DoTask, Idle, GetTransaction, GetSlot, GetAccountInfo,
         GetSignaturesForAddress, GetProgramAccounts, DealGetTransaction, DealGetSlot,
         DealGetAccountInfo, DealGetSignaturesForAddress, DealGetProgramAccounts,
         ClientWorkerDoGetTransaction, ClientWorkerDoGetSlot, ClientWorkerDoGetAccount,
         ClientWorkerDoGetSignaturesForAddress, ClientWorkerDoGetProgramAccounts

-----------------------------------------------------------------------------
(* The decision functions and the verdicts stay within their types.        *)

LEMMA RpcCount == Cardinality(Rpc) \in Nat /\ Cardinality(Rpc) # 0
  BY FS_CardinalityType, FS_EmptySet

LEMMA CommonTyped ==
    ASSUME NEW bs, bs \subseteq Lists \X Rpc
    PROVE  Common(bs) \in SUBSET ListedItems
  BY DEF Common, Items, ListedItems

LEMMA PluralityTyped ==
    ASSUME NEW V, NEW bs, bs \subseteq V \X Rpc
    PROVE  Plurality(bs) \in {Err("Custom")} \cup {Ok(v) : v \in V}
<1>1. BallotValues(bs) \subseteq V
  BY DEF BallotValues
<1>2. CASE \E v \in BallotValues(bs) : Leaders(bs) = {v}
  <2>1. (CHOOSE v \in BallotValues(bs) : Leaders(bs) = {v}) \in V
    BY <1>1, <1>2
  <2>. QED  BY <1>2, <2>1 DEF Plurality
<1>3. CASE ~ \E v \in BallotValues(bs) : Leaders(bs) = {v}
  BY <1>3 DEF Plurality
<1>. QED  BY <1>2, <1>3

LEMMA DecideTyped ==
    ASSUME NEW k \in Kinds, NEW bs, bs \subseteq Replies(k) \X Rpc
    PROVE  Decide(k, bs) \in Outcomes(k)
<1>1. CASE k \in ScalarKinds
  <2>1. Decide(k, bs) = Plurality(bs)
    BY <1>1 DEF Decide, ScalarKinds, DealGetTransactionRes, DealGetSlotRes, DealGetAccountRes
  <2>2. k \notin ListKinds
    BY <1>1 DEF ScalarKinds, ListKinds
  <2>. QED  BY <2>1, <2>2, PluralityTyped DEF Outcomes
<1>2. CASE k \in ListKinds
  <2>1. Decide(k, bs) = Ok(Common(bs))
    BY <1>2 DEF Decide, ListKinds, DealGetSignaturesForAddressRes, DealGetProgramAccountsRes
  <2>2. Replies(k) = Lists
    BY <1>2 DEF Replies, ListKinds
  <2>. QED  BY <1>2, <2>1, <2>2, CommonTyped DEF Outcomes
<1>. QED  BY <1>1, <1>2

LEMMA VerdictTyped ==
    ASSUME NEW k \in Kinds, NEW j \in Replies(k), NEW v, Ok(v) \in Outcomes(k),
           k = "GetSignaturesForAddress" => j # <<>>
    PROVE  Verdict(k, j, v) \in Outcomes(k)
<1>1. CASE k = "GetSlot"
  BY <1>1 DEF Verdict, SlotVerdict, Outcomes, Replies, ListKinds
<1>2. CASE k \in {"GetTransaction", "GetAccountInfo"}
  BY <1>2 DEF Verdict, SameVerdict, Outcomes, Replies, ListKinds
<1>3. CASE k \in ListKinds
  <2>1. v \in SUBSET ListedItems
    BY <1>3 DEF Outcomes, Ok, Err
  <2>2. j \in Lists /\ j \in Seq(Range(j)) /\ Range(j) \subseteq ListedItems
    BY <1>3 DEF Replies, ListKinds, ListedItems
  <2>3. CASE k = "GetProgramAccounts"
    <3>1. SeenTwice(j, v) \in SUBSET ListedItems
      BY <2>1, <2>2 DEF SeenTwice
    <3>. QED  BY <2>3, <3>1 DEF Verdict, AccountsVerdict, Outcomes, ListKinds
  <2>4. CASE k = "GetSignaturesForAddress"
    <3>1. Head(j) \in ListedItems /\ Range(Tail(j)) \subseteq ListedItems
      BY <2>2, <2>4 DEF Range
    <3>2. {Head(j)} \cup SeenTwice(Tail(j), v) \in SUBSET ListedItems
      BY <2>1, <3>1 DEF SeenTwice
    <3>. QED  BY <2>4, <3>2 DEF Verdict, SignaturesVerdict, Outcomes, ListKinds
  <2>. QED  BY <1>3, <2>3, <2>4 DEF ListKinds
<1>. QED  BY <1>1, <1>2, <1>3 DEF ScalarKinds, ListKinds

-----------------------------------------------------------------------------
(* Type correctness, one lemma per action.                                  *)

LEMMA TypeInit == Init => TypeOK
  BY DEF Init, TypeOK, CallerTypeOK, DispatcherTypeOK, WorkerTypeOK, Pending, Replies

LEMMA TypeAskJudge ==
    ASSUME TypeOK, NEW r \in Req, AskJudge(r)
    PROVE  TypeOK'
<1>1. /\ Err("Custom") \in Outcomes(kind[r])
      /\ kind[r] = "GetSignaturesForAddress" => Ok({}) \in Outcomes(kind[r])
  BY DEF Outcomes, ListKinds
<1>2. CallerTypeOK'
  <2>1. CASE judge' = [judge EXCEPT ![r] = Err("Custom")] /\ Return(r, Err("Custom"))
    BY <1>1, <2>1 DEF TypeOK, CallerTypeOK, AskJudge, Return
  <2>2. ASSUME NEW v \in Replies(kind[r]),
               judge' = [judge EXCEPT ![r] = Ok(v)],
               kind[r] = "GetSignaturesForAddress" /\ Return(r, Ok({}))
        PROVE  CallerTypeOK'
    BY <1>1, <2>2 DEF TypeOK, CallerTypeOK, AskJudge, Return
  <2>3. ASSUME NEW v \in Replies(kind[r]),
               judge' = [judge EXCEPT ![r] = Ok(v)],
               pc' = [pc EXCEPT ![r] = "sending"] /\ UNCHANGED answer
        PROVE  CallerTypeOK'
    BY <2>3 DEF TypeOK, CallerTypeOK, AskJudge
  <2>. QED  BY <2>1, <2>2, <2>3 DEF AskJudge
<1>3. DispatcherTypeOK' /\ WorkerTypeOK'
  BY DEF TypeOK, DispatcherTypeOK, WorkerTypeOK, AskJudge, dispatcherVars, workerVars
<1>. QED  BY <1>2, <1>3 DEF TypeOK

LEMMA TypeSendTask ==
    ASSUME TypeOK, NEW r \in Req, SendTask(r)
    PROVE  TypeOK'
<1>1. CallerTypeOK'
  BY DEF TypeOK, CallerTypeOK, SendTask
<1>2. DispatcherTypeOK' /\ WorkerTypeOK'
  BY DEF TypeOK, DispatcherTypeOK, WorkerTypeOK, SendTask, HasRoom, dispatcherVars, workerVars
<1>. QED  BY <1>1, <1>2 DEF TypeOK

LEMMA ReceivedTyped ==
    ASSUME TypeOK, JudgeHeld, NEW r \in Req, pc[r] = "waiting", response[r] # <<>>
    PROVE  LET event == Head(response[r])
           IN  /\ event \in Events(kind[r]) /\ event.res \in Outcomes(kind[r])
               /\ event.res.tag = "ok" => event.res = Ok(event.res.val)
               /\ judge[r] = Ok(judge[r].val) /\ judge[r].val \in Replies(kind[r])
               /\ kind[r] = "GetSignaturesForAddress" => judge[r].val # <<>>
<1> DEFINE event == Head(response[r])
<1>1. event \in Events(kind[r])
  BY DEF TypeOK, CallerTypeOK
<1>2. event.res \in Outcomes(kind[r])
  BY <1>1 DEF Events
<1>3. event.res.tag = "ok" => event.res = Ok(event.res.val)
  BY <1>2 DEF Outcomes, Ok, Err
<1>4. PICK v \in Replies(kind[r]) : judge[r] = Ok(v)
  BY DEF TypeOK, CallerTypeOK, JudgeHeld, Pending, Err
<1>5. judge[r].val = v
  BY <1>4 DEF Ok
<1>6. kind[r] = "GetSignaturesForAddress" => v # <<>>
  BY <1>4 DEF JudgeHeld
<1>. QED  BY <1>1, <1>2, <1>3, <1>4, <1>5, <1>6

LEMMA TypeReceive ==
    ASSUME TypeOK, JudgeHeld, NEW r \in Req, Receive(r)
    PROVE  TypeOK'
<1> DEFINE event == Head(response[r])
           a == IF event.res.tag = "ok" THEN Verdict(kind[r], judge[r].val, event.res.val)
                ELSE event.res
<1>1. pc[r] = "waiting" /\ response[r] # <<>>
  BY DEF Receive
<1>2. a \in Outcomes(kind[r])
  BY <1>1, ReceivedTyped, VerdictTyped DEF TypeOK, CallerTypeOK
<1>3. /\ \/ pc' = [pc EXCEPT ![r] = "panicked"] /\ UNCHANGED answer
         \/ pc' = [pc EXCEPT ![r] = "done"] /\ answer' = [answer EXCEPT ![r] = a]
      /\ response' = [response EXCEPT ![r] = Tail(@)]
      /\ UNCHANGED <<kind, judge>>
  BY DEF Receive, Return
<1>4. Tail(response[r]) \in Seq(Events(kind[r])) /\ Len(Tail(response[r])) <= 1
  BY <1>1 DEF TypeOK, CallerTypeOK
<1>5. CallerTypeOK'
  <2> HIDE DEF a
  <2>. QED  BY <1>2, <1>3, <1>4 DEF TypeOK, CallerTypeOK
<1>6. DispatcherTypeOK' /\ WorkerTypeOK'
  BY DEF TypeOK, DispatcherTypeOK, WorkerTypeOK, Receive, dispatcherVars, workerVars
<1>. QED  BY <1>5, <1>6 DEF TypeOK

LEMMA TypeDisconnect ==
    ASSUME TypeOK, NEW r \in Req, Disconnect(r)
    PROVE  TypeOK'
<1>1. CallerTypeOK'
  BY DEF TypeOK, CallerTypeOK, Disconnect
<1>2. DispatcherTypeOK' /\ WorkerTypeOK'
  BY DEF TypeOK, DispatcherTypeOK, WorkerTypeOK, Disconnect, dispatcherVars, workerVars
<1>. QED  BY <1>1, <1>2 DEF TypeOK

LEMMA TypeStartDispatcher ==
    ASSUME TypeOK, StartDispatcher
    PROVE  TypeOK'
<1>1. CallerTypeOK'
  BY DEF TypeOK, CallerTypeOK, StartDispatcher, callerVars
<1>2. DispatcherTypeOK'
  <2>1. Head(taskQueue) \in Req /\ Tail(taskQueue) \in Seq(Req)
        /\ Len(Tail(taskQueue)) <= TaskCap
    BY DEF TypeOK, DispatcherTypeOK, StartDispatcher
  <2>2. broadcast' \in Seq(Req) /\ current' \in Req
    BY <2>1 DEF TypeOK, DispatcherTypeOK, StartDispatcher
  <2>. QED  BY <2>1, <2>2, RpcCount DEF DispatcherTypeOK, StartDispatcher
<1>3. WorkerTypeOK'
  <2>1. Len(broadcast') = Len(broadcast) + 1 /\ Len(broadcast) \in Nat
    BY DEF TypeOK, DispatcherTypeOK, StartDispatcher
  <2>. QED  BY <2>1 DEF TypeOK, WorkerTypeOK, StartDispatcher, workerVars, callerVars
<1>. QED  BY <1>1, <1>2, <1>3 DEF TypeOK

LEMMA TypeRespond ==
    ASSUME TypeOK, current # None,
           NEW k \in ScalarKinds \cup ListKinds, NEW res \in Outcomes(kind[current]),
           Respond(k, res),
           UNCHANGED <<callerVars, taskQueue, broadcast, workerVars>>
    PROVE  TypeOK'
<1> DEFINE event == [kind |-> k, res |-> res]
<1>1. event \in Events(kind[current]) /\ current \in Req
  BY DEF Events, TypeOK, DispatcherTypeOK
<1>2. /\ DOMAIN response' = Req
      /\ \A r \in Req : response'[r] \in Seq(Events(kind[r])) /\ Len(response'[r]) <= 1
  <2>1. CASE UNCHANGED response
    BY <2>1 DEF TypeOK, CallerTypeOK
  <2>2. CASE /\ Len(response[current]) < 1
             /\ response' = [response EXCEPT ![current] = Append(@, event)]
    <3>1. /\ Append(response[current], event) \in Seq(Events(kind[current]))
          /\ Len(Append(response[current], event)) <= 1
      BY <1>1, <2>2 DEF TypeOK, CallerTypeOK
    <3> HIDE DEF event
    <3>. QED  BY <1>1, <2>2, <3>1 DEF TypeOK, CallerTypeOK
  <2>. QED  BY <2>1, <2>2 DEF Respond, HasRoom
<1>3. CallerTypeOK'
  BY <1>2 DEF TypeOK, CallerTypeOK, callerVars
<1>4. DispatcherTypeOK'
  BY DEF TypeOK, DispatcherTypeOK, Respond
<1>5. WorkerTypeOK'
  BY DEF TypeOK, WorkerTypeOK, workerVars, callerVars
<1>. QED  BY <1>3, <1>4, <1>5 DEF TypeOK

\* The ballot at the head of the inner channel.
LEMMA LetterTyped ==
    ASSUME TypeOK, current # None, inbox # <<>>, Head(inbox).res.tag # "err"
    PROVE  /\ Head(inbox).from \in Rpc
           /\ Head(inbox).res = Ok(Head(inbox).res.val)
           /\ Head(inbox).res.val \in Replies(kind[current])
<1>1. Head(inbox) \in Letters(kind[current])
  BY DEF TypeOK, DispatcherTypeOK
<1>2. Head(inbox).from \in Rpc /\ Head(inbox).res \in Reports(kind[current])
  BY <1>1 DEF Letters
<1>3. Head(inbox).res # Failed
  BY DEF Failed, Err
<1>4. PICK v \in Replies(kind[current]) : Head(inbox).res = Ok(v)
  BY <1>2, <1>3 DEF Reports
<1>. QED  BY <1>2, <1>4 DEF Ok

LEMMA CastTyped ==
    ASSUME TypeOK, current # None, inbox # <<>>, Head(inbox).res.tag # "err"
    PROVE  Cast(kind[current], Head(inbox).res.val, Head(inbox).from)
             \subseteq Replies(kind[current]) \X Rpc
  BY LetterTyped DEF TypeOK, DispatcherTypeOK, Cast

\* A step of Collect either ends with an event or keeps collecting.
LEMMA CollectCases ==
    ASSUME TypeOK, current # None, Collect
    PROVE  LET k == kind[current]
               letter == Head(inbox)
               bs == Cast(k, letter.res.val, letter.from)
           IN  /\ inbox # <<>>
               /\ UNCHANGED <<callerVars, taskQueue, broadcast, workerVars>>
               /\ \/ letter.res.tag = "err" /\ Respond(ErrorEvent(k), Failed)
                  \/ letter.res.tag # "err" /\ Complete(bs) /\ Respond(k, Decide(k, bs))
                  \/ letter.res.tag # "err" /\ Respond(k, Err("TimeOut"))
                  \/ /\ letter.res.tag # "err"
                     /\ ballots' = bs /\ inbox' = Tail(inbox)
                     /\ waited' \in 0 .. Horizon
                     /\ UNCHANGED <<current, response>>
  BY DEF Collect, Later, TypeOK, DispatcherTypeOK

LEMMA TypeCollect ==
    ASSUME TypeOK, current # None, Collect
    PROVE  TypeOK'
<1> DEFINE k == kind[current]
           letter == Head(inbox)
           bs == Cast(k, letter.res.val, letter.from)
<1>1. k \in Kinds /\ k \in ScalarKinds \cup ListKinds /\ ErrorEvent(k) \in ScalarKinds \cup ListKinds
  BY DEF TypeOK, CallerTypeOK, DispatcherTypeOK, ErrorEvent, ScalarKinds
<1>2. /\ Failed \in Outcomes(k) /\ Err("TimeOut") \in Outcomes(k)
      /\ letter.res.tag # "err" => Decide(k, bs) \in Outcomes(k)
  BY <1>1, CollectCases, CastTyped, DecideTyped DEF Failed, Outcomes
<1>3. CASE letter.res.tag = "err" /\ Respond(ErrorEvent(k), Failed)
  BY <1>1, <1>2, <1>3, CollectCases, TypeRespond
<1>4. CASE letter.res.tag # "err" /\ Complete(bs) /\ Respond(k, Decide(k, bs))
  BY <1>1, <1>2, <1>4, CollectCases, TypeRespond
<1>5. CASE letter.res.tag # "err" /\ Respond(k, Err("TimeOut"))
  BY <1>1, <1>2, <1>5, CollectCases, TypeRespond
<1>6. CASE /\ letter.res.tag # "err"
           /\ ballots' = bs /\ inbox' = Tail(inbox)
           /\ waited' \in 0 .. Horizon
           /\ UNCHANGED <<current, response>>
  <2>1. bs \subseteq Replies(k) \X Rpc
    BY <1>6, CollectCases, CastTyped
  <2>2. Tail(inbox) \in Seq(Letters(k)) /\ Len(Tail(inbox)) <= Cardinality(Rpc)
    BY CollectCases, RpcCount DEF TypeOK, DispatcherTypeOK
  <2>3. UNCHANGED <<callerVars, taskQueue, broadcast, workerVars>>
    BY CollectCases
  <2> HIDE DEF bs
  <2>4. CallerTypeOK' /\ WorkerTypeOK'
    BY <1>6, <2>3 DEF TypeOK, CallerTypeOK, WorkerTypeOK, callerVars, workerVars
  <2>5. DispatcherTypeOK'
    BY <1>6, <2>1, <2>2, <2>3 DEF TypeOK, DispatcherTypeOK, callerVars
  <2>. QED  BY <2>4, <2>5 DEF TypeOK
<1>. QED  BY <1>3, <1>4, <1>5, <1>6, CollectCases

LEMMA TypePollTimeout ==
    ASSUME TypeOK, PollTimeout
    PROVE  TypeOK'
  BY DEF TypeOK, CallerTypeOK, DispatcherTypeOK, WorkerTypeOK, PollTimeout, Later,
         callerVars, workerVars

\* A worker's step leaves the callers alone, and is seen by the dispatcher only in
\* the inner channel.
LEMMA TypeWorkerStep ==
    ASSUME TypeOK, UNCHANGED <<callerVars, response, taskQueue, dispatcherVars, broadcast>>
    PROVE  CallerTypeOK' /\ (inbox' = inbox => DispatcherTypeOK')
  BY DEF TypeOK, CallerTypeOK, DispatcherTypeOK, callerVars, dispatcherVars

LEMMA TypeWorkerLagged ==
    ASSUME TypeOK, NEW w \in Rpc, WorkerLagged(w)
    PROVE  TypeOK'
<1>1. Oldest \in 1 .. Len(broadcast) + 1 /\ Oldest \in Nat
  BY DEF TypeOK, DispatcherTypeOK, Oldest
<1>2. WorkerTypeOK'
  BY <1>1 DEF TypeOK, WorkerTypeOK, WorkerLagged, ResumeAt, callerVars
<1>. QED  BY <1>2, TypeWorkerStep DEF TypeOK, WorkerLagged

LEMMA ReceivedTask ==
    ASSUME TypeOK, NEW w \in Rpc, WorkerReceive(w)
    PROVE  next[w] \in DOMAIN broadcast /\ next[w] <= Len(broadcast) /\ broadcast[next[w]] \in Req
  BY DEF TypeOK, DispatcherTypeOK, WorkerTypeOK, WorkerReceive, Oldest

LEMMA TypeWorkerReceive ==
    ASSUME TypeOK, NEW w \in Rpc, WorkerReceive(w)
    PROVE  TypeOK'
<1>0. next[w] \in DOMAIN broadcast /\ next[w] <= Len(broadcast) /\ broadcast[next[w]] \in Req
  BY ReceivedTask
<1>1. next[w] + 1 \in 1 .. Len(broadcast) + 1 /\ next[w] + 1 \in Nat
  BY <1>0 DEF TypeOK, DispatcherTypeOK, WorkerTypeOK
<1>2. WorkerTypeOK'
  <2>1. UNCHANGED <<kind, broadcast, reported>>
    BY DEF WorkerReceive, callerVars
  <2>2. next' \in [Rpc -> Nat] /\ \A x \in Rpc : next'[x] \in 1 .. Len(broadcast) + 1
    BY <1>1 DEF TypeOK, WorkerTypeOK, WorkerReceive
  <2>3. task' \in [Rpc -> Req \cup {None}] /\ attempts' \in [Rpc -> 0 .. MaxAttempts - 1]
    BY <1>0 DEF TypeOK, WorkerTypeOK, WorkerReceive
  <2>. QED  BY <2>1, <2>2, <2>3 DEF TypeOK, WorkerTypeOK
<1>. QED  BY <1>2, TypeWorkerStep DEF TypeOK, WorkerReceive

LEMMA TypeSendBallot ==
    ASSUME TypeOK, NEW w \in Rpc, task[w] # None,
           NEW res \in Reports(kind[task[w]]), SendBallot(w, res),
           UNCHANGED <<callerVars, response, taskQueue, dispatcherVars, broadcast>>
    PROVE  TypeOK'
<1>1. task[w] \in Req
  BY DEF TypeOK, WorkerTypeOK
<1>2. DispatcherTypeOK'
  <2>1. CASE task[w] = current
    <3> DEFINE letter == [from |-> w, res |-> res]
    <3>1. letter \in Letters(kind[current])
      BY <2>1 DEF Letters
    <3>2. Len(inbox) < Cardinality(Rpc) /\ inbox' = Append(inbox, letter)
      BY <2>1 DEF SendBallot, ReceiverOpen, HasRoom
    <3>3. inbox' \in Seq(Letters(kind[current])) /\ Len(inbox') <= Cardinality(Rpc)
      <4> HIDE DEF letter
      <4>. QED  BY <2>1, <1>1, <3>1, <3>2, RpcCount DEF TypeOK, DispatcherTypeOK
    <3>. QED  BY <1>1, <2>1, <3>3 DEF TypeOK, DispatcherTypeOK, callerVars, dispatcherVars
  <2>2. CASE task[w] # current
    BY <2>2, TypeWorkerStep DEF SendBallot, ReceiverOpen
  <2>. QED  BY <2>1, <2>2
<1>3. WorkerTypeOK'
  BY <1>1 DEF TypeOK, WorkerTypeOK, SendBallot, callerVars
<1>. QED  BY <1>2, <1>3, TypeWorkerStep DEF TypeOK

LEMMA RpcCallCases ==
    ASSUME TypeOK, NEW w \in Rpc, task[w] # None, RpcCall(w)
    PROVE  /\ UNCHANGED <<callerVars, response, taskQueue, dispatcherVars, broadcast>>
           /\ \/ \E res \in Reports(kind[task[w]]) : SendBallot(w, res)
              \/ /\ attempts' = [attempts EXCEPT ![w] = @ + 1] /\ attempts[w] + 1 < MaxAttempts
                 /\ UNCHANGED <<inbox, next, task, reported>>
  BY DEF RpcCall, Reports

LEMMA TypeRpcCall ==
    ASSUME TypeOK, NEW w \in Rpc, task[w] # None, RpcCall(w)
    PROVE  TypeOK'
<1>1. CASE \E res \in Reports(kind[task[w]]) : SendBallot(w, res)
  BY <1>1, RpcCallCases, TypeSendBallot
<1>2. CASE /\ attempts' = [attempts EXCEPT ![w] = @ + 1] /\ attempts[w] + 1 < MaxAttempts
           /\ UNCHANGED <<inbox, next, task, reported>>
  <2>1. WorkerTypeOK'
    <3>1. UNCHANGED <<kind, broadcast, next, task, reported>>
      BY <1>2, RpcCallCases DEF callerVars
    <3>2. attempts' \in [Rpc -> 0 .. MaxAttempts - 1]
      BY <1>2 DEF TypeOK, WorkerTypeOK
    <3>. QED  BY <3>1, <3>2 DEF TypeOK, WorkerTypeOK
  <2>. QED  BY <1>2, <2>1, RpcCallCases, TypeWorkerStep DEF TypeOK
<1>. QED  BY <1>1, <1>2, RpcCallCases

LEMMA TypeStep ==
    ASSUME TypeOK, JudgeHeld, [Next]_vars
    PROVE  TypeOK'
<1>1. CASE UNCHANGED vars
  BY <1>1 DEF vars, TypeOK, CallerTypeOK, DispatcherTypeOK, WorkerTypeOK
<1>. QED  BY <1>1, StepCases, TypeAskJudge, TypeSendTask, TypeReceive, TypeDisconnect,
             TypeStartDispatcher, TypeCollect, TypePollTimeout, TypeWorkerLagged,
             TypeWorkerReceive, TypeRpcCall

LEMMA JudgeHeldStep ==
    ASSUME TypeOK, JudgeHeld, [Next]_vars
    PROVE  JudgeHeld'
<1>1. ASSUME NEW r \in Req, AskJudge(r)
      PROVE  JudgeHeld'
  <2>1. UNCHANGED kind
    BY <1>1 DEF AskJudge
  <2>2. CASE judge' = [judge EXCEPT ![r] = Err("Custom")] /\ Return(r, Err("Custom"))
    BY <2>1, <2>2 DEF TypeOK, CallerTypeOK, JudgeHeld, Return
  <2>3. ASSUME NEW v \in Replies(kind[r]),
               judge' = [judge EXCEPT ![r] = Ok(v)],
               kind[r] = "GetSignaturesForAddress" /\ Return(r, Ok({}))
        PROVE  JudgeHeld'
    BY <2>1, <2>3 DEF TypeOK, CallerTypeOK, JudgeHeld, Return
  <2>4. ASSUME NEW v \in Replies(kind[r]),
               judge' = [judge EXCEPT ![r] = Ok(v)],
               ~ (kind[r] = "GetSignaturesForAddress" /\ v = <<>>),
               pc' = [pc EXCEPT ![r] = "sending"]
        PROVE  JudgeHeld'
    <3>1. Ok(v).tag = "ok" /\ (Ok(v) = Ok(<<>>) => v = <<>>)
      BY DEF Ok
    <3>. QED  BY <2>1, <2>4, <3>1 DEF TypeOK, CallerTypeOK, JudgeHeld
  <2>. QED  BY <1>1, <2>2, <2>3, <2>4 DEF AskJudge
<1>2. ASSUME NEW r \in Req, SendTask(r) \/ Receive(r) \/ Disconnect(r)
      PROVE  JudgeHeld'
  BY <1>2 DEF TypeOK, CallerTypeOK, JudgeHeld, SendTask, Receive, Disconnect, Return
<1>3. CASE UNCHANGED callerVars
  BY <1>3 DEF callerVars, JudgeHeld
<1>4. CASE UNCHANGED vars
  BY <1>4 DEF vars, JudgeHeld
<1>5. StartDispatcher \/ PollTimeout => UNCHANGED callerVars
  BY DEF StartDispatcher, PollTimeout
<1>6. current # None /\ Collect => UNCHANGED callerVars
  BY DEF Collect
<1>7. \A w \in Rpc : WorkerLagged(w) \/ WorkerReceive(w) \/ RpcCall(w) => UNCHANGED callerVars
  BY DEF WorkerLagged, WorkerReceive, RpcCall
<1>. QED  BY <1>1, <1>2, <1>3, <1>4, <1>5, <1>6, <1>7, StepCases

-----------------------------------------------------------------------------
(* What an RPC has replied is final.                                        *)

LEMMA ReportFinal ==
    ASSUME TypeOK, TakenOnce, [Next]_vars, NEW r \in Req
    PROVE  /\ \A w \in Rpc : reported[r][w] # Pending => reported'[r][w] = reported[r][w]
           /\ AllReplied(reported[r]) => reported'[r] = reported[r]
<1>1. CASE UNCHANGED reported
  BY <1>1
<1>2. ASSUME NEW x \in Rpc, task[x] # None, RpcCall(x), ~ UNCHANGED reported
      PROVE  /\ \A w \in Rpc : reported[r][w] # Pending => reported'[r][w] = reported[r][w]
             /\ AllReplied(reported[r]) => reported'[r] = reported[r]
  <2>1. PICK res \in Reports(kind[task[x]]) : SendBallot(x, res)
    BY <1>2, RpcCallCases
  <2>2. reported' = [reported EXCEPT ![task[x]][x] = res] /\ task[x] \in Req
    BY <1>2, <2>1 DEF SendBallot, TypeOK, WorkerTypeOK
  <2>3. reported[task[x]][x] = Pending /\ DOMAIN reported = Req /\ DOMAIN reported[r] = Rpc
    BY <1>2 DEF TakenOnce, TypeOK, WorkerTypeOK
  <2>4. task[x] = r => ~ AllReplied(reported[r])
    BY <2>3 DEF AllReplied, Pending
  <2>. QED  BY <2>2, <2>3, <2>4
<1>3. \/ UNCHANGED reported
      \/ \E x \in Rpc : task[x] # None /\ RpcCall(x)
  <2>1. \A q \in Req : AskJudge(q) \/ SendTask(q) \/ Receive(q) \/ Disconnect(q)
                       => UNCHANGED reported
    BY DEF AskJudge, SendTask, Receive, Disconnect, workerVars
  <2>2. StartDispatcher \/ PollTimeout \/ Collect => UNCHANGED reported
    BY DEF StartDispatcher, PollTimeout, Collect, workerVars
  <2>3. \A w \in Rpc : WorkerLagged(w) \/ WorkerReceive(w) => UNCHANGED reported
    BY DEF WorkerLagged, WorkerReceive
  <2>4. UNCHANGED vars => UNCHANGED reported
    BY DEF vars
  <2>. QED  BY <2>1, <2>2, <2>3, <2>4, StepCases
<1>. QED  BY <1>1, <1>2, <1>3

-----------------------------------------------------------------------------
(* Every worker takes every task once.                                      *)

LEMMA TakenOnceInit == Init => TakenOnce
  BY DEF Init, TakenOnce

\* Steps that leave the queues, the workers and their reports alone, and send no
\* caller back to where it had not queued its task.
LEMMA TakenOnceQuiet ==
    ASSUME TypeOK, TakenOnce,
           UNCHANGED <<taskQueue, broadcast, workerVars>>,
           current' \in {current, None},
           \A r \in Req : pc[r] \notin {"idle", "sending"} => pc'[r] \notin {"idle", "sending"}
    PROVE  TakenOnce'
<1>1. /\ \A i \in DOMAIN taskQueue : taskQueue[i] \in Req
      /\ \A i \in DOMAIN broadcast : broadcast[i] \in Req
  BY DEF TypeOK, DispatcherTypeOK
<1>. QED  BY <1>1 DEF TakenOnce, workerVars

LEMMA TakenOnceSendTask ==
    ASSUME TypeOK, TakenOnce, NEW r \in Req, SendTask(r)
    PROVE  TakenOnce'
<1>1. taskQueue \in Seq(Req) /\ broadcast \in Seq(Req)
  BY DEF TypeOK, DispatcherTypeOK
<1>2. /\ \A i \in DOMAIN taskQueue : taskQueue[i] # r
      /\ \A i \in DOMAIN broadcast : broadcast[i] # r
  BY DEF TakenOnce, SendTask
<1>3. taskQueue' = Append(taskQueue, r)
  BY DEF SendTask
<1>4. /\ DOMAIN taskQueue' = 1 .. Len(taskQueue) + 1
      /\ \A i \in DOMAIN taskQueue : taskQueue'[i] = taskQueue[i]
      /\ taskQueue'[Len(taskQueue) + 1] = r
      /\ DOMAIN taskQueue = 1 .. Len(taskQueue) /\ Len(taskQueue) \in Nat
  BY <1>1, <1>3
<1>5. \A i \in DOMAIN taskQueue' :
        \/ i \in DOMAIN taskQueue
        \/ taskQueue'[i] = r /\ i = Len(taskQueue) + 1
  <2>1. \A n \in Nat : \A i \in 1 .. n + 1 : i \in 1 .. n \/ i = n + 1
    OBVIOUS
  <2> DEFINE n == Len(taskQueue)
  <2>2. /\ n \in Nat /\ DOMAIN taskQueue' = 1 .. n + 1 /\ DOMAIN taskQueue = 1 .. n
        /\ taskQueue'[n + 1] = r
    BY <1>4
  <2> HIDE DEF n
  <2>3. \A i \in DOMAIN taskQueue' : i \in DOMAIN taskQueue \/ i = n + 1
    BY <2>1, <2>2
  <2>4. \A i \in DOMAIN taskQueue' :
          \/ i \in DOMAIN taskQueue
          \/ taskQueue'[i] = r /\ i = n + 1
    <3>1. taskQueue'[n + 1] = r
      BY <2>2
    <3>. QED  BY <2>3, <3>1
  <2>. QED  BY <2>4 DEF n
<1>6. pc' = [pc EXCEPT ![r] = "waiting"] /\ UNCHANGED <<broadcast, current, next, task, reported>>
  BY DEF SendTask, dispatcherVars, workerVars
<1>7. /\ \A i, j \in DOMAIN taskQueue' : taskQueue'[i] = taskQueue'[j] => i = j
      /\ \A i \in DOMAIN taskQueue', j \in DOMAIN broadcast : taskQueue'[i] # broadcast[j]
  BY <1>2, <1>4, <1>5 DEF TakenOnce
<1>8. /\ \A i \in DOMAIN taskQueue' : pc'[taskQueue'[i]] \notin {"idle", "sending"}
      /\ \A i \in DOMAIN broadcast : pc'[broadcast[i]] \notin {"idle", "sending"}
  <2>1. \A q \in Req : pc'[q] = IF q = r THEN "waiting" ELSE pc[q]
    BY <1>6 DEF TypeOK, CallerTypeOK
  <2>2. /\ \A i \in DOMAIN taskQueue : taskQueue[i] \in Req
        /\ \A i \in DOMAIN broadcast : broadcast[i] \in Req
    BY <1>1
  <2>. QED  BY <1>4, <1>5, <2>1, <2>2 DEF TakenOnce
<1>. QED  BY <1>6, <1>7, <1>8 DEF TakenOnce

LEMMA TakenOnceStartDispatcher ==
    ASSUME TypeOK, TakenOnce, StartDispatcher
    PROVE  TakenOnce'
<1> DEFINE r == Head(taskQueue)
           n == Len(broadcast)
<1>1. taskQueue \in Seq(Req) /\ broadcast \in Seq(Req) /\ taskQueue # <<>> /\ n \in Nat
  BY DEF TypeOK, DispatcherTypeOK, StartDispatcher
<1>2. /\ taskQueue' = Tail(taskQueue) /\ broadcast' = Append(broadcast, r) /\ current' = r
      /\ UNCHANGED <<pc, next, task, reported>>
  BY DEF StartDispatcher, callerVars, workerVars
<1>3. 1 \in DOMAIN taskQueue /\ r = taskQueue[1] /\ r \in Req
  BY <1>1
<1>4. \A i \in DOMAIN taskQueue' :
        i + 1 \in DOMAIN taskQueue /\ i + 1 # 1 /\ taskQueue'[i] = taskQueue[i + 1] /\ i \in Nat
  BY <1>1, <1>2
<1>5. /\ DOMAIN broadcast' = 1 .. n + 1 /\ DOMAIN broadcast = 1 .. n
      /\ \A i \in DOMAIN broadcast : broadcast'[i] = broadcast[i]
      /\ broadcast'[n + 1] = r
      /\ broadcast' # <<>> /\ Len(broadcast') = n + 1
  BY <1>1, <1>2, <1>3
<1>6. \A i \in DOMAIN broadcast' : i \in DOMAIN broadcast \/ i = n + 1
  BY <1>1, <1>5
<1>7. n + 1 \notin DOMAIN broadcast /\ n + 1 \in DOMAIN broadcast'
      /\ \A i \in DOMAIN broadcast : i \in DOMAIN broadcast'
  BY <1>1, <1>5
<1>8. \A i \in DOMAIN broadcast : broadcast[i] # r
  BY <1>3 DEF TakenOnce
<1> HIDE DEF r, n
<1>9. /\ \A i, j \in DOMAIN broadcast' : broadcast'[i] = broadcast'[j] => i = j
      /\ \A i, j \in DOMAIN taskQueue' : taskQueue'[i] = taskQueue'[j] => i = j
      /\ \A i \in DOMAIN taskQueue', j \in DOMAIN broadcast' : taskQueue'[i] # broadcast'[j]
  <2>1. \A i, j \in DOMAIN broadcast' : broadcast'[i] = broadcast'[j] => i = j
    BY <1>5, <1>6, <1>8 DEF TakenOnce
  <2>2. \A i, j \in DOMAIN taskQueue' : taskQueue'[i] = taskQueue'[j] => i = j
    <3>1. \A i, j \in DOMAIN taskQueue' : taskQueue'[i] = taskQueue'[j] => i + 1 = j + 1
      BY <1>4 DEF TakenOnce
    <3>. QED  BY <1>4, <3>1
  <2>3. \A i \in DOMAIN taskQueue', j \in DOMAIN broadcast' : taskQueue'[i] # broadcast'[j]
    <3>1. \A i \in DOMAIN taskQueue' : taskQueue'[i] # r
      BY <1>3, <1>4 DEF TakenOnce
    <3>2. \A i \in DOMAIN taskQueue', j \in DOMAIN broadcast : taskQueue'[i] # broadcast[j]
      BY <1>4 DEF TakenOnce
    <3>. QED  BY <1>5, <1>6, <3>1, <3>2
  <2>. QED  BY <2>1, <2>2, <2>3
<1>10. /\ \A i \in DOMAIN taskQueue' : pc[taskQueue'[i]] \notin {"idle", "sending"}
       /\ \A i \in DOMAIN broadcast' : pc[broadcast'[i]] \notin {"idle", "sending"}
  BY <1>3, <1>4, <1>5, <1>6 DEF TakenOnce
<1>11. ASSUME NEW w \in Rpc
       PROVE  /\ \A i \in DOMAIN broadcast' :
                   i >= next[w] => reported[broadcast'[i]][w] = Pending /\ task[w] # broadcast'[i]
              /\ task[w] # None => /\ reported[task[w]][w] = Pending
                                   /\ \E i \in DOMAIN broadcast' : broadcast'[i] = task[w]
              /\ \A q \in Req : reported[q][w] # Pending
                                => \E i \in DOMAIN broadcast' : broadcast'[i] = q
  <2>1. reported[r][w] = Pending
    BY <1>3, <1>8 DEF TakenOnce
  <2>2. task[w] # r
    BY <1>3, <1>8, NoneAssumption DEF TakenOnce
  <2>3. \A i \in DOMAIN broadcast' :
          i >= next[w] => reported[broadcast'[i]][w] = Pending /\ task[w] # broadcast'[i]
    BY <1>5, <1>6, <2>1, <2>2 DEF TakenOnce
  <2>4. \A q : (\E i \in DOMAIN broadcast : broadcast[i] = q)
               => \E i \in DOMAIN broadcast' : broadcast'[i] = q
    BY <1>5, <1>7
  <2>. QED  BY <2>3, <2>4 DEF TakenOnce
<1>. QED  BY <1>2, <1>5, <1>9, <1>10, <1>11 DEF TakenOnce

LEMMA TakenOnceWorkerLagged ==
    ASSUME TypeOK, TakenOnce, NEW x \in Rpc, WorkerLagged(x)
    PROVE  TakenOnce'
<1>1. UNCHANGED <<pc, taskQueue, current, broadcast, task, reported>>
  BY DEF WorkerLagged, callerVars, dispatcherVars
<1>2. broadcast \in Seq(Req) /\ Oldest \in Nat /\ next \in [Rpc -> Nat]
  BY DEF TypeOK, DispatcherTypeOK, WorkerTypeOK, Oldest
<1>3. \A w \in Rpc : next[w] <= next'[w]
  BY <1>2 DEF WorkerLagged, ResumeAt
<1>4. next' \in [Rpc -> Nat]
  BY <1>2 DEF WorkerLagged, ResumeAt
<1>5. \A w \in Rpc : \A i \in DOMAIN broadcast : i >= next'[w] => i >= next[w]
  BY <1>2, <1>3, <1>4
<1>. QED  BY <1>1, <1>5 DEF TakenOnce

LEMMA TakenOnceWorkerReceive ==
    ASSUME TypeOK, TakenOnce, NEW x \in Rpc, WorkerReceive(x)
    PROVE  TakenOnce'
<1> DEFINE r == broadcast[next[x]]
<1>1. UNCHANGED <<pc, taskQueue, current, broadcast, reported>>
  BY DEF WorkerReceive, callerVars, dispatcherVars
<1>2. next[x] \in DOMAIN broadcast /\ next[x] <= Len(broadcast) /\ r \in Req
  BY ReceivedTask
<1>3. /\ broadcast \in Seq(Req) /\ next \in [Rpc -> Nat] /\ task \in [Rpc -> Req \cup {None}]
      /\ task' = [task EXCEPT ![x] = r] /\ next' = [next EXCEPT ![x] = @ + 1]
  BY DEF TypeOK, DispatcherTypeOK, WorkerTypeOK, WorkerReceive
<1>4. reported[r][x] = Pending
  BY <1>2, <1>3 DEF TakenOnce
<1>5. \A i \in DOMAIN broadcast : i >= next'[x] => i >= next[x] /\ i # next[x]
  BY <1>3
<1>6. \A i \in DOMAIN broadcast :
        i >= next'[x] => reported[broadcast[i]][x] = Pending /\ broadcast[i] # r
  BY <1>2, <1>5 DEF TakenOnce
<1>7. \A w \in Rpc : w # x => task'[w] = task[w] /\ next'[w] = next[w]
  BY <1>3
<1>8. task'[x] = r
  BY <1>3
<1> HIDE DEF r
<1>9. ASSUME NEW w \in Rpc
      PROVE  /\ \A i \in DOMAIN broadcast :
                  i >= next'[w] => reported[broadcast[i]][w] = Pending /\ task'[w] # broadcast[i]
             /\ task'[w] # None => /\ reported[task'[w]][w] = Pending
                                   /\ \E i \in DOMAIN broadcast : broadcast[i] = task'[w]
  <2>1. CASE w = x
    BY <1>2, <1>4, <1>6, <1>8, <2>1 DEF r
  <2>2. CASE w # x
    BY <1>7, <2>2 DEF TakenOnce
  <2>. QED  BY <2>1, <2>2
<1>. QED  BY <1>1, <1>9 DEF TakenOnce

LEMMA TakenOnceSendBallot ==
    ASSUME TypeOK, TakenOnce, NEW x \in Rpc, task[x] # None, NEW res, SendBallot(x, res),
           UNCHANGED <<callerVars, response, taskQueue, dispatcherVars, broadcast>>
    PROVE  TakenOnce'
<1> DEFINE r == task[x]
<1>1. UNCHANGED <<pc, taskQueue, current, broadcast, next>>
  BY DEF SendBallot, callerVars, dispatcherVars
<1>2. /\ reported' = [reported EXCEPT ![r][x] = res] /\ task' = [task EXCEPT ![x] = None]
      /\ r \in Req /\ DOMAIN reported = Req /\ \A q \in Req : DOMAIN reported[q] = Rpc
      /\ task \in [Rpc -> Req \cup {None}]
  BY DEF TypeOK, WorkerTypeOK, SendBallot
<1>3. \A q \in Req, w \in Rpc : q # r \/ w # x => reported'[q][w] = reported[q][w]
  BY <1>2
<1>4. \A w \in Rpc : w # x => task'[w] = task[w]
  BY <1>2
<1>5. task'[x] = None
  BY <1>2
<1>6. \A i \in DOMAIN broadcast : broadcast[i] \in Req /\ (i >= next[x] => broadcast[i] # r)
  BY DEF TypeOK, DispatcherTypeOK, TakenOnce
<1>7. \E i \in DOMAIN broadcast : broadcast[i] = r
  BY DEF TakenOnce
<1> HIDE DEF r
<1>8. ASSUME NEW w \in Rpc
      PROVE  /\ \A i \in DOMAIN broadcast :
                  i >= next[w] => reported'[broadcast[i]][w] = Pending /\ task'[w] # broadcast[i]
             /\ task'[w] # None => /\ reported'[task'[w]][w] = Pending
                                   /\ \E i \in DOMAIN broadcast : broadcast[i] = task'[w]
             /\ \A q \in Req : reported'[q][w] # Pending
                               => \E i \in DOMAIN broadcast : broadcast[i] = q
  <2>1. CASE w = x
    <3>1. \A i \in DOMAIN broadcast :
            i >= next[w] => reported'[broadcast[i]][w] = Pending /\ task'[w] # broadcast[i]
      BY <1>3, <1>5, <1>6, <2>1, NoneAssumption DEF TakenOnce
    <3>2. \A q \in Req : reported'[q][w] # Pending => \E i \in DOMAIN broadcast : broadcast[i] = q
      BY <1>3, <1>7 DEF TakenOnce
    <3>. QED  BY <1>5, <2>1, <3>1, <3>2
  <2>2. CASE w # x
    <3>1. \A q \in Req : reported'[q][w] = reported[q][w]
      BY <1>3, <2>2
    <3>2. task'[w] = task[w] /\ (task[w] # None => task[w] \in Req)
      BY <1>2, <1>4, <2>2
    <3>. QED  BY <1>6, <3>1, <3>2 DEF TakenOnce
  <2>. QED  BY <2>1, <2>2
<1>. QED  BY <1>1, <1>8 DEF TakenOnce

LEMMA TakenOnceStep ==
    ASSUME TypeOK, TakenOnce, [Next]_vars
    PROVE  TakenOnce'
<1>1. ASSUME NEW r \in Req, AskJudge(r) \/ Receive(r) \/ Disconnect(r)
      PROVE  TakenOnce'
  <2>1. UNCHANGED <<taskQueue, broadcast, workerVars, current>>
    BY <1>1 DEF AskJudge, Receive, Disconnect, dispatcherVars
  <2>2. \A q \in Req : pc[q] \notin {"idle", "sending"} => pc'[q] \notin {"idle", "sending"}
    BY <1>1 DEF AskJudge, Receive, Disconnect, Return, TypeOK, CallerTypeOK
  <2>. QED  BY <2>1, <2>2, TakenOnceQuiet
<1>2. CASE current # None /\ Collect
  <2>1. UNCHANGED <<taskQueue, broadcast, workerVars, pc>> /\ current' \in {current, None}
    BY <1>2 DEF Collect, Respond, callerVars
  <2>. QED  BY <2>1, TakenOnceQuiet
<1>3. CASE PollTimeout
  BY <1>3, TakenOnceQuiet DEF PollTimeout, callerVars
<1>4. ASSUME NEW w \in Rpc, task[w] # None, RpcCall(w)
      PROVE  TakenOnce'
  <2>1. CASE \E res \in Reports(kind[task[w]]) : SendBallot(w, res)
    BY <1>4, <2>1, RpcCallCases, TakenOnceSendBallot
  <2>2. CASE UNCHANGED <<inbox, next, task, reported>>
    <3>1. UNCHANGED <<pc, taskQueue, current, broadcast, next, task, reported>>
      BY <1>4, <2>2, RpcCallCases DEF callerVars, dispatcherVars
    <3>. QED  BY <3>1 DEF TakenOnce
  <2>. QED  BY <1>4, <2>1, <2>2, RpcCallCases
<1>5. CASE UNCHANGED vars
  BY <1>5 DEF vars, TakenOnce
<1>. QED  BY <1>1, <1>2, <1>3, <1>4, <1>5, StepCases, TakenOnceSendTask,
             TakenOnceStartDispatcher, TakenOnceWorkerLagged, TakenOnceWorkerReceive

-----------------------------------------------------------------------------
(* The ballots that are counted are the replies to the current task.        *)

LEMMA BoxOfCurrent ==
    ASSUME TypeOK, BoxSound, current # None, inbox # <<>>, Head(inbox).res.tag # "err"
    PROVE  LET bs == Cast(kind[current], Head(inbox).res.val, Head(inbox).from)
               report == reported[current]
           IN  /\ \A b \in bs : b[2] \in Rpc /\ report[b[2]] = Ok(b[1])
               /\ Complete(bs) => AllReplied(report) /\ bs = BallotsOf(Rpc, report)
<1> DEFINE letter == Head(inbox)
           bs == Cast(kind[current], letter.res.val, letter.from)
           report == reported[current]
<1>1. inbox[1] = letter /\ 1 \in DOMAIN inbox
  BY DEF TypeOK, DispatcherTypeOK
<1>2. /\ letter.from \in Rpc /\ letter.res = Ok(letter.res.val)
      /\ report[letter.from] = letter.res
  BY <1>1, LetterTyped DEF BoxSound
<1>3. bs \subseteq Replies(kind[current]) \X Rpc
  BY CastTyped
<1>4. \A b \in bs : b \in ballots \/ b = <<letter.res.val, letter.from>>
  BY DEF Cast
<1>5. \A b \in bs : b[2] \in Rpc /\ report[b[2]] = Ok(b[1])
  BY <1>2, <1>3, <1>4 DEF BoxSound
<1>a. \A v : Ok(v).tag = "ok" /\ Ok(v).val = v
  BY DEF Ok
<1> HIDE DEF bs, report
<1>6. \A b, c \in bs : b[2] = c[2] => b = c
  <2>1. \A u, v : Ok(u) = Ok(v) => u = v
    BY DEF Ok
  <2>2. \A b, c \in bs : b[2] = c[2] => b[1] = c[1]
    BY <1>5, <2>1
  <2>. QED  BY <1>3, <2>2
<1>7. ASSUME Complete(bs)
      PROVE  AllReplied(report) /\ bs = BallotsOf(Rpc, report)
  <2>1. \A w \in Rpc : \E b \in bs : b[2] = w
    BY <1>5, <1>6, <1>7, FullBox DEF Complete
  <2>2. AllReplied(report)
    BY <1>5, <1>a, <2>1 DEF AllReplied
  <2>3. \A b \in bs : b = <<report[b[2]].val, b[2]>>
    BY <1>3, <1>5, <1>a
  <2>4. bs \subseteq BallotsOf(Rpc, report)
    <3>1. \A b \in bs : report[b[2]].tag = "ok"
      BY <1>5, <1>a
    <3>. QED  BY <1>5, <2>3, <3>1 DEF BallotsOf
  <2>5. BallotsOf(Rpc, report) \subseteq bs
    BY <2>1, <2>3 DEF BallotsOf
  <2>. QED  BY <2>2, <2>4, <2>5
<1>. QED  BY <1>5, <1>7 DEF bs, report

\* An RPC that has not replied to the current task has no ballot for it.
LEMMA Unheard ==
    ASSUME TypeOK, BoxSound, current \in Req, NEW w \in Rpc, reported[current][w] = Pending
    PROVE  /\ \A i \in DOMAIN inbox : inbox[i].from \in Rpc /\ inbox[i].from # w
           /\ \A b \in ballots : b[2] \in Rpc /\ b[2] # w
<1>1. current # None
  BY NoneAssumption
<1>2. \A i \in DOMAIN inbox : inbox[i] \in Letters(kind[current])
  BY <1>1 DEF TypeOK, DispatcherTypeOK
<1>3. \A i \in DOMAIN inbox : inbox[i].from \in Rpc /\ inbox[i].from # w
  BY <1>2 DEF BoxSound, Letters, Reports, Pending, Failed, Err, Ok
<1>4. \A v : Ok(v) # Pending
  BY DEF Ok, Pending
<1>5. \A b \in ballots : b[2] \in Rpc /\ reported[current][b[2]] = Ok(b[1])
  BY <1>1 DEF BoxSound, TypeOK, DispatcherTypeOK
<1>. QED  BY <1>3, <1>4, <1>5

LEMMA BoxSoundStep ==
    ASSUME TypeOK, TakenOnce, BoxSound, [Next]_vars
    PROVE  BoxSound'
\* Steps that leave the collector alone: what it holds has been reported, and is final.
<1>1. CASE UNCHANGED <<current, inbox, ballots>>
  <2>1. CASE current = None
    <3>1. inbox = <<>> /\ ballots = {} /\ DOMAIN <<>> = {}
      BY <2>1 DEF TypeOK, DispatcherTypeOK
    <3>. QED  BY <1>1, <3>1 DEF BoxSound
  <2>2. CASE current # None
    <3>1. current \in Req /\ inbox \in Seq(Letters(kind[current]))
      BY <2>2 DEF TypeOK, DispatcherTypeOK
    <3>2. \A i \in DOMAIN inbox : inbox[i].from \in Rpc /\ inbox[i].res # Pending
      <4>1. \A i \in DOMAIN inbox : inbox[i] \in Letters(kind[current])
        BY <3>1
      <4>. QED  BY <4>1 DEF Letters, Reports, Pending, Failed, Err, Ok
    <3>3. \A b \in ballots : b[2] \in Rpc /\ Ok(b[1]) # Pending
      BY <2>2 DEF TypeOK, DispatcherTypeOK, Ok, Pending
    <3>4. \A w \in Rpc : reported[current][w] # Pending
                         => reported'[current][w] = reported[current][w]
      BY <3>1, ReportFinal
    <3>. QED  BY <1>1, <3>2, <3>3, <3>4 DEF BoxSound
  <2>. QED  BY <2>1, <2>2
<1>2. CASE inbox' = <<>> /\ ballots' = {}
  BY <1>2 DEF BoxSound
<1>3. CASE current # None /\ Collect
  <2>1. CASE inbox' = <<>> /\ ballots' = {}
    BY <1>2, <2>1
  <2>2. CASE /\ Head(inbox).res.tag # "err"
             /\ ballots' = Cast(kind[current], Head(inbox).res.val, Head(inbox).from)
             /\ inbox' = Tail(inbox) /\ UNCHANGED <<current, response>>
    <3>1. UNCHANGED reported /\ inbox # <<>>
      BY <1>3, CollectCases DEF workerVars
    <3>2. \A i \in DOMAIN inbox' : i + 1 \in DOMAIN inbox /\ inbox'[i] = inbox[i + 1]
      BY <1>3, <2>2, <3>1 DEF TypeOK, DispatcherTypeOK
    <3>3. \A b \in ballots' : reported[current][b[2]] = Ok(b[1])
      BY <1>3, <2>2, <3>1, BoxOfCurrent
    <3>. QED  BY <2>2, <3>1, <3>2, <3>3 DEF BoxSound
  <2>. QED  BY <1>3, <2>1, <2>2, CollectCases DEF Respond
<1>4. ASSUME NEW w \in Rpc, task[w] # None, RpcCall(w), ~ UNCHANGED <<current, inbox, ballots>>
      PROVE  BoxSound'
  <2>1. PICK res \in Reports(kind[task[w]]) : SendBallot(w, res)
    BY <1>4, RpcCallCases DEF dispatcherVars
  <2>2. /\ task[w] = current /\ inbox' = Append(inbox, [from |-> w, res |-> res])
        /\ UNCHANGED <<current, ballots>> /\ current \in Req
    BY <1>4, <2>1, RpcCallCases DEF SendBallot, ReceiverOpen, dispatcherVars, TypeOK, WorkerTypeOK
  <2>3. inbox \in Seq(Letters(kind[current]))
    BY <1>4, <2>2 DEF TypeOK, DispatcherTypeOK
  <2>4. /\ reported'[current][w] = res
        /\ \A x \in Rpc : x # w => reported'[current][x] = reported[current][x]
        /\ reported[current][w] = Pending
    BY <1>4, <2>1, <2>2 DEF SendBallot, TypeOK, WorkerTypeOK, TakenOnce
  <2>5. /\ \A i \in DOMAIN inbox : inbox[i].from \in Rpc /\ inbox[i].from # w
        /\ \A b \in ballots : b[2] \in Rpc /\ b[2] # w
    BY <2>2, <2>4, Unheard
  <2>7. \A i \in DOMAIN inbox' : \/ i \in DOMAIN inbox /\ inbox'[i] = inbox[i]
                                 \/ inbox'[i] = [from |-> w, res |-> res]
    BY <2>2, <2>3
  <2>. QED  BY <2>2, <2>4, <2>5, <2>7 DEF BoxSound
<1>5. \A r \in Req : AskJudge(r) \/ SendTask(r) \/ Receive(r) \/ Disconnect(r)
                     => UNCHANGED <<current, inbox, ballots>>
  BY DEF AskJudge, SendTask, Receive, Disconnect, dispatcherVars
<1>6. \A w \in Rpc : WorkerLagged(w) \/ WorkerReceive(w) => UNCHANGED <<current, inbox, ballots>>
  BY DEF WorkerLagged, WorkerReceive, dispatcherVars
<1>7. /\ StartDispatcher => inbox' = <<>> /\ ballots' = {}
      /\ PollTimeout \/ UNCHANGED vars => UNCHANGED <<current, inbox, ballots>>
  BY DEF StartDispatcher, PollTimeout, vars
<1>. QED  BY <1>1, <1>2, <1>3, <1>4, <1>5, <1>6, <1>7, StepCases

LEMMA BoxOnceStep ==
    ASSUME TypeOK, TakenOnce, BoxSound, BoxOnce, [Next]_vars
    PROVE  BoxOnce'
<1>1. CASE UNCHANGED <<inbox, ballots>>
  BY <1>1 DEF BoxOnce
<1>2. CASE inbox' = <<>>
  BY <1>2 DEF BoxOnce
<1>3. CASE current # None /\ Collect
  <2>1. CASE Head(inbox).res.tag # "err"
             /\ ballots' = Cast(kind[current], Head(inbox).res.val, Head(inbox).from)
             /\ inbox' = Tail(inbox)
    <3>1. inbox # <<>> /\ inbox \in Seq(Letters(kind[current]))
      BY <1>3, CollectCases DEF TypeOK, DispatcherTypeOK
    <3>2. /\ inbox[1] = Head(inbox) /\ 1 \in DOMAIN inbox
          /\ \A i \in DOMAIN inbox' : /\ i \in Nat /\ i # 0
                                      /\ i + 1 \in DOMAIN inbox /\ inbox'[i] = inbox[i + 1]
      BY <2>1, <3>1
    <3>3. \A b \in ballots' : b \in ballots \/ b[2] = inbox[1].from
      BY <2>1, <3>2 DEF Cast
    <3>4. \A i, j \in DOMAIN inbox' : inbox'[i].from = inbox'[j].from => i = j
      BY <3>2 DEF BoxOnce
    <3>5. \A i \in DOMAIN inbox' : inbox'[i].from # inbox[1].from
      BY <3>2 DEF BoxOnce
    <3>6. \A i \in DOMAIN inbox' : \A b \in ballots : inbox'[i].from # b[2]
      BY <3>2 DEF BoxOnce
    <3>. QED  BY <3>3, <3>4, <3>5, <3>6 DEF BoxOnce
  <2>. QED  BY <1>2, <1>3, <2>1, CollectCases DEF Respond
<1>4. ASSUME NEW w \in Rpc, task[w] # None, RpcCall(w), ~ UNCHANGED <<inbox, ballots>>
      PROVE  BoxOnce'
  <2>1. PICK res \in Reports(kind[task[w]]) : SendBallot(w, res)
    BY <1>4, RpcCallCases DEF dispatcherVars
  <2>2. /\ task[w] = current /\ inbox' = Append(inbox, [from |-> w, res |-> res])
        /\ ballots' = ballots /\ current \in Req
    BY <1>4, <2>1, RpcCallCases DEF SendBallot, ReceiverOpen, dispatcherVars, TypeOK, WorkerTypeOK
  <2>3. inbox \in Seq(Letters(kind[current]))
    BY <1>4, <2>2 DEF TypeOK, DispatcherTypeOK
  <2>4. reported[current][w] = Pending
    BY <1>4, <2>2 DEF TakenOnce
  <2>5. /\ \A i \in DOMAIN inbox : inbox[i].from # w
        /\ \A b \in ballots : b[2] # w
    BY <2>2, <2>4, Unheard
  <2>6. \A i \in DOMAIN inbox' : \/ i \in DOMAIN inbox /\ inbox'[i] = inbox[i]
                                 \/ i = Len(inbox) + 1 /\ inbox'[i].from = w
    BY <2>2, <2>3
  <2>. QED  BY <2>2, <2>5, <2>6 DEF BoxOnce
<1>5. \A r \in Req : AskJudge(r) \/ SendTask(r) \/ Receive(r) \/ Disconnect(r)
                     => UNCHANGED <<inbox, ballots>>
  BY DEF AskJudge, SendTask, Receive, Disconnect, dispatcherVars
<1>6. \A w \in Rpc : WorkerLagged(w) \/ WorkerReceive(w) => UNCHANGED <<inbox, ballots>>
  BY DEF WorkerLagged, WorkerReceive, dispatcherVars
<1>7. /\ StartDispatcher => inbox' = <<>>
      /\ PollTimeout \/ UNCHANGED vars => UNCHANGED <<inbox, ballots>>
  BY DEF StartDispatcher, PollTimeout, vars
<1>. QED  BY <1>1, <1>2, <1>3, <1>4, <1>5, <1>6, <1>7, StepCases

-----------------------------------------------------------------------------
(* From the ballots to the event, and from the event to the answer.         *)

LEMMA EventFaithfulStep ==
    ASSUME TypeOK, TakenOnce, BoxSound, EventFaithful, [Next]_vars
    PROVE  EventFaithful'
\* Events that were already in a channel stay true: the replies are final.
<1>1. ASSUME UNCHANGED kind,
             \A r \in Req : \A i \in DOMAIN response'[r] :
                 \E j \in DOMAIN response[r] : response'[r][i] = response[r][j]
      PROVE  EventFaithful'
  <2> SUFFICES ASSUME NEW r \in Req, NEW i \in DOMAIN response'[r],
                      response'[r][i].res.tag = "ok"
               PROVE  /\ AllReplied(reported'[r])
                      /\ response'[r][i].res = Decide(kind[r], BallotsOf(Rpc, reported'[r]))
    BY <1>1 DEF EventFaithful
  <2>1. PICK j \in DOMAIN response[r] : response'[r][i] = response[r][j]
    BY <1>1
  <2>2. /\ AllReplied(reported[r])
        /\ response[r][j].res = Decide(kind[r], BallotsOf(Rpc, reported[r]))
    BY <2>1 DEF EventFaithful
  <2>3. reported'[r] = reported[r]
    BY <2>2, ReportFinal
  <2>. QED  BY <2>1, <2>2, <2>3
<1>2. CASE UNCHANGED <<kind, response>>
  BY <1>1, <1>2
<1>3. ASSUME NEW r \in Req, Receive(r) \/ Disconnect(r)
      PROVE  EventFaithful'
  <2>1. /\ UNCHANGED kind /\ DOMAIN response = Req
        /\ \/ response[r] # <<>> /\ response' = [response EXCEPT ![r] = Tail(@)]
           \/ response' = [response EXCEPT ![r] = <<>>]
    BY <1>3 DEF Receive, Disconnect, TypeOK, CallerTypeOK
  <2>2. \A q \in Req : q # r => response'[q] = response[q]
    BY <2>1
  <2>3. response[r] \in Seq(Events(kind[r])) /\ DOMAIN <<>> = {}
    BY DEF TypeOK, CallerTypeOK
  <2>4. \A i \in DOMAIN response'[r] : \E j \in DOMAIN response[r] : response'[r][i] = response[r][j]
    <3>1. CASE response[r] # <<>> /\ response' = [response EXCEPT ![r] = Tail(@)]
      <4>1. response'[r] = Tail(response[r])
        BY <2>1, <3>1
      <4>2. \A i \in DOMAIN Tail(response[r]) :
              i + 1 \in DOMAIN response[r] /\ Tail(response[r])[i] = response[r][i + 1]
        BY <2>3, <3>1
      <4>. QED  BY <4>1, <4>2
    <3>2. CASE response' = [response EXCEPT ![r] = <<>>]
      BY <2>1, <2>3, <3>2
    <3>. QED  BY <2>1, <3>1, <3>2
  <2>. QED  BY <1>1, <2>1, <2>2, <2>4
<1>4. CASE current # None /\ Collect
  <2> DEFINE k == kind[current]
             bs == Cast(k, Head(inbox).res.val, Head(inbox).from)
  <2>1. current \in Req /\ inbox # <<>> /\ UNCHANGED <<kind, reported>>
    BY <1>4, CollectCases DEF TypeOK, DispatcherTypeOK, callerVars, workerVars
  <2>2. ASSUME NEW e, NEW res, Respond(e, res),
               res.tag = "ok" => /\ AllReplied(reported[current])
                                 /\ res = Decide(k, BallotsOf(Rpc, reported[current]))
        PROVE  EventFaithful'
    <3>1. CASE UNCHANGED response
      BY <1>2, <2>1, <3>1
    <3>2. CASE response' = [response EXCEPT ![current] = Append(@, [kind |-> e, res |-> res])]
      <4> DEFINE event == [kind |-> e, res |-> res]
      <4>1. /\ response'[current] = Append(response[current], event)
            /\ \A q \in Req : q # current => response'[q] = response[q]
            /\ response[current] \in Seq(Events(k))
        BY <2>1, <3>2 DEF TypeOK, CallerTypeOK
      <4>2. event.res = res
        OBVIOUS
      <4> HIDE DEF event
      <4>3. \A i \in DOMAIN response'[current] :
              \/ i \in DOMAIN response[current] /\ response'[current][i] = response[current][i]
              \/ response'[current][i] = event
        BY <4>1
      <4>. QED  BY <2>1, <2>2, <4>1, <4>2, <4>3 DEF EventFaithful
    <3>. QED  BY <2>2, <3>1, <3>2 DEF Respond
  <2>3. Failed.tag # "ok" /\ Err("TimeOut").tag # "ok"
    BY DEF Failed, Err
  <2>4. Head(inbox).res.tag # "err" /\ Complete(bs)
        => /\ AllReplied(reported[current])
           /\ Decide(k, bs) = Decide(k, BallotsOf(Rpc, reported[current]))
    BY <1>4, <2>1, BoxOfCurrent
  <2>5. CASE Respond(ErrorEvent(k), Failed)
    BY <2>2, <2>3, <2>5
  <2>6. CASE Head(inbox).res.tag # "err" /\ Complete(bs) /\ Respond(k, Decide(k, bs))
    BY <2>2, <2>4, <2>6
  <2>7. CASE Respond(k, Err("TimeOut"))
    BY <2>2, <2>3, <2>7
  <2>8. CASE UNCHANGED response
    BY <1>2, <2>1, <2>8
  <2>. QED  BY <1>4, <2>5, <2>6, <2>7, <2>8, CollectCases
<1>5. \A r \in Req : AskJudge(r) \/ SendTask(r) => UNCHANGED <<kind, response>>
  BY DEF AskJudge, SendTask
<1>6. \A w \in Rpc : WorkerLagged(w) \/ WorkerReceive(w) \/ RpcCall(w) => UNCHANGED <<kind, response>>
  BY DEF WorkerLagged, WorkerReceive, RpcCall, callerVars
<1>7. StartDispatcher \/ PollTimeout \/ UNCHANGED vars => UNCHANGED <<kind, response>>
  BY DEF StartDispatcher, PollTimeout, vars, callerVars
<1>. QED  BY <1>2, <1>3, <1>4, <1>5, <1>6, <1>7, StepCases

LEMMA VerdictBacked ==
    ASSUME NEW k \in Kinds, k \in ScalarKinds, NEW j, NEW report,
           \A w \in Rpc : report[w].tag = "ok" => report[w] = Ok(report[w].val)
                                                  /\ report[w].val \in Replies(k),
           NEW res, res = Decide(k, BallotsOf(Rpc, report)), res.tag = "ok",
           Verdict(k, j, res.val).tag = "ok"
    PROVE  Verdict(k, j, res.val) = Ok(j) /\ Backs(k, report, j)
<1>1. res = Plurality(BallotsOf(Rpc, report))
  BY DEF Decide, ScalarKinds, DealGetTransactionRes, DealGetSlotRes, DealGetAccountRes
<1>2. /\ \E w \in Rpc : report[w] = Ok(res.val)
      /\ UniqueLeader(k, report, res.val)
  <2>1. /\ \E w \in Rpc : report[w] = Ok(res.val)
        /\ \A u \in Replies(k) \ {res.val} :
             Cardinality(Voters(Rpc, report, u)) < Cardinality(Voters(Rpc, report, res.val))
    <3>1. \A w \in Rpc : report[w].tag = "ok" => report[w] = Ok(report[w].val)
      OBVIOUS
    <3>. QED  BY <1>1, <3>1, PluralityIsUniqueLeader
  <2>. QED  BY <2>1 DEF UniqueLeader
<1>3. res.val \in Replies(k)
  BY <1>2 DEF Ok
<1>4. CASE k = "GetSlot"
  <2>1. j <= res.val /\ Verdict(k, j, res.val) = Ok(j)
    BY <1>4 DEF Verdict, SlotVerdict, Err
  <2>. QED  BY <1>2, <1>3, <1>4, <2>1 DEF Backs, Agrees
<1>5. CASE k \in {"GetTransaction", "GetAccountInfo"}
  <2>1. res.val = j /\ Verdict(k, j, res.val) = Ok(j)
    BY <1>5 DEF Verdict, SameVerdict, Err
  <2>. QED  BY <1>2, <1>3, <1>5, <2>1 DEF Backs, Agrees
<1>. QED  BY <1>4, <1>5 DEF ScalarKinds

LEMMA AnswerBackedStep ==
    ASSUME TypeOK, JudgeHeld, TakenOnce, EventFaithful, AnswerBacked, [Next]_vars
    PROVE  AnswerBacked'
<1> DEFINE BackedCall(r) ==
             pc[r] = "done" /\ kind[r] \in ScalarKinds /\ answer[r].tag = "ok"
             => /\ AllReplied(reported[r])
                /\ answer[r] = judge[r]
                /\ Backs(kind[r], reported[r], judge[r].val)
\* A call that had returned before, and is not touched by the step.
<1>1. ASSUME NEW r \in Req, pc'[r] = "done" => pc[r] = "done",
             kind'[r] = kind[r], answer'[r] = answer[r], judge'[r] = judge[r]
      PROVE  BackedCall(r)'
  BY <1>1, ReportFinal DEF AnswerBacked
<1>2. CASE UNCHANGED callerVars
  BY <1>1, <1>2 DEF AnswerBacked, callerVars
<1>3. ASSUME NEW q \in Req, SendTask(q) \/ Disconnect(q)
      PROVE  AnswerBacked'
  BY <1>1, <1>3 DEF SendTask, Disconnect, AnswerBacked, TypeOK, CallerTypeOK
<1>4. ASSUME NEW q \in Req, AskJudge(q)
      PROVE  AnswerBacked'
  <2>1. \A r \in Req : r # q => BackedCall(r)'
    <3>1. \A r \in Req : r # q => pc'[r] = pc[r] /\ kind'[r] = kind[r]
                                  /\ answer'[r] = answer[r] /\ judge'[r] = judge[r]
      BY <1>4 DEF AskJudge, Return, TypeOK, CallerTypeOK
    <3>. QED  BY <1>1, <3>1
  <2>2. BackedCall(q)'
    <3>1. Err("Custom").tag # "ok" /\ "GetSignaturesForAddress" \notin ScalarKinds
      BY DEF Err, ScalarKinds
    <3>. QED  BY <1>4, <3>1 DEF AskJudge, Return, TypeOK, CallerTypeOK
  <2>. QED  BY <2>1, <2>2 DEF AnswerBacked
<1>5. ASSUME NEW q \in Req, Receive(q)
      PROVE  AnswerBacked'
  <2> DEFINE event == Head(response[q])
             a == IF event.res.tag = "ok" THEN Verdict(kind[q], judge[q].val, event.res.val)
                  ELSE event.res
  <2>1. UNCHANGED <<kind, judge, reported>> /\ pc[q] = "waiting" /\ response[q] # <<>>
    BY <1>5 DEF Receive, workerVars
  <2>2. \/ pc' = [pc EXCEPT ![q] = "panicked"] /\ UNCHANGED answer
        \/ pc' = [pc EXCEPT ![q] = "done"] /\ answer' = [answer EXCEPT ![q] = a]
    BY <1>5 DEF Receive, Return
  <2>3. \A r \in Req : r # q => BackedCall(r)'
    <3>1. \A r \in Req : r # q => pc'[r] = pc[r] /\ kind'[r] = kind[r]
                                  /\ answer'[r] = answer[r] /\ judge'[r] = judge[r]
      BY <2>1, <2>2 DEF TypeOK, CallerTypeOK
    <3>. QED  BY <1>1, <3>1
  <2>4. kind[q] \in ScalarKinds /\ a.tag = "ok"
        => AllReplied(reported[q]) /\ a = judge[q] /\ Backs(kind[q], reported[q], judge[q].val)
    <3> SUFFICES ASSUME kind[q] \in ScalarKinds, a.tag = "ok"
                 PROVE  AllReplied(reported[q]) /\ a = judge[q]
                        /\ Backs(kind[q], reported[q], judge[q].val)
      OBVIOUS
    <3>1. event.res.tag = "ok"
      OBVIOUS
    <3>2. event = response[q][1] /\ 1 \in DOMAIN response[q]
      BY <2>1 DEF TypeOK, CallerTypeOK
    <3>3. /\ AllReplied(reported[q])
          /\ event.res = Decide(kind[q], BallotsOf(Rpc, reported[q]))
      BY <3>1, <3>2 DEF EventFaithful
    <3>4. \A w \in Rpc : reported[q][w].tag = "ok"
                         => /\ reported[q][w] = Ok(reported[q][w].val)
                            /\ reported[q][w].val \in Replies(kind[q])
      BY DEF TypeOK, WorkerTypeOK, Pending, Reports, Failed, Err, Ok
    <3>5. kind[q] \in Kinds /\ judge[q] = Ok(judge[q].val)
      BY <2>1, ReceivedTyped DEF TypeOK, CallerTypeOK
    <3>6. Verdict(kind[q], judge[q].val, event.res.val).tag = "ok"
      BY <3>1
    <3>7. /\ Verdict(kind[q], judge[q].val, event.res.val) = Ok(judge[q].val)
          /\ Backs(kind[q], reported[q], judge[q].val)
      <4> HIDE DEF event
      <4>. QED  BY <3>1, <3>3, <3>4, <3>5, <3>6, VerdictBacked
    <3>. QED  BY <3>1, <3>3, <3>5, <3>7
  <2>5. BackedCall(q)'
    <3> HIDE DEF a
    <3>1. q \in DOMAIN pc /\ q \in DOMAIN answer
      BY DEF TypeOK, CallerTypeOK
    <3>. QED  BY <2>1, <2>2, <2>4, <3>1
  <2>. QED  BY <2>3, <2>5 DEF AnswerBacked
<1>6. /\ StartDispatcher \/ PollTimeout \/ Collect => UNCHANGED callerVars
      /\ \A w \in Rpc : WorkerLagged(w) \/ WorkerReceive(w) \/ RpcCall(w) => UNCHANGED callerVars
      /\ UNCHANGED vars => UNCHANGED callerVars
  BY DEF StartDispatcher, PollTimeout, Collect, WorkerLagged, WorkerReceive, RpcCall, vars, callerVars
<1>. QED  BY <1>2, <1>3, <1>4, <1>5, <1>6, StepCases

-----------------------------------------------------------------------------
(* The theorems.                                                            *)

LEMMA InvInit == Init => IInv
<1> SUFFICES ASSUME Init PROVE IInv
  OBVIOUS
<1>1. TypeOK /\ TakenOnce
  BY TypeInit, TakenOnceInit
<1>2. \A r \in Req : pc[r] = "idle" /\ response[r] = <<>>
  BY DEF Init
<1>3. JudgeHeld /\ AnswerBacked
  BY <1>2 DEF JudgeHeld, AnswerBacked
<1>4. BoxSound /\ BoxOnce /\ EventFaithful
  BY <1>2 DEF Init, BoxSound, BoxOnce, EventFaithful
<1>. QED  BY <1>1, <1>3, <1>4 DEF IInv

LEMMA InvStep == IInv /\ [Next]_vars => IInv'
  BY TypeStep, JudgeHeldStep, TakenOnceStep, BoxSoundStep, BoxOnceStep, EventFaithfulStep,
     AnswerBackedStep DEF IInv

\* The inductive invariant holds in every reachable state of the pipeline.
THEOREM Invariance == Spec => []IInv
  BY InvInit, InvStep, PTL DEF Spec

\* Types and capacities (sol.rs:200-1578): no channel of the pipeline overflows and
\* no worker calls its RPC more than MaxAttempts times for one task.
THEOREM TypeCorrect == Spec => []TypeOK
  BY Invariance, PTL DEF IInv

\* Every slot, account and transaction that is answered is the judge's reply,
\* backed by the unique plurality of the replies of all extra RPCs to that very
\* request (sol.rs:774-1159, 1384-1578).
THEOREM AnswersAreBacked == Spec => []AnswerBacked
  BY Invariance, PTL DEF IInv

\* Every task is queued and broadcast once, and no worker takes it twice
\* (sol.rs:206-256, 272-338).
THEOREM TasksAreTakenOnce == Spec => []TakenOnce
  BY Invariance, PTL DEF IInv

\* Only replies to the current task are ever counted for it, one per RPC, although
\* workers may still be at work for tasks that are over (sol.rs:606-670 and its copies).
THEOREM CollectorIsSound == Spec => []CollectorSound
<1>1. BoxSound /\ BoxOnce => CollectorSound
  BY DEF BoxSound, BoxOnce, CollectorSound
<1>. QED  BY <1>1, Invariance, PTL DEF IInv

\* An event with a value was computed from the replies of all extra RPCs to the
\* request it is sent to (sol.rs:627-645 and its copies).
THEOREM EventsAreFaithful == Spec => []EventFaithful
  BY Invariance, PTL DEF IInv

\* What an RPC has replied to a request never changes (sol.rs:265-583).
THEOREM BallotsAreFinal == Spec => BallotFinal
<1>1. IInv /\ [Next]_vars
      => [\A r \in Req, w \in Rpc :
            reported[r][w] # Pending => reported'[r][w] = reported[r][w]]_vars
  BY ReportFinal DEF IInv
<1>. QED  BY <1>1, Invariance, PTL DEF Spec, BallotFinal
=============================================================================
