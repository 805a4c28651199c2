------------------------------ MODULE SolClient ------------------------------
(***************************************************************************)
(* The Solana quorum client, src/src/chains/sol.rs, as it runs: HTTP       *)
(* handlers (callers) that ask the judge RPC and then queue a task; one    *)
(* dispatcher that takes one task at a time, broadcasts it to one worker   *)
(* per extra RPC and collects the ballots; workers that call their RPC     *)
(* with a bounded number of attempts and send one ballot into the channel  *)
(* of the task they hold.                                                  *)
(*                                                                         *)
(* A request stands for one call of a pub(crate) method; its TaskEvent,    *)
(* its inner channel and its response channel are named by the request.    *)
(* What an RPC answers is any value of the kind asked for, or an error.    *)
(***************************************************************************)
EXTENDS SolQuorum

CONSTANTS
    Rpc,           \* the extra RPCs; one worker each (sol_extra_rpc)
    Req,           \* requests: calls made by the HTTP handlers
    Kinds,         \* the kinds of request that are made
    Slots,         \* slots an RPC may answer
    Blobs,         \* accounts (the missing account among them), transactions
    Lists,         \* lists of signatures or of program accounts
    None,          \* no task
    MaxAttempts,   \* the workers' `for _ in 0..3`
    TaskCap,       \* capacity of the task channel: 1024
    BroadcastCap,  \* capacity of the broadcast channel: 1024
    Patience,      \* seconds after which a task is to be cancelled: 60
    Horizon        \* bound of the model: seconds counted for one task

ScalarKinds == {"GetTransaction", "GetSlot", "GetAccountInfo"}
ListKinds   == {"GetSignaturesForAddress", "GetProgramAccounts"}

ASSUME RpcAssumption  == IsFiniteSet(Rpc) /\ Rpc # {}
ASSUME KindAssumption == Kinds \subseteq ScalarKinds \cup ListKinds
ASSUME DataAssumption == /\ Slots \subseteq Nat
                         /\ \A l \in Lists : l \in Seq(Range(l))
ASSUME NoneAssumption == None \notin Req
ASSUME CapAssumption  == /\ MaxAttempts \in Nat \ {0}
                         /\ TaskCap \in Nat \ {0}
                         /\ BroadcastCap \in Nat \ {0}
ASSUME TimeAssumption == Patience \in Nat /\ Horizon \in Nat /\ Patience < Horizon

VARIABLES
    pc,         \* caller: idle, sending, waiting, done, gone or panicked
    kind,       \* the method the caller is in
    judge,      \* reply of the judge RPC
    response,   \* the response channel, capacity 1
    answer,     \* what the caller returned
    taskQueue,  \* the task channel
    current,    \* the task the dispatcher is dealing with
    ballots,    \* `res`: the ballots collected for the current task
    waited,     \* seconds since the current task was broadcast
    inbox,      \* the inner channel of the current task
    broadcast,  \* every task broadcast so far; the channel retains the last BroadcastCap
    next,       \* per worker: index in broadcast of the task it receives next
    task,       \* per worker: the task it holds
    attempts,   \* per worker: RPC calls that failed for that task
    reported    \* history: what each RPC replied for each request, in the end

callerVars     == <<pc, kind, judge, answer>>
dispatcherVars == <<current, ballots, waited>>
workerVars     == <<next, task, attempts, reported>>
vars == <<pc, kind, judge, response, answer, taskQueue, current, ballots, waited,
          inbox, broadcast, next, task, attempts, reported>>

Replies(k) == CASE k = "GetSlot" -> Slots
                [] k \in {"GetTransaction", "GetAccountInfo"} -> Blobs
                [] k \in ListKinds -> Lists

Pending == [tag |-> "pending"]
Failed  == Err("Internal")

Init ==
    /\ pc = [r \in Req |-> "idle"]
    /\ kind \in [Req -> Kinds]
    /\ judge = [r \in Req |-> Pending]
    /\ response = [r \in Req |-> <<>>]
    /\ answer = [r \in Req |-> Pending]
    /\ taskQueue = <<>>
    /\ current = None
    /\ ballots = {}
    /\ waited = 0
    /\ inbox = <<>>
    /\ broadcast = <<>>
    /\ next = [w \in Rpc |-> 1]
    /\ task = [w \in Rpc |-> None]
    /\ attempts = [w \in Rpc |-> 0]
    /\ reported = [r \in Req |-> [w \in Rpc |-> Pending]]

-----------------------------------------------------------------------------
(* Callers.                                                                *)

Return(r, a) == pc' = [pc EXCEPT ![r] = "done"] /\ answer' = [answer EXCEPT ![r] = a]

\* The judge RPC is asked first.  Its failure ends the call, and so does an
\* empty list of signatures.
AskJudge(r) ==
    /\ pc[r] = "idle"
    /\ \/ /\ judge' = [judge EXCEPT ![r] = Err("Custom")]
          /\ Return(r, Err("Custom"))
       \/ \E v \in Replies(kind[r]) :
            /\ judge' = [judge EXCEPT ![r] = Ok(v)]
            /\ IF kind[r] = "GetSignaturesForAddress" /\ v = <<>>
               THEN Return(r, Ok({}))
               ELSE pc' = [pc EXCEPT ![r] = "sending"] /\ UNCHANGED answer
    /\ UNCHANGED <<kind, response, taskQueue, dispatcherVars, inbox, broadcast, workerVars>>

\* A bounded mpsc channel: send waits until there is room.
\* (Mutant: one element too many.)
HasRoomOffByOne(queue, cap) == Len(queue) <= cap
HasRoom(queue, cap) == Len(queue) < cap

\* task_sender.send(..).await.
SendTask(r) ==
    /\ pc[r] = "sending"
    /\ HasRoom(taskQueue, TaskCap)
    /\ taskQueue' = Append(taskQueue, r)
    /\ pc' = [pc EXCEPT ![r] = "waiting"]
    /\ UNCHANGED <<kind, judge, response, answer, dispatcherVars, inbox, broadcast, workerVars>>

Verdict(k, j, v) ==
    CASE k = "GetSlot" -> SlotVerdict(j, v)
      [] k \in {"GetTransaction", "GetAccountInfo"} -> SameVerdict(j, v)
      [] k = "GetSignaturesForAddress" -> SignaturesVerdict(j, v)
      [] k = "GetProgramAccounts" -> AccountsVerdict(j, v)

\* response_receiver.recv().await, and what the caller makes of the event: its
\* own kind is judged, any other kind is `unreachable!()`.
Receive(r) ==
    /\ pc[r] = "waiting"
    /\ response[r] # <<>>
    /\ LET event == Head(response[r]) IN
         IF event.kind # kind[r]
         THEN pc' = [pc EXCEPT ![r] = "panicked"] /\ UNCHANGED answer
         ELSE Return(r, IF event.res.tag = "ok"
                        THEN Verdict(kind[r], judge[r].val, event.res.val)
                        ELSE event.res)
    /\ response' = [response EXCEPT ![r] = Tail(@)]
    /\ UNCHANGED <<kind, judge, taskQueue, dispatcherVars, inbox, broadcast, workerVars>>

GetTransaction(r)         == kind[r] = "GetTransaction" /\ (AskJudge(r) \/ Receive(r))
GetSlot(r)                == kind[r] = "GetSlot" /\ (AskJudge(r) \/ Receive(r))
GetAccountInfo(r)         == kind[r] = "GetAccountInfo" /\ (AskJudge(r) \/ Receive(r))
GetSignaturesForAddress(r) == kind[r] = "GetSignaturesForAddress" /\ (AskJudge(r) \/ Receive(r))
GetProgramAccounts(r)     == kind[r] = "GetProgramAccounts" /\ (AskJudge(r) \/ Receive(r))

\* The HTTP client goes away: the handler's future is dropped at its await,
\* and the response receiver with it.  A queued task stays queued.
Disconnect(r) ==
    /\ pc[r] \in {"sending", "waiting"}
    /\ pc' = [pc EXCEPT ![r] = "gone"]
    /\ response' = [response EXCEPT ![r] = <<>>]
    /\ UNCHANGED <<kind, judge, answer, taskQueue, dispatcherVars, inbox, broadcast, workerVars>>

-----------------------------------------------------------------------------
(* The dispatcher.                                                         *)

\* Take a task, open its inner channel and broadcast it.  Every worker holds a
\* receiver for ever, so dispatcher_sender.send does not fail.
StartDispatcher ==
    /\ current = None
    /\ taskQueue # <<>>
    /\ current' = Head(taskQueue)
    /\ taskQueue' = Tail(taskQueue)
    /\ broadcast' = Append(broadcast, Head(taskQueue))
    /\ inbox' = <<>>
    /\ ballots' = {}
    /\ waited' = 0
    /\ UNCHANGED <<callerVars, response, workerVars>>

\* response_sender.send(..).await, then `break`: back to the task channel.  The
\* receiver of a caller that has gone is closed, and the event is lost.
\* (Mutant: a cancelled task is left without an event.)
RespondUnlessTimeOut(k, res) ==
    /\ IF pc[current] = "gone" \/ res = Err("TimeOut")
       THEN UNCHANGED response
       ELSE response' = [response EXCEPT ![current] = Append(@, [kind |-> k, res |-> res])]
    /\ current' = None
    /\ ballots' = {}
    /\ waited' = 0
    /\ inbox' = <<>>

Respond(k, res) ==
    /\ IF pc[current] = "gone"
       THEN UNCHANGED response
       ELSE /\ HasRoom(response[current], 1)
            /\ response' = [response EXCEPT ![current] = Append(@, [kind |-> k, res |-> res])]
    /\ current' = None
    /\ ballots' = {}
    /\ waited' = 0
    /\ inbox' = <<>>

\* HashSet::insert, or HashMap::insert keyed by the RPC.
Cast(k, v, w) ==
    IF k \in ListKinds THEN {b \in ballots : b[2] # w} \cup {<<v, w>>}
                       ELSE ballots \cup {<<v, w>>}

Decide(k, bs) ==
    CASE k = "GetTransaction" -> DealGetTransactionRes(bs)
      [] k = "GetSlot" -> DealGetSlotRes(bs)
      [] k = "GetAccountInfo" -> DealGetAccountRes(bs)
      [] k = "GetSignaturesForAddress" -> DealGetSignaturesForAddressRes(bs)
      [] k = "GetProgramAccounts" -> DealGetProgramAccountsRes(bs)

\* The event that reports a failed ballot: deal_get_account_info builds a
\* GetSlot event.
ErrorEvent(k) == IF k = "GetAccountInfo" THEN "GetSlot" ELSE k

\* (Mutant: waits for one ballot more than there are RPCs.)
CompleteOffByOne(bs) == Cardinality(bs) > Cardinality(Rpc)
\* (Mutant: half of the ballots are enough.)
CompleteAtHalf(bs) == 2 * Cardinality(bs) >= Cardinality(Rpc)
Complete(bs) == Cardinality(bs) = Cardinality(Rpc)

Later(t) == IF waited + t > Horizon THEN Horizon ELSE waited + t

\* One turn of the collecting loop that receives a ballot, within its second.
\* The order of the tests is the code's: a failed ballot, then the last ballot,
\* then the clock.
Collect ==
    /\ inbox # <<>>
    /\ \E t \in {0, 1} :
         LET k == kind[current]
             ballot == Head(inbox)
             bs == Cast(k, ballot.res.val, ballot.from)
         IN  IF ballot.res.tag = "err"
             THEN Respond(ErrorEvent(k), Failed)
             ELSE IF Complete(bs)
             THEN Respond(k, Decide(k, bs))
             ELSE IF Later(t) >= Patience
             THEN Respond(k, Err("TimeOut"))
             ELSE /\ ballots' = bs
                  /\ inbox' = Tail(inbox)
                  /\ waited' = Later(t)
                  /\ UNCHANGED <<current, response>>
    /\ UNCHANGED <<callerVars, taskQueue, broadcast, workerVars>>

DealGetTransaction         == current # None /\ kind[current] = "GetTransaction" /\ Collect
DealGetSlot                == current # None /\ kind[current] = "GetSlot" /\ Collect
DealGetAccountInfo         == current # None /\ kind[current] = "GetAccountInfo" /\ Collect
DealGetSignaturesForAddress == current # None /\ kind[current] = "GetSignaturesForAddress" /\ Collect
DealGetProgramAccounts     == current # None /\ kind[current] = "GetProgramAccounts" /\ Collect

\* A second goes by without a ballot: timeout(1s, recv()) elapses, `if let
\* Ok(Some(..))` does not match, and the loop turns without looking at the clock.
PollTimeout ==
    /\ current # None
    /\ inbox = <<>>
    /\ waited' = Later(1)
    /\ UNCHANGED <<callerVars, response, taskQueue, current, ballots, inbox, broadcast, workerVars>>

-----------------------------------------------------------------------------
(* The workers.                                                            *)

\* Index of the oldest task the broadcast channel retains.
Oldest == IF Len(broadcast) <= BroadcastCap THEN 1 ELSE Len(broadcast) - BroadcastCap + 1

\* (Mutant: the worker subscribes anew, after the newest task.)
ResumeAtTail == Len(broadcast) + 1
ResumeAt == Oldest

\* recv() returns Lagged: the worker's position moves to the oldest retained
\* task, and `if let Ok(task)` drops the error.
WorkerLagged(w) ==
    /\ task[w] = None
    /\ next[w] < Oldest
    /\ next' = [next EXCEPT ![w] = ResumeAt]
    /\ UNCHANGED <<callerVars, response, taskQueue, dispatcherVars, inbox, broadcast,
                   task, attempts, reported>>

WorkerReceive(w) ==
    /\ task[w] = None
    /\ next[w] \in Oldest .. Len(broadcast)
    /\ task' = [task EXCEPT ![w] = broadcast[next[w]]]
    /\ next' = [next EXCEPT ![w] = @ + 1]
    /\ attempts' = [attempts EXCEPT ![w] = 0]
    /\ UNCHANGED <<callerVars, response, taskQueue, dispatcherVars, inbox, broadcast, reported>>

\* inner_sender.send(..).await into the channel of the task the worker holds:
\* a task that is no longer current has its receiver dropped.
\* (Mutant: one inner channel for all tasks.)
ReceiverOpenForAny(w) == current # None
ReceiverOpen(w) == task[w] = current

\* (Mutant: the attempts go on after a reply, `break` is missing.)
SendBallotWithoutBreak(w, res) ==
    /\ inbox' = IF ReceiverOpen(w) THEN Append(inbox, [from |-> w, res |-> res]) ELSE inbox
    /\ reported' = [reported EXCEPT ![task[w]][w] = res]
    /\ task' = [task EXCEPT ![w] = IF attempts[w] + 1 < MaxAttempts THEN @ ELSE None]
    /\ attempts' = [attempts EXCEPT ![w] = IF @ + 1 < MaxAttempts THEN @ + 1 ELSE @]
    /\ UNCHANGED next

SendBallot(w, res) ==
    /\ IF ReceiverOpen(w)
       THEN /\ HasRoom(inbox, Cardinality(Rpc))
            /\ inbox' = Append(inbox, [from |-> w, res |-> res])
       ELSE UNCHANGED inbox
    /\ reported' = [reported EXCEPT ![task[w]][w] = res]
    /\ task' = [task EXCEPT ![w] = None]
    /\ UNCHANGED <<next, attempts>>

\* One RPC call: a reply is sent, an error is tried again until MaxAttempts.
RpcCall(w) ==
    /\ \/ \E v \in Replies(kind[task[w]]) : SendBallot(w, Ok(v))
       \/ /\ attempts[w] + 1 < MaxAttempts
          /\ attempts' = [attempts EXCEPT ![w] = @ + 1]
          /\ UNCHANGED <<inbox, next, task, reported>>
       \/ /\ attempts[w] + 1 = MaxAttempts
          /\ SendBallot(w, Failed)
    /\ UNCHANGED <<callerVars, response, taskQueue, dispatcherVars, broadcast>>

ClientWorkerDoGetTransaction(w) ==
    task[w] # None /\ kind[task[w]] = "GetTransaction" /\ RpcCall(w)
ClientWorkerDoGetSlot(w) ==
    task[w] # None /\ kind[task[w]] = "GetSlot" /\ RpcCall(w)
ClientWorkerDoGetAccount(w) ==
    task[w] # None /\ kind[task[w]] = "GetAccountInfo" /\ RpcCall(w)
ClientWorkerDoGetSignaturesForAddress(w) ==
    task[w] # None /\ kind[task[w]] = "GetSignaturesForAddress" /\ RpcCall(w)
ClientWorkerDoGetProgramAccounts(w) ==
    task[w] # None /\ kind[task[w]] = "GetProgramAccounts" /\ RpcCall(w)

-----------------------------------------------------------------------------
CallMethod(r) == \/ GetTransaction(r)
                 \/ GetSlot(r)
                 \/ GetAccountInfo(r)
                 \/ GetSignaturesForAddress(r)
                 \/ GetProgramAccounts(r)

Deal == \/ DealGetTransaction
        \/ DealGetSlot
        \/ DealGetAccountInfo
        \/ DealGetSignaturesForAddress
        \/ DealGetProgramAccounts

DoTask(w) == \/ ClientWorkerDoGetTransaction(w)
             \/ ClientWorkerDoGetSlot(w)
             \/ ClientWorkerDoGetAccount(w)
             \/ ClientWorkerDoGetSignaturesForAddress(w)
             \/ ClientWorkerDoGetProgramAccounts(w)

\* Every request has come to its end and the pipeline is empty: the program
\* would wait for further requests.
Finished ==
    /\ \A r \in Req : pc[r] \in {"done", "gone", "panicked"}
    /\ taskQueue = <<>> /\ current = None
    /\ \A w \in Rpc : task[w] = None /\ next[w] > Len(broadcast)

Idle == Finished /\ UNCHANGED vars

Next ==
    \/ \E r \in Req : CallMethod(r) \/ SendTask(r) \/ Disconnect(r)
    \/ StartDispatcher \/ Deal \/ PollTimeout
    \/ \E w \in Rpc : WorkerLagged(w) \/ WorkerReceive(w) \/ DoTask(w)
    \/ Idle

Spec == Init /\ [][Next]_vars

\* The tasks of the Tokio runtime are scheduled, and an RPC call ends (the
\* blocking client has its own HTTP timeout).  Nobody has to call or to disconnect.
Fairness ==
    /\ WF_vars(StartDispatcher) /\ WF_vars(Deal)
    /\ \A r \in Req : WF_vars(SendTask(r)) /\ WF_vars(Receive(r))
    /\ \A w \in Rpc : WF_vars(WorkerLagged(w) \/ WorkerReceive(w) \/ DoTask(w))

FairSpec == Spec /\ Fairness
-----------------------------------------------------------------------------
(* Properties.                                                             *)

ListedItems == UNION {Range(l) : l \in Lists}

\* What a collector, and a caller, may come to: a list is returned as a set.
Outcomes(k) == {Err(e) : e \in {"Internal", "Custom", "TimeOut"}}
               \cup {Ok(v) : v \in IF k \in ListKinds THEN SUBSET ListedItems ELSE Replies(k)}

Reports(k) == {Failed} \cup {Ok(v) : v \in Replies(k)}

Events(k)  == [kind : ScalarKinds \cup ListKinds, res : Outcomes(k)]
Letters(k) == [from : Rpc, res : Reports(k)]

CallerTypeOK ==
    /\ pc \in [Req -> {"idle", "sending", "waiting", "done", "gone", "panicked"}]
    /\ kind \in [Req -> Kinds]
    /\ DOMAIN judge = Req /\ DOMAIN answer = Req /\ DOMAIN response = Req
    /\ \A r \in Req :
         /\ judge[r] \in {Pending, Err("Custom")} \cup {Ok(v) : v \in Replies(kind[r])}
         /\ answer[r] \in {Pending} \cup Outcomes(kind[r])
         /\ response[r] \in Seq(Events(kind[r])) /\ Len(response[r]) <= 1

DispatcherTypeOK ==
    /\ taskQueue \in Seq(Req) /\ Len(taskQueue) <= TaskCap
    /\ broadcast \in Seq(Req)
    /\ current \in Req \cup {None}
    /\ current = None => inbox = <<>> /\ ballots = {}
    /\ current # None => /\ inbox \in Seq(Letters(kind[current]))
                         /\ Len(inbox) <= Cardinality(Rpc)
                         /\ ballots \subseteq Replies(kind[current]) \X Rpc
    /\ waited \in 0 .. Horizon

WorkerTypeOK ==
    /\ next \in [Rpc -> Nat] /\ \A w \in Rpc : next[w] \in 1 .. Len(broadcast) + 1
    /\ task \in [Rpc -> Req \cup {None}]
    /\ attempts \in [Rpc -> 0 .. MaxAttempts - 1]
    /\ DOMAIN reported = Req
    /\ \A r \in Req : /\ DOMAIN reported[r] = Rpc
                      /\ \A w \in Rpc : reported[r][w] \in {Pending} \cup Reports(kind[r])

\* Type invariant of the pipeline: callers (sol.rs:1195-1578), dispatcher
\* (200-263, 585-1044) and workers (265-583).  The bounds are claims: no channel
\* holds more than its capacity, and no RPC is called once too often.
TypeOK == CallerTypeOK /\ DispatcherTypeOK /\ WorkerTypeOK

\* Below, a report maps every RPC to what it replied to one request.
AllReplied(report) == \A w \in Rpc : report[w].tag = "ok"

\* v outnumbers every other value among the replies.
UniqueLeader(k, report, v) ==
    \A u \in Replies(k) \ {v} : Cardinality(Voters(Rpc, report, u)) < Cardinality(Voters(Rpc, report, v))

\* The judge's slot may lag behind the extras; anything else must be the same.
Agrees(k, j, v) == IF k = "GetSlot" THEN j <= v ELSE j = v

Backs(k, report, j) ==
    \E v \in Replies(k) : UniqueLeader(k, report, v) /\ Agrees(k, j, v)

\* A caller that has asked, or is about to ask, the extra RPCs holds the reply of
\* the judge RPC, and a list of signatures it pages from is not empty
\* (sol.rs:1312-1317).
JudgeHeld ==
    \A r \in Req :
        pc[r] \in {"sending", "waiting"}
        => /\ judge[r].tag = "ok"
           /\ kind[r] = "GetSignaturesForAddress" => judge[r] # Ok(<<>>)

\* A slot, account or transaction is answered only if every extra RPC has
\* replied to this very request, one value outnumbers all others among those
\* replies, and the judge's reply, which is what is answered, agrees with it
\* (sol.rs:774-1159 with 1384-1578).
AnswerBacked ==
    \A r \in Req :
        pc[r] = "done" /\ kind[r] \in ScalarKinds /\ answer[r].tag = "ok"
        => /\ AllReplied(reported[r])
           /\ answer[r] = judge[r]
           /\ Backs(kind[r], reported[r], judge[r].val)

\* A call is not refused without a cause: an internal error stands for an RPC
\* that failed MaxAttempts times, and a mismatch is reported only if the judge
\* failed or the replies of all extra RPCs do not back the judge's
\* (sol.rs:614-624, 1081-1090 and their copies, and the callers' refusals).
RefusalJustified ==
    \A r \in Req :
        pc[r] = "done" /\ answer[r].tag = "err"
        => /\ answer[r] = Err("Internal") => \E w \in Rpc : reported[r][w] = Failed
           /\ answer[r] = Err("Custom")
              => \/ judge[r] = Err("Custom")
                 \/ /\ kind[r] \in ScalarKinds
                    /\ AllReplied(reported[r])
                    /\ ~ Backs(kind[r], reported[r], judge[r].val)

NoRepeats(l) == \A i, j \in DOMAIN l : l[i] = l[j] => i = j

InEveryReply(report, x) == \A w \in Rpc : x \in Range(report[w].val)

\* A list is answered only after every extra RPC has replied, and if no RPC
\* repeats an item, it holds exactly the judge's items that every extra RPC also
\* listed, and for signatures the judge's first one (sol.rs:1046-1070, 1161-1182
\* with 1195-1382).
ListBacked ==
    \A r \in Req :
        pc[r] = "done" /\ kind[r] \in ListKinds /\ answer[r].tag = "ok"
        => \/ kind[r] = "GetSignaturesForAddress" /\ judge[r] = Ok(<<>>) /\ answer[r] = Ok({})
           \/ /\ AllReplied(reported[r])
              /\ LET list  == judge[r].val
                     first == IF kind[r] = "GetSignaturesForAddress" THEN {Head(list)} ELSE {}
                 IN  NoRepeats(list) /\ (\A w \in Rpc : NoRepeats(reported[r][w].val))
                     => answer[r].val = first \cup {x \in Range(list) : InEveryReply(reported[r], x)}

\* Ballots are counted for the task they were cast for: what lies in the inner
\* channel or in `res` is what that RPC replied to the current task, at most one
\* ballot per RPC, although workers may still be busy with tasks the dispatcher
\* has left (sol.rs:606-670 and its copies).
CollectorSound ==
    /\ \A i \in DOMAIN inbox : reported[current][inbox[i].from] = inbox[i].res
    /\ \A b \in ballots : reported[current][b[2]] = Ok(b[1])
    /\ \A i, j \in DOMAIN inbox : inbox[i].from = inbox[j].from => i = j
    /\ \A i \in DOMAIN inbox : \A b \in ballots : inbox[i].from # b[2]

\* Every task passes through the pipeline once: it is queued once and broadcast
\* once, the current task is the last one broadcast, and no worker holds, or will
\* receive, a task that its RPC has already answered (sol.rs:206-256, 272-338).
TakenOnce ==
    /\ \A i, j \in DOMAIN broadcast : broadcast[i] = broadcast[j] => i = j
    /\ \A i, j \in DOMAIN taskQueue : taskQueue[i] = taskQueue[j] => i = j
    /\ \A i \in DOMAIN taskQueue, j \in DOMAIN broadcast : taskQueue[i] # broadcast[j]
    /\ \A i \in DOMAIN taskQueue : pc[taskQueue[i]] \notin {"idle", "sending"}
    /\ \A i \in DOMAIN broadcast : pc[broadcast[i]] \notin {"idle", "sending"}
    /\ current # None => broadcast # <<>> /\ broadcast[Len(broadcast)] = current
    /\ \A w \in Rpc :
         /\ \A i \in DOMAIN broadcast :
              i >= next[w] => reported[broadcast[i]][w] = Pending /\ task[w] # broadcast[i]
         /\ task[w] # None => /\ reported[task[w]][w] = Pending
                              /\ \E i \in DOMAIN broadcast : broadcast[i] = task[w]
         /\ \A r \in Req : reported[r][w] # Pending => \E i \in DOMAIN broadcast : broadcast[i] = r

\* A value in the response channel is what the decision function makes of the
\* replies of all extra RPCs to that request, and stays so while the event waits
\* to be received (sol.rs:627-645 and its copies).
EventFaithful ==
    \A r \in Req : \A i \in DOMAIN response[r] :
        response[r][i].res.tag = "ok"
        => /\ AllReplied(reported[r])
           /\ response[r][i].res = Decide(kind[r], BallotsOf(Rpc, reported[r]))

\* The current task reaches every worker: one that has not replied holds it or
\* will still receive it, however far it has fallen behind the broadcast channel
\* (sol.rs:275 drops the Lagged error).  Otherwise the dispatcher, which has no
\* other way out, would collect for ever.
NobodyMissed ==
    current # None =>
        \A w \in Rpc : \/ reported[current][w] # Pending
                       \/ task[w] = current
                       \/ next[w] <= Len(broadcast) /\ broadcast[Len(broadcast)] = current

Places(r) == Cardinality({i \in DOMAIN taskQueue : taskQueue[i] = r})
             + (IF current = r THEN 1 ELSE 0) + Len(response[r])

\* A caller that waits is served once: its task is queued, or being dealt with,
\* or its answer is in its channel, never two of these and never none
\* (sol.rs:206-256 and every exit of the deal_ functions).
ServedOnce == \A r \in Req : /\ pc[r] = "waiting" => Places(r) = 1
                             /\ pc[r] \in {"idle", "sending", "done"} => Places(r) = 0

\* What an RPC has replied for a task is final: no worker takes a task twice or
\* sends a second ballot for it (sol.rs:265-583).
BallotFinal ==
    [][\A r \in Req, w \in Rpc :
        reported[r][w] # Pending => reported'[r][w] = reported[r][w]]_vars

\* Every caller that has gone on to ask the extra RPCs gets an answer, unless it
\* disconnects (or hits unreachable!()).
CallerAnswered ==
    \A r \in Req : pc[r] \in {"sending", "waiting"} ~> pc[r] \in {"done", "gone", "panicked"}

\* The dispatcher never stays with one task for ever: not with a caller that has
\* gone, nor with workers that lag (sol.rs:206-259).
DispatcherFreed == \A r \in Req : current = r ~> current # r

\* No caller meets an event of another kind: the `unreachable!()` arms of
\* sol.rs:1265-1268, 1374-1377, 1442-1445, 1501-1504 and 1569-1572.
NeverUnreachable == \A r \in Req : pc[r] # "panicked"
=============================================================================
