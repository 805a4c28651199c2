----------------------------- MODULE QuorumRead -----------------------------
(***************************************************************************)
(* What the Solana quorum client (src/src/chains/sol.rs) promises to a     *)
(* caller, with no word about queues, dispatcher, workers, retries and     *)
(* clocks: the judge RPC is asked, every extra RPC replies at most once,   *)
(* and the call ends once, with an answer that the judge and the replies   *)
(* of all extra RPCs warrant, or with a refusal that has a cause.          *)
(***************************************************************************)
EXTENDS SolQuorum

CONSTANTS
    Rpc,      \* the extra RPCs
    Req,      \* calls
    Kinds,    \* the methods called
    ReplyOf,  \* per kind, what an RPC may reply
    Result    \* per kind, what a caller may be given

VARIABLES
    status,   \* of a call: idle, open, done, gone or panicked
    kind,     \* its method
    judge,    \* what the judge RPC replied
    replies,  \* what each extra RPC replied
    answer    \* what the caller got

vars == <<status, kind, judge, replies, answer>>

Pending == [tag |-> "pending"]
ListMethods == {"GetSignaturesForAddress", "GetProgramAccounts"}

Init ==
    /\ status = [r \in Req |-> "idle"]
    /\ kind \in [Req -> Kinds]
    /\ judge = [r \in Req |-> Pending]
    /\ replies = [r \in Req |-> [w \in Rpc |-> Pending]]
    /\ answer = [r \in Req |-> Pending]

End(r, a) == status' = [status EXCEPT ![r] = "done"] /\ answer' = [answer EXCEPT ![r] = a]

\* The judge fails, or has no signature to page from, and the call ends; or it
\* replies, and the extra RPCs are to be asked.
Ask(r) ==
    /\ status[r] = "idle"
    /\ \/ /\ judge' = [judge EXCEPT ![r] = Err("Custom")]
          /\ End(r, Err("Custom"))
       \/ \E v \in ReplyOf[kind[r]] :
            /\ judge' = [judge EXCEPT ![r] = Ok(v)]
            /\ \/ kind[r] = "GetSignaturesForAddress" /\ v = <<>> /\ End(r, Ok({}))
               \/ status' = [status EXCEPT ![r] = "open"] /\ UNCHANGED answer
    /\ UNCHANGED <<kind, replies>>

\* An extra RPC replies, or fails for good: once, and even if nobody waits.
Reply(r, w) ==
    /\ status[r] # "idle"
    /\ replies[r][w] = Pending
    /\ \E reply \in {Err("Internal")} \cup {Ok(v) : v \in ReplyOf[kind[r]]} :
         replies' = [replies EXCEPT ![r][w] = reply]
    /\ UNCHANGED <<status, kind, judge, answer>>

AllReplied(r) == \A w \in Rpc : replies[r][w].tag = "ok"
SomeFailed(r) == \E w \in Rpc : replies[r][w] = Err("Internal")

\* v outnumbers all other replies, and the judge agrees with it; a judge's slot
\* may be behind.
Backs(r, v) ==
    /\ \A u \in ReplyOf[kind[r]] \ {v} :
         Cardinality(Voters(Rpc, replies[r], u)) < Cardinality(Voters(Rpc, replies[r], v))
    /\ IF kind[r] = "GetSlot" THEN judge[r].val <= v ELSE judge[r].val = v

Backed(r) == AllReplied(r) /\ \E v \in ReplyOf[kind[r]] : Backs(r, v)

\* The judge's items that every extra RPC has listed; the extra RPCs were not asked
\* for the judge's first signature.
Agreed(r) ==
    {x \in Range(judge[r].val) : \A w \in Rpc : x \in Range(replies[r][w].val)}
    \cup (IF kind[r] = "GetSignaturesForAddress" THEN {Head(judge[r].val)} ELSE {})

RepeatFree(r) == IsInjective(judge[r].val) /\ \A w \in Rpc : IsInjective(replies[r][w].val)

\* Items are counted, so a list is promised only if none repeats an item.
Warranted(r, a) ==
    CASE a.tag = "ok" /\ kind[r] \notin ListMethods -> Backed(r) /\ a = judge[r]
      [] a.tag = "ok" /\ kind[r] \in ListMethods ->
           AllReplied(r) /\ (RepeatFree(r) => a.val = Agreed(r))
      [] a = Err("Internal") -> SomeFailed(r)
      [] a = Err("Custom") -> kind[r] \notin ListMethods /\ AllReplied(r) /\ ~ Backed(r)
      [] a = Err("TimeOut") -> TRUE

Give(r) ==
    /\ status[r] = "open"
    /\ \E a \in {Ok(v) : v \in Result[kind[r]]} \cup {Err(e) : e \in {"Internal", "Custom", "TimeOut"}} :
         Warranted(r, a) /\ End(r, a)
    /\ UNCHANGED <<kind, judge, replies>>

Leave(r) ==
    /\ status[r] = "open"
    /\ status' = [status EXCEPT ![r] = "gone"]
    /\ UNCHANGED <<kind, judge, replies, answer>>

\* An account request that an extra RPC fails ends in a panic.
Panic(r) ==
    /\ status[r] = "open"
    /\ kind[r] = "GetAccountInfo" /\ SomeFailed(r)
    /\ status' = [status EXCEPT ![r] = "panicked"]
    /\ UNCHANGED <<kind, judge, replies, answer>>

Next == \E r \in Req : \/ Ask(r) \/ Give(r) \/ Leave(r) \/ Panic(r)
                       \/ \E w \in Rpc : Reply(r, w)

Spec == Init /\ [][Next]_vars
=============================================================================
