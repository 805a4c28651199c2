---------------------------- MODULE SolRefinement ----------------------------
(***************************************************************************)
(* SolClient implements QuorumRead: of all its state a caller sees whether *)
(* its call is open, what the RPCs replied, and its answer.                *)
(***************************************************************************)
EXTENDS SolClient

Status == [r \in Req |-> IF pc[r] \in {"sending", "waiting"} THEN "open" ELSE pc[r]]

ReplySets  == [k \in Kinds |-> Replies(k)]
ResultSets == [k \in Kinds |-> IF k \in ListKinds THEN SUBSET UNION {Range(l) : l \in Lists}
                                                  ELSE Replies(k)]

QR == INSTANCE QuorumRead WITH status <- Status, replies <- reported,
                               ReplyOf <- ReplySets, Result <- ResultSets

\* Every step of callers, dispatcher and workers is a step of the promise or
\* changes nothing a caller sees: calls end once, replies are final, and what is
\* answered or refused is warranted by the replies to that very call
\* (sol.rs:200-1578).
ImplementsQuorumRead == QR!Spec
=============================================================================
