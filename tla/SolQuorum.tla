------------------------------ MODULE SolQuorum ------------------------------
(***************************************************************************)
(* The pure decision functions of src/src/chains/sol.rs: how the replies   *)
(* of the extra Solana RPCs are reduced to one value, and how the caller   *)
(* then holds that value against the reply of the judge RPC.               *)
(*                                                                         *)
(* A ballot is a pair <<value, rpc>>: what one extra RPC replied.          *)
(* The scalar kinds (slot, account, transaction) keep their ballots in a   *)
(* HashSet<(value, url)>, the list kinds (signatures, program accounts) in *)
(* a HashMap<url, list>.  A list is a sequence of items, possibly with     *)
(* repetitions; a list that the code builds from the keys of a map is the  *)
(* set of those keys.                                                      *)
(***************************************************************************)
EXTENDS Integers, FiniteSets, Sequences, Functions

Ok(v)  == [tag |-> "ok", val |-> v]
Err(e) == [tag |-> "err", err |-> e]

-----------------------------------------------------------------------------
(* Scalar kinds: the value with the most votes, if it is the only one.     *)

BallotValues(ballots) == {b[1] : b \in ballots}

Votes(ballots, v) == Cardinality({b \in ballots : b[1] = v})

Leaders(ballots) ==
    {v \in BallotValues(ballots) :
        \A u \in BallotValues(ballots) : Votes(ballots, u) <= Votes(ballots, v)}

\* (Mutant: a tie is settled at random.)
PluralityWithTies(ballots) == Ok(CHOOSE v \in BallotValues(ballots) : v \in Leaders(ballots))

\* "Unexpected max_count_elements" when several values tie for the lead.
Plurality(ballots) ==
    IF \E v \in BallotValues(ballots) : Leaders(ballots) = {v}
    THEN Ok(CHOOSE v \in BallotValues(ballots) : Leaders(ballots) = {v})
    ELSE Err("Custom")

DealGetAccountRes(ballots)     == Plurality(ballots)
DealGetSlotRes(ballots)        == Plurality(ballots)
DealGetTransactionRes(ballots) == Plurality(ballots)

-----------------------------------------------------------------------------
(* List kinds: the items whose occurrences, counted over all the lists     *)
(* laid end to end, number as many as the lists.                           *)

Occurrences(ballots, x) ==
    Cardinality({o \in ballots \X UNION {DOMAIN b[1] : b \in ballots} :
                    o[2] \in DOMAIN o[1][1] /\ o[1][1][o[2]] = x})

Items(ballots) == UNION {Range(b[1]) : b \in ballots}

\* (Mutant: half of the lists are enough.)
CommonToHalf(ballots) ==
    {x \in Items(ballots) : 2 * Occurrences(ballots, x) >= Cardinality(ballots)}

Common(ballots) ==
    {x \in Items(ballots) :
        Occurrences(ballots, x) = Cardinality({b[2] : b \in ballots})}

DealGetSignaturesForAddressRes(ballots) == Ok(Common(ballots))
DealGetProgramAccountsRes(ballots)      == Ok(Common(ballots))

-----------------------------------------------------------------------------
(* The callers' last word: the reply of the extra RPCs against the judge's. *)

\* (Mutant: strictly behind.)
SlotVerdictStrict(judge, slot) == IF judge < slot THEN Ok(judge) ELSE Err("Custom")
SlotVerdict(judge, slot) == IF judge <= slot THEN Ok(judge) ELSE Err("Custom")

SameVerdict(judge, value) == IF value = judge THEN Ok(value) ELSE Err("Custom")

\* Items counted exactly twice over the judge's list and the extras' set.
SeenTwice(judge, extras) ==
    {x \in Range(judge) \cup extras :
        Cardinality({i \in DOMAIN judge : judge[i] = x})
            + (IF x \in extras THEN 1 ELSE 0) = 2}

AccountsVerdict(judge, extras) == Ok(SeenTwice(judge, extras))

\* The judge's first signature was taken off to page the extras, and is put back.
SignaturesVerdict(judge, extras) ==
    Ok({Head(judge)} \cup SeenTwice(Tail(judge), extras))

-----------------------------------------------------------------------------
(* For the properties.  A report maps every RPC to what it replied: these are *)
(* the ballots it stands for, and the RPCs that voted for v.                  *)

BallotsOf(rpcs, report) ==
    {<<report[w].val, w>> : w \in {x \in rpcs : report[x].tag = "ok"}}

Voters(rpcs, report, v) == {w \in rpcs : report[w] = Ok(v)}
=============================================================================
