--------------------------- MODULE SolQuorumProofs ---------------------------
(***************************************************************************)
(* What the decision functions of SolQuorum return, for every set of       *)
(* ballots that holds at most one ballot per RPC: lemmas about counting     *)
(* votes, cited by the proofs about SolClient.                              *)
(***************************************************************************)
EXTENDS SolQuorum, FunctionTheorems, FiniteSetTheorems, TLAPS

\* A ballot box with one ballot per RPC and as many ballots as there are RPCs has
\* a ballot of every RPC: when `res.len() == rpc_num` (sol.rs:626 and its copies)
\* nobody is missing.
LEMMA FullBox ==
    ASSUME NEW S, IsFiniteSet(S), NEW bs,
           \A b \in bs : b[2] \in S,
           \A b, c \in bs : b[2] = c[2] => b = c,
           Cardinality(bs) = Cardinality(S)
    PROVE  \A w \in S : \E b \in bs : b[2] = w
<1> DEFINE f == [b \in bs |-> b[2]]
<1>1. f \in Injection(bs, S)
  BY DEF Injection, IsInjective
<1>2. f \in Surjection(bs, S)
  BY <1>1, FS_Injection
<1>. QED  BY <1>2 DEF Surjection

\* Votes counts RPCs: as many ballots for v as RPCs that replied v.
LEMMA VotesCountRpcs ==
    ASSUME NEW S, IsFiniteSet(S), NEW report,
           \A w \in S : report[w].tag = "ok" => report[w] = Ok(report[w].val),
           NEW v
    PROVE  Votes(BallotsOf(S, report), v) = Cardinality(Voters(S, report, v))
<1> DEFINE A == Voters(S, report, v)
           B == {b \in BallotsOf(S, report) : b[1] = v}
           f == [w \in A |-> <<v, w>>]
<1>1. IsFiniteSet(A)
  BY FS_Subset DEF Voters
<1>2. \A w \in A : report[w].tag = "ok" /\ report[w].val = v
  BY DEF Voters, Ok
<1>3. f \in [A -> B]
  BY <1>2 DEF Voters, BallotsOf
<1>4. \A x, y \in A : f[x] = f[y] => x = y
  OBVIOUS
<1>5. \A b \in B : \E w \in A : f[w] = b
  BY DEF Voters, BallotsOf
<1>6. f \in Bijection(A, B)
  BY <1>3, <1>4, <1>5 DEF Bijection, Injection, Surjection, IsInjective
<1>7. Cardinality(B) = Cardinality(A)
  BY <1>1, <1>6, FS_Bijection DEF ExistsBijection
<1>. QED  BY <1>7 DEF Votes

\* The value the decision functions for slots, accounts and transactions return
\* is one that some RPC replied, and more RPCs replied it than any other value
\* (sol.rs:1072-1159).
LEMMA PluralityIsUniqueLeader ==
    ASSUME NEW S, IsFiniteSet(S), NEW report,
           \A w \in S : report[w].tag = "ok" => report[w] = Ok(report[w].val),
           NEW res, res = Plurality(BallotsOf(S, report)), res.tag = "ok"
    PROVE  /\ \E w \in S : report[w] = Ok(res.val)
           /\ res = Ok(res.val)
           /\ \A u : u # res.val =>
                Cardinality(Voters(S, report, u)) < Cardinality(Voters(S, report, res.val))
<1> DEFINE B == BallotsOf(S, report)
           votes(v) == Cardinality(Voters(S, report, v))
<1>1. \A v : Votes(B, v) = votes(v)
  BY VotesCountRpcs
<1>2. PICK v \in BallotValues(B) : res = Ok(v) /\ Leaders(B) = {v}
  BY DEF Plurality, Ok, Err
<1>3. res.val = v /\ res = Ok(res.val)
  BY <1>2 DEF Ok
<1>4. PICK w \in S : report[w] = Ok(v)
  BY <1>2 DEF BallotValues, BallotsOf
<1>5. \A u : votes(u) \in Nat
  BY FS_Subset, FS_CardinalityType DEF Voters
<1>6. \A u : u # v => votes(u) < votes(v)
  <2> SUFFICES ASSUME NEW u, u # v
               PROVE  votes(u) < votes(v)
    OBVIOUS
  <2>1. CASE u \in BallotValues(B)
    <3>1. v \in Leaders(B) /\ u \notin Leaders(B)
      BY <1>2
    <3>2. PICK x \in BallotValues(B) : ~ (Votes(B, x) <= Votes(B, u))
      BY <2>1, <3>1 DEF Leaders
    <3>3. Votes(B, x) <= Votes(B, v)
      BY <3>1, <3>2 DEF Leaders
    <3> HIDE DEF votes, B
    <3>. QED  BY <1>1, <1>5, <3>2, <3>3
  <2>2. CASE u \notin BallotValues(B)
    <3>1. Voters(S, report, u) = {}
      <4> SUFFICES ASSUME NEW x \in S, report[x] = Ok(u)
                   PROVE  FALSE
        BY DEF Voters
      <4>1. report[x].tag = "ok" /\ report[x].val = u
        BY DEF Ok
      <4>2. <<u, x>> \in B
        BY <4>1 DEF BallotsOf
      <4>3. u \in BallotValues(B)
        BY <4>2 DEF BallotValues
      <4>. QED  BY <2>2, <4>3
    <3>2. w \in Voters(S, report, v) /\ IsFiniteSet(Voters(S, report, v))
      BY <1>4, FS_Subset DEF Voters
    <3>3. votes(u) = 0
      BY <3>1, FS_EmptySet
    <3>4. votes(v) # 0
      BY <3>2, FS_EmptySet
    <3> HIDE DEF votes
    <3>. QED  BY <1>5, <3>3, <3>4
  <2>. QED  BY <2>1, <2>2
<1>. QED  BY <1>3, <1>4, <1>6

\* And the converse: where one value outnumbers all others among the replies, the
\* decision functions return it.
LEMMA UniqueLeaderIsPlurality ==
    ASSUME NEW S, IsFiniteSet(S), S # {}, NEW V, NEW report,
           \A w \in S : report[w].tag = "ok" /\ report[w] = Ok(report[w].val) /\ report[w].val \in V,
           NEW v \in V,
           \A u \in V \ {v} : Cardinality(Voters(S, report, u)) < Cardinality(Voters(S, report, v))
    PROVE  Plurality(BallotsOf(S, report)) = Ok(v)
<1> DEFINE B == BallotsOf(S, report)
           votes(u) == Cardinality(Voters(S, report, u))
<1>1. \A u : Votes(B, u) = votes(u)
  BY VotesCountRpcs
<1>2. \A u : votes(u) \in Nat /\ (votes(u) = 0 <=> Voters(S, report, u) = {})
  BY FS_Subset, FS_CardinalityType, FS_EmptySet DEF Voters
<1>3. BallotValues(B) = {report[w].val : w \in S}
  <2>1. \A w \in S : <<report[w].val, w>> \in B
    BY DEF BallotsOf
  <2>2. \A b \in B : \E w \in S : b = <<report[w].val, w>>
    BY DEF BallotsOf
  <2> HIDE DEF B
  <2>3. \A w \in S : report[w].val \in BallotValues(B)
    <3> SUFFICES ASSUME NEW w \in S PROVE \E b \in B : report[w].val = b[1]
      BY DEF BallotValues
    <3>1. <<report[w].val, w>>[1] = report[w].val
      OBVIOUS
    <3>. QED  BY <2>1, <3>1
  <2>4. \A u \in BallotValues(B) : \E w \in S : u = report[w].val
    BY <2>2 DEF BallotValues
  <2>. QED  BY <2>3, <2>4
<1>4. \A w \in S : w \in Voters(S, report, report[w].val)
  BY DEF Voters
<1>5. v \in BallotValues(B)
  <2>1. PICK w \in S : TRUE
    OBVIOUS
  <2>2. votes(report[w].val) # 0
    BY <1>2, <1>4
  <2>3. votes(v) # 0
    <3> HIDE DEF votes
    <3>1. report[w].val # v => votes(report[w].val) < votes(v)
      BY DEF votes
    <3>. QED  BY <1>2, <2>2, <3>1
  <2>4. PICK x \in S : report[x] = Ok(v)
    BY <1>2, <2>3 DEF Voters
  <2>5. report[x].val = v
    BY <2>4 DEF Ok
  <2>. QED  BY <1>3, <2>5
<1>6. \A u \in BallotValues(B) : u \in V /\ (u # v => votes(u) < votes(v))
  BY <1>3
<1>7. Leaders(B) = {v}
  <2> HIDE DEF votes, B
  <2>. QED  BY <1>1, <1>2, <1>5, <1>6 DEF Leaders
<1> HIDE DEF B
<1>8. (CHOOSE x \in BallotValues(B) : Leaders(B) = {x}) = v
  BY <1>5, <1>7
<1>. QED  BY <1>5, <1>7, <1>8 DEF Plurality, B

\* Once every RPC has replied, the decision for slots, accounts and transactions is
\* Ok(v) exactly for the value v that more RPCs replied than any other, and a
\* mismatch exactly where no value leads: ties are refused, and a majority is not
\* asked for (sol.rs:1072-1159).
THEOREM PluralityExact ==
    ASSUME NEW S, IsFiniteSet(S), S # {}, NEW V, NEW report,
           \A w \in S : report[w].tag = "ok" /\ report[w] = Ok(report[w].val) /\ report[w].val \in V
    PROVE  LET res      == Plurality(BallotsOf(S, report))
               votes(v) == Cardinality(Voters(S, report, v))
               Leads(v) == \A u \in V \ {v} : votes(u) < votes(v)
           IN  /\ \A v \in V : res = Ok(v) <=> Leads(v)
               /\ res = Err("Custom") <=> \A v \in V : ~ Leads(v)
<1> DEFINE res      == Plurality(BallotsOf(S, report))
           votes(v) == Cardinality(Voters(S, report, v))
           Leads(v) == \A u \in V \ {v} : votes(u) < votes(v)
<1>1. ASSUME NEW v \in V, Leads(v)
      PROVE  res = Ok(v)
  BY <1>1, UniqueLeaderIsPlurality
<1>2. ASSUME res.tag = "ok"
      PROVE  res.val \in V /\ res = Ok(res.val) /\ Leads(res.val)
  <2>1. /\ \E w \in S : report[w] = Ok(res.val)
        /\ res = Ok(res.val)
        /\ \A u : u # res.val => votes(u) < votes(res.val)
    BY <1>2, PluralityIsUniqueLeader
  <2>2. PICK w \in S : report[w] = Ok(res.val)
    BY <2>1
  <2>3. report[w].val = res.val
    BY <2>2 DEF Ok
  <2>. QED  BY <2>1, <2>3
<1>3. res.tag = "ok" \/ res = Err("Custom")
  BY DEF Plurality, Ok
<1>4. \A v : Ok(v).tag = "ok" /\ Ok(v).val = v /\ Ok(v) # Err("Custom") /\ Err("Custom").tag # "ok"
  BY DEF Ok, Err
<1> HIDE DEF res, Leads
<1>5. \A v \in V : res = Ok(v) <=> Leads(v)
  BY <1>1, <1>2, <1>4
<1>6. res = Err("Custom") <=> \A v \in V : ~ Leads(v)
  BY <1>1, <1>2, <1>3, <1>4
<1>. QED  BY <1>5, <1>6 DEF res, Leads

-----------------------------------------------------------------------------
(* Lists.                                                                   *)

\* Where no list repeats an item, the occurrences of an item laid end to end
\* count the RPCs that list it.
LEMMA OccurrencesCountRpcs ==
    ASSUME NEW S, IsFiniteSet(S), NEW report,
           \A w \in S : report[w].tag = "ok",
           \A w \in S : \A i, j \in DOMAIN report[w].val : report[w].val[i] = report[w].val[j] => i = j,
           NEW x
    PROVE  Occurrences(BallotsOf(S, report), x)
             = Cardinality({w \in S : x \in Range(report[w].val)})
<1> DEFINE B      == BallotsOf(S, report)
           A      == {w \in S : x \in Range(report[w].val)}
           O      == {o \in B \X UNION {DOMAIN b[1] : b \in B} :
                         o[2] \in DOMAIN o[1][1] /\ o[1][1][o[2]] = x}
           pos(w) == CHOOSE i \in DOMAIN report[w].val : report[w].val[i] = x
           f      == [w \in A |-> <<<<report[w].val, w>>, pos(w)>>]
<1>1. IsFiniteSet(A)
  BY FS_Subset
<1>2. \A w \in A : pos(w) \in DOMAIN report[w].val /\ report[w].val[pos(w)] = x
  BY DEF Range
<1>3. \A w \in S : <<report[w].val, w>> \in B
  BY DEF BallotsOf
<1>4. \A b \in B : b[2] \in S /\ b = <<report[b[2]].val, b[2]>>
  BY DEF BallotsOf
<1> HIDE DEF B, pos
<1>5. f \in [A -> O]
  <2> SUFFICES ASSUME NEW w \in A PROVE f[w] \in O
    OBVIOUS
  <2>1. <<report[w].val, w>> \in B /\ pos(w) \in DOMAIN report[w].val
    BY <1>2, <1>3
  <2>2. pos(w) \in UNION {DOMAIN b[1] : b \in B}
    BY <2>1
  <2>. QED  BY <1>2, <2>1, <2>2
<1>6. \A w, z \in A : f[w] = f[z] => w = z
  OBVIOUS
<1>7. \A o \in O : \E w \in A : f[w] = o
  <2> SUFFICES ASSUME NEW o \in O PROVE \E w \in A : f[w] = o
    OBVIOUS
  <2>1. PICK b \in B, i \in UNION {DOMAIN c[1] : c \in B} :
             o = <<b, i>> /\ i \in DOMAIN b[1] /\ b[1][i] = x
    OBVIOUS
  <2> DEFINE w == b[2]
  <2>2. w \in S /\ b = <<report[w].val, w>>
    BY <1>4
  <2>3. w \in A
    BY <2>1, <2>2 DEF Range
  <2>4. pos(w) = i
    BY <1>2, <2>1, <2>2, <2>3
  <2>. QED  BY <2>1, <2>2, <2>3, <2>4
<1>8. f \in Bijection(A, O)
  BY <1>5, <1>6, <1>7 DEF Bijection, Injection, Surjection, IsInjective
<1>9. Cardinality(O) = Cardinality(A)
  <2> HIDE DEF A, O, f
  <2>. QED  BY <1>1, <1>8, FS_Bijection DEF ExistsBijection
<1>. QED  BY <1>9 DEF Occurrences, B

\* Then the list functions return what every RPC lists (sol.rs:1046-1070,
\* 1161-1182).
LEMMA CommonIsInEveryList ==
    ASSUME NEW S, IsFiniteSet(S), S # {}, NEW report,
           \A w \in S : report[w].tag = "ok",
           \A w \in S : \A i, j \in DOMAIN report[w].val : report[w].val[i] = report[w].val[j] => i = j,
           NEW x
    PROVE  x \in Common(BallotsOf(S, report)) <=> \A w \in S : x \in Range(report[w].val)
<1> DEFINE B == BallotsOf(S, report)
           A == {w \in S : x \in Range(report[w].val)}
<1>1. {b[2] : b \in B} = S
  <2>1. \A w \in S : <<report[w].val, w>> \in B
    BY DEF BallotsOf
  <2>2. \A b \in B : b[2] \in S
    BY DEF BallotsOf
  <2> HIDE DEF B
  <2>3. \A w \in S : \E b \in B : w = b[2]
    <3> SUFFICES ASSUME NEW w \in S PROVE \E b \in B : w = b[2]
      OBVIOUS
    <3>1. <<report[w].val, w>>[2] = w
      OBVIOUS
    <3>. QED  BY <2>1, <3>1
  <2>. QED  BY <2>2, <2>3
<1>2. Occurrences(B, x) = Cardinality(A)
  BY OccurrencesCountRpcs
<1>3. Cardinality(A) = Cardinality(S) <=> A = S
  BY FS_Subset
<1>4. A = S => x \in Items(B)
  <2> SUFFICES ASSUME A = S PROVE x \in Items(B)
    OBVIOUS
  <2>1. PICK w \in S : x \in Range(report[w].val)
    OBVIOUS
  <2>2. <<report[w].val, w>> \in B
    BY DEF BallotsOf
  <2>. QED  BY <2>1, <2>2 DEF Items
<1> HIDE DEF B
<1>5. x \in Common(B) <=> A = S
  BY <1>1, <1>2, <1>3, <1>4 DEF Common
<1>. QED  BY <1>5 DEF B

\* An item is seen twice if it is in both a repeat-free list and the set.
LEMMA SeenTwiceIsShared ==
    ASSUME NEW l, \A i, j \in DOMAIN l : l[i] = l[j] => i = j, NEW E, NEW x
    PROVE  x \in SeenTwice(l, E) <=> x \in Range(l) /\ x \in E
<1> DEFINE P == {i \in DOMAIN l : l[i] = x}
<1>1. x \in Range(l) => Cardinality(P) = 1
  <2> SUFFICES ASSUME x \in Range(l) PROVE Cardinality(P) = 1
    OBVIOUS
  <2>1. PICK i \in DOMAIN l : l[i] = x
    BY DEF Range
  <2>2. P = {i}
    BY <2>1
  <2>. QED  BY <2>2, FS_Singleton
<1>2. x \notin Range(l) => Cardinality(P) = 0
  <2> SUFFICES ASSUME x \notin Range(l) PROVE Cardinality(P) = 0
    OBVIOUS
  <2>1. P = {}
    BY DEF Range
  <2>. QED  BY <2>1, FS_EmptySet
<1>3. x \in SeenTwice(l, E)
      <=> x \in Range(l) \cup E /\ Cardinality(P) + (IF x \in E THEN 1 ELSE 0) = 2
  BY DEF SeenTwice
<1> HIDE DEF P
<1>. QED  BY <1>1, <1>2, <1>3
=============================================================================
