--------------------------- MODULE HeaderSyncProofs ---------------------------
(***************************************************************************)
(* Proofs about HeaderSync: the process can always be started again, the   *)
(* filter of what is synced leaves no hole, and the header list is a       *)
(* chain.                                                                  *)
(*                                                                         *)
(* None of them is inductive alone.  What carries them is that the rows on *)
(* disk, and the blocks in memory, hold with a block all its ancestors     *)
(* (AncestorsSynced): then what a sync has still to add is a suffix of the *)
(* chain of its target, however often it was interrupted before.           *)
(***************************************************************************)
EXTENDS HeaderSync, SequenceTheorems, WellFoundedInduction, TLAPS

-----------------------------------------------------------------------------
(* The inductive invariant.                                                *)

Closed(S) == \A b \in S : Range(Chain[b]) \subseteq S

\* On disk, and in memory, no block stands without its ancestors; the durable
\* tip is one of them.
AncestorsSynced ==
    /\ Closed(rows) /\ Closed(synced) /\ synced \subseteq rows
    /\ diskTip \in rows \cup {None}

\* The header list is the chain of its tip, synced and found by its hashes.
ListOfTip ==
    /\ headers = ChainOf(Tip(headers))
    /\ Range(headers) \subseteq synced
    /\ \A b \in Range(headers) : heights[b] = Height(b)

Busy == {"fetch", "write", "apply", "check"}

\* toAdd is what follows the first k headers of the target's chain.
AddsAfter(k) ==
    /\ k + Len(toAdd) = Len(Chain[target])
    /\ \A i \in 1 .. Len(toAdd) : toAdd[i] = Chain[target][k + i]
    /\ \A i \in 1 .. k : Chain[target][i] \in synced

\* A sync has a target; its new headers continue what is synced, and are on disk
\* as far as they have been written, all of them before the tip is.
InOrder ==
    /\ pc \in Busy => target \in Block
    /\ pc \in {"write", "apply"} => \E k \in Nat : AddsAfter(k)
    /\ pc = "write" => \A i \in 1 .. written : toAdd[i] \in rows
    /\ pc = "apply" => Range(toAdd) \subseteq synced

IInv == TypeOK /\ AncestorsSynced /\ ListOfTip /\ InOrder

-----------------------------------------------------------------------------
(* Numbers and sequences.                                                  *)

LEMMA LeastOf ==
    ASSUME NEW T \in SUBSET Nat, T # {}
    PROVE  \E m \in T : \A n \in T : m <= n
<1> DEFINE Less == OpToRel(<, Nat)
<1>1. IsWellFoundedOn(Less, Nat)
  BY NatLessThanWellFounded
<1>2. \A m, n \in Nat : m < n => <<m, n>> \in Less
  BY DEF OpToRel
<1> HIDE DEF Less
<1>3. PICK m \in T : \A n \in T : ~ (<<n, m>> \in Less)
  BY <1>1, WFMin
<1>4. \A n \in T : ~ (n < m)
  BY <1>2, <1>3
<1>5. QED  BY <1>4

LEMMA GreatestOf ==
    ASSUME NEW n \in Nat, NEW T \in SUBSET (0 .. n), T # {}
    PROVE  \E m \in T : \A i \in T : i <= m
<1> DEFINE D == {n - i : i \in T}
<1>1. D \in SUBSET Nat /\ D # {}
  <2>1. \A i \in T : n - i \in Nat
    OBVIOUS
  <2>2. QED  BY <2>1
<1>2. PICK d \in D : \A e \in D : d <= e
  BY <1>1, LeastOf
<1>3. PICK m \in T : d = n - m
  OBVIOUS
<1>4. \A i \in T : n - m <= n - i
  BY <1>2, <1>3
<1>5. QED  BY <1>4

\* The filter keeps exactly a suffix where only that suffix is not synced.
LEMMA FilterIsSuffix ==
    ASSUME NEW s \in Seq(Block), NEW k \in 0 .. Len(s),
           \A i \in 1 .. k : s[i] \in synced,
           \A i \in k + 1 .. Len(s) : s[i] \notin synced
    PROVE  NotSynced(s) = SubSeq(s, k + 1, Len(s))
<1> DEFINE Kept(f) == [i \in 0 .. Len(s) |->
                          IF i = 0 THEN <<>>
                          ELSE IF s[i] \in synced THEN f[i - 1] ELSE Append(f[i - 1], s[i])]
           kept == CHOOSE f : f = Kept(f)
           g    == [i \in 0 .. Len(s) |-> SubSeq(s, k + 1, i)]
<1>1. NotSynced(s) = kept[Len(s)]
  BY DEF NotSynced
<1>2. \A i \in 0 .. k : SubSeq(s, k + 1, i) = <<>>
  BY SubSeqEmpty
<1>3. \A i \in k + 1 .. Len(s) : SubSeq(s, k + 1, i) = Append(SubSeq(s, k + 1, i - 1), s[i])
  <2> SUFFICES ASSUME NEW i \in k + 1 .. Len(s)
               PROVE  SubSeq(s, k + 1, i) = Append(SubSeq(s, k + 1, i - 1), s[i])
    OBVIOUS
  <2> DEFINE a == SubSeq(s, k + 1, i)
             b == SubSeq(s, k + 1, i - 1)
  <2>1. /\ a \in Seq(Block) /\ Len(a) = i - k
        /\ \A j \in 1 .. i - k : a[j] = s[k + j]
    BY SubSeqProperties
  <2>2. /\ b \in Seq(Block) /\ Len(b) = i - k - 1
        /\ \A j \in 1 .. i - k - 1 : b[j] = s[k + j]
    BY SubSeqProperties
  <2>3. s[i] \in Block
    OBVIOUS
  <2> HIDE DEF a, b
  <2>4. /\ Append(b, s[i]) \in Seq(Block) /\ Len(Append(b, s[i])) = i - k
        /\ \A j \in 1 .. i - k : Append(b, s[i])[j] = IF j = i - k THEN s[i] ELSE b[j]
    BY <2>2, <2>3, AppendProperties
  <2>5. \A j \in 1 .. i - k : a[j] = Append(b, s[i])[j]
    BY <2>1, <2>2, <2>4
  <2>6. a = Append(b, s[i])
    BY <2>1, <2>4, <2>5, SeqEqual
  <2>7. QED  BY <2>6 DEF a, b
<1>4. g = Kept(g)
  <2>1. \A i \in 0 .. Len(s) : g[i] = Kept(g)[i]
    <3> SUFFICES ASSUME NEW i \in 0 .. Len(s) PROVE g[i] = Kept(g)[i]
      OBVIOUS
    <3>1. CASE i = 0
      BY <3>1, <1>2
    <3>2. CASE i \in 1 .. k
      <4>1. g[i] = <<>> /\ g[i - 1] = <<>>
        BY <3>2, <1>2
      <4>2. QED  BY <3>2, <4>1
    <3>3. CASE i \in k + 1 .. Len(s)
      <4>1. g[i] = SubSeq(s, k + 1, i) /\ g[i - 1] = SubSeq(s, k + 1, i - 1)
        BY <3>3
      <4>2. Kept(g)[i] = Append(g[i - 1], s[i])
        BY <3>3
      <4>3. QED  BY <1>3, <3>3, <4>1, <4>2
    <3>4. i = 0 \/ i \in 1 .. k \/ i \in k + 1 .. Len(s)
      OBVIOUS
    <3> HIDE DEF g, Kept
    <3>5. QED  BY <3>1, <3>2, <3>3, <3>4
  <2>2. QED  BY <2>1
<1>5. kept = Kept(kept)
  BY <1>4
<1>6. \A i \in 0 .. Len(s) :
          kept[i] = IF i = 0 THEN <<>>
                    ELSE IF s[i] \in synced THEN kept[i - 1] ELSE Append(kept[i - 1], s[i])
  BY <1>5
<1>7. \A i \in 0 .. Len(s) :
          g[i] = IF i = 0 THEN <<>>
                 ELSE IF s[i] \in synced THEN g[i - 1] ELSE Append(g[i - 1], s[i])
  BY <1>4
<1>8. g[Len(s)] = SubSeq(s, k + 1, Len(s))
  OBVIOUS
<1> HIDE DEF kept, g, Kept
<1>9. \A i \in 0 .. Len(s) : kept[i] = g[i]
  <2> DEFINE T == {i \in 0 .. Len(s) : kept[i] # g[i]}
  <2>1. SUFFICES ASSUME T # {} PROVE FALSE
    OBVIOUS
  <2>2. PICK m \in T : \A i \in T : m <= i
    <3>1. T \in SUBSET Nat
      OBVIOUS
    <3> HIDE DEF T
    <3>2. QED  BY <2>1, <3>1, LeastOf
  <2>3. m # 0
    BY <1>6, <1>7
  <2>4. m - 1 \in 0 .. Len(s) /\ kept[m - 1] = g[m - 1]
    BY <2>2, <2>3
  <2>5. QED  BY <1>6, <1>7, <2>2, <2>3, <2>4
<1>10. QED  BY <1>1, <1>8, <1>9

-----------------------------------------------------------------------------
(* Chains.                                                                 *)

LEMMA ChainFacts ==
    ASSUME NEW x \in Block
    PROVE  /\ Chain[x] \in Seq(Block) /\ Len(Chain[x]) \in Nat \ {0}
           /\ Chain[x][Len(Chain[x])] = x
           /\ Height(x) \in Nat
           /\ Range(Chain[x]) = {Chain[x][i] : i \in 1 .. Len(Chain[x])}
<1>1. Chain[x] \in Seq(Block) /\ Chain[x] # <<>>
  BY ChainAssumption
<1>2. Len(Chain[x]) \in Nat \ {0}
  BY <1>1, EmptySeq
<1>3. Last(Chain[x]) = x
  BY ChainAssumption
<1>4. DOMAIN Chain[x] = 1 .. Len(Chain[x])
  BY <1>1, LenProperties
<1>5. QED  BY <1>1, <1>2, <1>3, <1>4 DEF Last, Height, Range

\* A header of a chain has there the height that its own chain gives it.
LEMMA Ancestor ==
    ASSUME NEW x \in Block, NEW i \in 1 .. Len(Chain[x])
    PROVE  /\ Chain[x][i] \in Block
           /\ Len(Chain[Chain[x][i]]) = i /\ Height(Chain[x][i]) = i - 1
           /\ \A j \in 1 .. i : Chain[Chain[x][i]][j] = Chain[x][j]
<1>1. Chain[x] \in Seq(Block)
  BY ChainFacts
<1>2. Chain[x][i] \in Block
  BY <1>1, ElementOfSeq
<1>3. DOMAIN Chain[x] = 1 .. Len(Chain[x])
  BY <1>1, LenProperties
<1>4. Chain[Chain[x][i]] = SubSeq(Chain[x], 1, i)
  BY <1>3, ChainAssumption
<1>5. /\ Len(SubSeq(Chain[x], 1, i)) = i
      /\ \A j \in 1 .. i : SubSeq(Chain[x], 1, i)[j] = Chain[x][j]
  <2>1. \A j \in 1 .. i : Chain[x][j] \in Block
    BY <1>1, ElementOfSeq, ChainFacts
  <2>2. QED  BY <2>1, SubSeqProperties
<1>6. QED  BY <1>2, <1>4, <1>5 DEF Height

\* Closed sets take a chain from any of its blocks down.
LEMMA ClosedDown ==
    ASSUME NEW U, Closed(U), NEW x \in Block, NEW i \in 1 .. Len(Chain[x]), Chain[x][i] \in U,
           NEW j \in 1 .. i
    PROVE  Chain[x][j] \in U
<1>1. Range(Chain[Chain[x][i]]) \subseteq U
  BY DEF Closed
<1>2. Chain[x][i] \in Block /\ Len(Chain[Chain[x][i]]) = i /\ Chain[Chain[x][i]][j] = Chain[x][j]
  BY Ancestor
<1>3. Chain[x][j] \in Range(Chain[Chain[x][i]])
  <2> DEFINE y == Chain[x][i]
  <2>1. Range(Chain[y]) = {Chain[y][m] : m \in 1 .. Len(Chain[y])}
    BY <1>2, ChainFacts
  <2>2. QED  BY <1>2, <2>1
<1>4. QED  BY <1>1, <1>3

-----------------------------------------------------------------------------
(* One sync.                                                               *)

\* The new headers start above a header of the target's chain that is synced, or
\* with its first.
LEMMA NewHeadersFrom ==
    ASSUME TypeOK, ListOfTip, target \in Block
    PROVE  \E m \in 0 .. Len(Chain[target]) :
               /\ NewHeaders = SubSeq(Chain[target], m + 1, Len(Chain[target]))
               /\ m > 0 => Chain[target][m] \in synced
<1> DEFINE n     == Len(Chain[target])
           known == {i \in DOMAIN Chain[target] : Known(Chain[target][i])} \cup {0}
           top   == CHOOSE i \in known : \A j \in known : j <= i
<1>1. n \in Nat \ {0} /\ Chain[target] \in Seq(Block) /\ DOMAIN Chain[target] = 1 .. n
  BY ChainFacts, LenProperties
<1>2. known \in SUBSET (0 .. n) /\ known # {}
  BY <1>1
<1>3. \E i \in known : \A j \in known : j <= i
  <2> HIDE DEF n, known
  <2>1. QED  BY <1>1, <1>2, GreatestOf
<1>4. PICK q \in known : q = top
  BY <1>3
<1>5. CASE headers = <<>>
  <2>1. NewHeaders = Chain[target]
    BY <1>5 DEF NewHeaders
  <2>2. SubSeq(Chain[target], 1, n) = Chain[target]
    <3>1. \A i \in 1 .. n : Chain[target][i] \in Block
      BY <1>1, ElementOfSeq
    <3>2. /\ SubSeq(Chain[target], 1, n) \in Seq(Block) /\ Len(SubSeq(Chain[target], 1, n)) = n
          /\ \A i \in 1 .. n : SubSeq(Chain[target], 1, n)[i] = Chain[target][i]
      BY <1>1, <3>1, SubSeqProperties
    <3>3. QED  BY <1>1, <3>2, SeqEqual
  <2>3. QED  BY <1>1, <2>1, <2>2
<1>6. CASE headers # <<>>
  <2>1. NewHeaders = SubSeq(Chain[target], 1 + q, n)
    BY <1>4, <1>6 DEF NewHeaders
  <2>2. q > 0 => Chain[target][q] \in synced
    <3>1. SUFFICES ASSUME q > 0 PROVE Chain[target][q] \in synced
      OBVIOUS
    <3> HIDE DEF top
    <3>2. Known(Chain[target][q])
      BY <3>1
    <3>3. headers \in Seq(Block) /\ DOMAIN headers = 1 .. Len(headers) /\ Len(headers) \in Nat
      BY LenProperties DEF TypeOK
    <3>4. \E i \in 1 .. Len(headers) : headers[i] = Chain[target][q]
      <4> DEFINE h == heights[Chain[target][q]]
      <4>1. h \in 0 .. Len(headers) - 1 /\ headers[h + 1] = Chain[target][q]
        BY <3>2 DEF Known
      <4>2. h + 1 \in 1 .. Len(headers)
        BY <3>3, <4>1
      <4>3. QED  BY <4>1, <4>2
    <3>5. QED  BY <3>3, <3>4 DEF ListOfTip, Range
  <2>3. q \in 0 .. n /\ 1 + q = q + 1
    <3> HIDE DEF top, n
    <3>1. q \in 0 .. n
      BY <1>2
    <3>2. QED  BY <1>1, <3>1
  <2> HIDE DEF top, known
  <2>4. QED  BY <2>1, <2>2, <2>3
<1>7. QED  BY <1>5, <1>6

\* What remains of them after the filter is the rest of the target's chain.
LEMMA ToAdd ==
    ASSUME TypeOK, ListOfTip, AncestorsSynced, target \in Block, toAdd' = NotSynced(NewHeaders)
    PROVE  /\ toAdd' \in Seq(Block)
           /\ \E n \in Nat :
                  /\ n + Len(toAdd') = Len(Chain[target])
                  /\ \A i \in 1 .. Len(toAdd') : toAdd'[i] = Chain[target][n + i]
                  /\ \A i \in 1 .. n : Chain[target][i] \in synced
<1> DEFINE c == Chain[target]
           l == Len(c)
           T == {i \in 0 .. l : i > 0 => c[i] \in synced}
<1>1. l \in Nat \ {0} /\ c \in Seq(Block) /\ \A i \in 1 .. l : c[i] \in Block
  BY ChainFacts, ElementOfSeq
<1>2. PICK m \in 0 .. l : /\ NewHeaders = SubSeq(c, m + 1, l)
                          /\ m > 0 => c[m] \in synced
  BY NewHeadersFrom
<1>3. PICK n \in T : \A i \in T : i <= n
  <2>1. T \in SUBSET (0 .. l) /\ T # {}
    BY <1>1
  <2> HIDE DEF T, l
  <2>2. QED  BY <1>1, <2>1, GreatestOf
<1>4. \A i \in 1 .. n : c[i] \in synced
  <2> SUFFICES ASSUME NEW i \in 1 .. n PROVE c[i] \in synced
    OBVIOUS
  <2>1. Closed(synced) /\ n \in 1 .. Len(Chain[target]) /\ Chain[target][n] \in synced
    BY <1>1, <1>3 DEF AncestorsSynced
  <2>2. QED  BY <2>1, ClosedDown
<1>5. \A i \in n + 1 .. l : c[i] \notin synced
  BY <1>1, <1>3
<1>6. m \in T /\ m <= n /\ n \in 0 .. l
  BY <1>2, <1>3
<1> HIDE DEF c, l, T
<1> DEFINE s == SubSeq(c, m + 1, l)
<1>7. s \in Seq(Block) /\ Len(s) = l - m /\ \A i \in 1 .. l - m : s[i] = c[m + i]
  <2>1. \A i \in m + 1 .. l : c[i] \in Block
    BY <1>1, <1>6
  <2>2. m + 1 \in Int /\ l \in Int /\ l - (m + 1) + 1 = l - m
        /\ (IF m + 1 <= l THEN l - (m + 1) + 1 ELSE 0) = l - m
    BY <1>1, <1>6
  <2>3. /\ s \in Seq(Block) /\ Len(s) = l - m
        /\ \A i \in 1 .. l - (m + 1) + 1 : s[i] = c[(m + 1) + i - 1]
    BY <2>1, <2>2, SubSeqProperties
  <2>4. QED  BY <1>1, <1>6, <2>2, <2>3
<1> HIDE DEF s
<1>8. NotSynced(s) = SubSeq(s, (n - m) + 1, Len(s))
  <2>1. n - m \in 0 .. Len(s)
    BY <1>1, <1>6, <1>7
  <2>2. \A i \in 1 .. n - m : s[i] \in synced
    BY <1>1, <1>4, <1>6, <1>7
  <2>3. \A i \in (n - m) + 1 .. Len(s) : s[i] \notin synced
    BY <1>1, <1>5, <1>6, <1>7
  <2>4. QED  BY <1>7, <2>1, <2>2, <2>3, FilterIsSuffix
<1>9. /\ toAdd' \in Seq(Block) /\ Len(toAdd') = l - n
      /\ \A i \in 1 .. l - n : toAdd'[i] = c[n + i]
  <2> DEFINE a == (n - m) + 1
             b == Len(s)
             u == SubSeq(s, a, b)
  <2>1. \A i \in a .. b : s[i] \in Block
    BY <1>6, <1>7, ElementOfSeq
  <2>2. a \in Int /\ b \in Int /\ b - a + 1 = l - n /\ (IF a <= b THEN b - a + 1 ELSE 0) = l - n
    BY <1>1, <1>6, <1>7
  <2>3. toAdd' = u
    BY <1>2, <1>8 DEF s
  <2>4. u \in Seq(Block) /\ Len(u) = l - n /\ \A i \in 1 .. b - a + 1 : u[i] = s[a + i - 1]
    <3> HIDE DEF a, b
    <3>1. QED  BY <2>1, <2>2, SubSeqProperties
  <2>5. \A i \in 1 .. l - n : a + i - 1 \in 1 .. l - m /\ m + (a + i - 1) = n + i
    BY <1>1, <1>6
  <2>6. QED  BY <1>7, <2>2, <2>3, <2>4, <2>5
<1>10. n \in Nat /\ n + Len(toAdd') = l
  BY <1>1, <1>6, <1>9
<1>11. \A i \in 1 .. Len(toAdd') : toAdd'[i] = c[n + i]
  BY <1>1, <1>6, <1>9
<1>12. c = Chain[target] /\ l = Len(Chain[target])
  BY DEF c, l
<1>13. QED  BY <1>4, <1>9, <1>10, <1>11, <1>12

LEMMA TipOfChain ==
    ASSUME NEW x \in Block \cup {None}
    PROVE  /\ ChainOf(x) \in Seq(Block) /\ Tip(ChainOf(x)) = x
           /\ \A y \in Range(ChainOf(x)) : y \in Block /\ Height(y) \in Nat
<1>1. CASE x = None
  <2>1. ChainOf(x) = <<>>
    BY <1>1 DEF ChainOf
  <2>2. Range(<<>>) = {}
    BY EmptySeq DEF Range
  <2>3. QED  BY <1>1, <2>1, <2>2, EmptySeq DEF Tip
<1>2. CASE x \in Block
  <2>1. ChainOf(x) = Chain[x] /\ Chain[x] # <<>> /\ Last(Chain[x]) = x
    BY <1>2, NoBlockAssumption, ChainAssumption DEF ChainOf
  <2>2. \A y \in Range(Chain[x]) : y \in Block
    <3>1. Range(Chain[x]) = {Chain[x][i] : i \in 1 .. Len(Chain[x])}
      BY <1>2, ChainFacts
    <3>2. \A i \in 1 .. Len(Chain[x]) : Chain[x][i] \in Block
      BY <1>2, Ancestor
    <3>3. QED  BY <3>1, <3>2
  <2>3. QED  BY <1>2, <2>1, <2>2, ChainFacts DEF Tip
<1>3. QED  BY <1>1, <1>2

-----------------------------------------------------------------------------
(* The initial states, and the steps.                                      *)

LEMMA InvInit == Init => IInv
<1> SUFFICES ASSUME Init PROVE IInv  OBVIOUS
<1>1. TypeOK
  <2>1. <<>> \in Seq(Block) /\ Len(<<>>) = 0
    BY EmptySeq
  <2>2. QED  BY <2>1, BoundAssumption DEF Init, TypeOK, NotIndexed
<1>2. AncestorsSynced
  BY DEF Init, AncestorsSynced, Closed
<1>3. ListOfTip
  <2>1. Range(<<>>) = {}
    BY EmptySeq DEF Range
  <2>2. QED  BY <2>1 DEF Init, ListOfTip, Tip, ChainOf
<1>4. InOrder
  BY DEF Init, InOrder, Busy
<1>5. QED  BY <1>1, <1>2, <1>3, <1>4 DEF IInv

\* The daemon moves, a request is failed, a sync begins.
LEMMA BeginKeeps ==
    ASSUME IInv, GetBestBlockHash \/ RequestFails \/ \E b \in Block : MoveBest(b)
    PROVE  IInv'
<1>1. UNCHANGED <<diskVars, memoryVars, tip, toAdd, written>>
  BY DEF GetBestBlockHash, RequestFails, MoveBest, syncVars
<1>2. TypeOK'
  <2>1. CASE GetBestBlockHash
    BY <2>1 DEF IInv, TypeOK, GetBestBlockHash, diskVars, memoryVars
  <2>2. CASE RequestFails
    BY <2>2, BoundAssumption DEF IInv, TypeOK, RequestFails, AfterError, diskVars, memoryVars, syncVars
  <2>3. CASE \E b \in Block : MoveBest(b)
    BY <2>3, BoundAssumption DEF IInv, TypeOK, MoveBest, diskVars, memoryVars, syncVars
  <2>4. QED  BY <2>1, <2>2, <2>3
<1>3. AncestorsSynced' /\ ListOfTip'
  BY <1>1 DEF IInv, AncestorsSynced, ListOfTip, diskVars, memoryVars
<1>4. InOrder'
  <2>1. CASE GetBestBlockHash
    BY <2>1 DEF IInv, TypeOK, InOrder, GetBestBlockHash
  <2>2. CASE RequestFails
    BY <2>2 DEF InOrder, Busy, RequestFails, AfterError
  <2>3. CASE \E b \in Block : MoveBest(b)
    BY <2>3 DEF IInv, InOrder, AddsAfter, Busy, MoveBest, diskVars, memoryVars, syncVars
  <2>4. QED  BY <2>1, <2>2, <2>3
<1>5. QED  BY <1>2, <1>3, <1>4 DEF IInv

LEMMA FetchKeeps ==
    ASSUME IInv, FetchHeaders
    PROVE  IInv'
<1>1. UNCHANGED <<best, diskVars, memoryVars, tip, target, moves, faults>> /\ target \in Block
  BY DEF IInv, InOrder, Busy, FetchHeaders
<1>2. Served => /\ toAdd' \in Seq(Block)
                /\ \E n \in Nat : AddsAfter(n)'
  <2>1. SUFFICES ASSUME Served PROVE /\ toAdd' \in Seq(Block)
                                     /\ \E n \in Nat : AddsAfter(n)'
    OBVIOUS
  <2>2. toAdd' = NotSynced(NewHeaders)
    BY <2>1 DEF FetchHeaders
  <2>3. /\ toAdd' \in Seq(Block)
        /\ \E n \in Nat :
               /\ n + Len(toAdd') = Len(Chain[target])
               /\ \A i \in 1 .. Len(toAdd') : toAdd'[i] = Chain[target][n + i]
               /\ \A i \in 1 .. n : Chain[target][i] \in synced
    BY <1>1, <2>2, ToAdd DEF IInv
  <2>4. QED  BY <1>1, <2>3 DEF AddsAfter, memoryVars
<1>3. toAdd' \in Seq(Block) /\ written' = 0 /\ Len(toAdd') \in Nat
  BY <1>2, LenProperties DEF IInv, TypeOK, FetchHeaders
<1>4. TypeOK'
  BY <1>1, <1>3 DEF IInv, TypeOK, FetchHeaders, diskVars, memoryVars
<1>5. AncestorsSynced' /\ ListOfTip'
  BY <1>1 DEF IInv, AncestorsSynced, ListOfTip, diskVars, memoryVars
<1>6. InOrder'
  <2>1. CASE Served
    <3>1. pc' = "write"
      BY <2>1 DEF FetchHeaders
    <3>2. QED  BY <1>1, <1>2, <1>3, <2>1, <3>1 DEF InOrder
  <2>2. CASE ~ Served
    BY <2>2 DEF FetchHeaders, InOrder, Busy
  <2>3. QED  BY <2>1, <2>2
<1>7. QED  BY <1>4, <1>5, <1>6 DEF IInv

\* Where a sync adds the rest of its target's chain: heights, and ancestors.
LEMMA AddedFacts ==
    ASSUME target \in Block, NEW n \in Nat, AddsAfter(n), toAdd \in Seq(Block)
    PROVE  /\ \A i \in 1 .. Len(toAdd) :
                  /\ toAdd[i] \in Block
                  /\ Height(toAdd[i]) = (n + i) - 1 /\ Len(Chain[toAdd[i]]) = n + i
                  /\ \A j \in 1 .. n + i : Chain[toAdd[i]][j] = Chain[target][j]
           /\ Range(toAdd) = {Chain[target][i] : i \in n + 1 .. Len(Chain[target])}
<1>1. Len(toAdd) \in Nat /\ Len(Chain[target]) \in Nat /\ DOMAIN toAdd = 1 .. Len(toAdd)
  BY ChainFacts, LenProperties
<1>2. \A i \in 1 .. Len(toAdd) :
          /\ toAdd[i] \in Block
          /\ Height(toAdd[i]) = (n + i) - 1 /\ Len(Chain[toAdd[i]]) = n + i
          /\ \A j \in 1 .. n + i : Chain[toAdd[i]][j] = Chain[target][j]
  <2> SUFFICES ASSUME NEW i \in 1 .. Len(toAdd)
               PROVE  /\ toAdd[i] \in Block
                      /\ Height(toAdd[i]) = (n + i) - 1 /\ Len(Chain[toAdd[i]]) = n + i
                      /\ \A j \in 1 .. n + i : Chain[toAdd[i]][j] = Chain[target][j]
    OBVIOUS
  <2>1. n + i \in 1 .. Len(Chain[target]) /\ toAdd[i] = Chain[target][n + i]
    BY <1>1 DEF AddsAfter
  <2>2. QED  BY <2>1, Ancestor
<1>3. Range(toAdd) = {Chain[target][i] : i \in n + 1 .. Len(Chain[target])}
  <2>1. Range(toAdd) = {toAdd[i] : i \in 1 .. Len(toAdd)}
    BY <1>1 DEF Range
  <2>2. \A i \in 1 .. Len(toAdd) : toAdd[i] \in {Chain[target][j] : j \in n + 1 .. Len(Chain[target])}
    BY <1>1 DEF AddsAfter
  <2>3. \A j \in n + 1 .. Len(Chain[target]) : Chain[target][j] \in {toAdd[i] : i \in 1 .. Len(toAdd)}
    <3> TAKE j \in n + 1 .. Len(Chain[target])
    <3>1. j - n \in 1 .. Len(toAdd) /\ toAdd[j - n] = Chain[target][n + (j - n)] /\ n + (j - n) = j
      BY <1>1 DEF AddsAfter
    <3>2. QED  BY <3>1
  <2>4. QED  BY <2>1, <2>2, <2>3
<1>4. QED  BY <1>2, <1>3

\* A chunk goes to disk above what is there already.
LEMMA WriteKeeps ==
    ASSUME IInv, WriteChunk
    PROVE  IInv'
<1>1. /\ UNCHANGED <<best, diskTip, memoryVars, pc, tip, target, toAdd, moves, faults>>
      /\ target \in Block /\ pc = "write" /\ toAdd \in Seq(Block)
  BY DEF IInv, TypeOK, InOrder, Busy, WriteChunk
<1>2. /\ written' \in 0 .. Len(toAdd) /\ written <= written'
      /\ rows' = rows \cup {toAdd[i] : i \in written + 1 .. written'}
  <2>1. ChunkSize \in Nat /\ written \in 0 .. Len(toAdd) /\ Len(toAdd) \in Nat
    BY <1>1, BoundAssumption, LenProperties DEF IInv, TypeOK
  <2>2. QED  BY <2>1 DEF WriteChunk
<1>3. PICK n \in Nat : AddsAfter(n)
  BY <1>1 DEF IInv, InOrder
<1>4. \A i \in 1 .. written' : toAdd[i] \in rows'
  <2>1. \A i \in 1 .. written : toAdd[i] \in rows
    BY <1>1 DEF IInv, InOrder
  <2>2. \A i \in 1 .. written' : i \in 1 .. written \/ i \in written + 1 .. written'
    BY <1>2 DEF IInv, TypeOK
  <2>3. QED  BY <1>2, <2>1, <2>2
<1>5. TypeOK'
  <2>1. \A i \in written + 1 .. written' : toAdd[i] \in Block
    BY <1>1, <1>2, ElementOfSeq DEF IInv, TypeOK
  <2>2. rows' \subseteq Block
    BY <1>2, <2>1 DEF IInv, TypeOK
  <2>3. QED  BY <1>1, <1>2, <2>2 DEF IInv, TypeOK, memoryVars
<1>6. AncestorsSynced'
  <2>1. Closed(rows')
    <3> SUFFICES ASSUME NEW b \in rows' PROVE Range(Chain[b]) \subseteq rows'
      BY DEF Closed
    <3>1. CASE b \in rows
      BY <1>2, <3>1 DEF IInv, AncestorsSynced, Closed
    <3>2. CASE b \notin rows
      <4>1. PICK i \in written + 1 .. written' : b = toAdd[i]
        BY <1>2, <3>2
      <4>2. i \in 1 .. Len(toAdd)
        BY <1>2, <4>1 DEF IInv, TypeOK
      <4>3. /\ b \in Block /\ Len(Chain[b]) = n + i
            /\ \A j \in 1 .. n + i : Chain[b][j] = Chain[target][j]
        BY <1>1, <1>3, <4>1, <4>2, AddedFacts
      <4>4. \A j \in 1 .. n + i : Chain[target][j] \in rows'
        <5> TAKE j \in 1 .. n + i
        <5>1. CASE j <= n
          BY <1>2, <1>3, <5>1 DEF IInv, AncestorsSynced, AddsAfter
        <5>2. CASE j > n
          <6>1. j - n \in 1 .. written' /\ j - n \in 1 .. Len(toAdd) /\ n + (j - n) = j
            BY <1>2, <4>1, <4>2, <5>2
          <6>2. toAdd[j - n] = Chain[target][j]
            BY <1>3, <6>1 DEF AddsAfter
          <6>3. QED  BY <1>4, <6>1, <6>2
        <5>3. QED  BY <5>1, <5>2
      <4>5. Range(Chain[b]) = {Chain[b][j] : j \in 1 .. Len(Chain[b])}
        BY <4>3, ChainFacts
      <4>6. QED  BY <4>3, <4>4, <4>5
    <3>3. QED  BY <3>1, <3>2
  <2>2. QED  BY <1>1, <1>2, <2>1 DEF IInv, AncestorsSynced, memoryVars
<1>7. ListOfTip' /\ InOrder'
  BY <1>1, <1>4 DEF IInv, ListOfTip, InOrder, AddsAfter, memoryVars
<1>8. QED  BY <1>5, <1>6, <1>7 DEF IInv

\* When the tip goes to disk its whole chain is there, and is synced.
LEMMA PutTipKeeps ==
    ASSUME IInv, PutTip
    PROVE  IInv'
<1>1. /\ UNCHANGED <<best, rows, headers, heights, tip, syncVars, moves, faults>>
      /\ target \in Block /\ pc = "write" /\ pc' = "apply" /\ toAdd \in Seq(Block)
      /\ synced' = synced \cup Range(toAdd) /\ diskTip' = target
  BY DEF IInv, TypeOK, InOrder, Busy, PutTip
<1>2. PICK n \in Nat : AddsAfter(n)
  BY <1>1 DEF IInv, InOrder
<1>3. Len(Chain[target]) \in Nat \ {0} /\ Len(toAdd) \in Nat /\ DOMAIN toAdd = 1 .. Len(toAdd)
  BY <1>1, ChainFacts, LenProperties
<1>4. Range(toAdd) \subseteq rows
  BY <1>1, <1>3 DEF IInv, InOrder, PutTip, Range
<1>5. \A j \in 1 .. Len(Chain[target]) : Chain[target][j] \in synced'
  <2> TAKE j \in 1 .. Len(Chain[target])
  <2>1. j \in 1 .. n \/ j \in n + 1 .. Len(Chain[target])
    BY <1>3
  <2>2. QED  BY <1>1, <1>2, <2>1, AddedFacts DEF AddsAfter
<1>6. TypeOK'
  <2>1. rows \subseteq Block
    BY DEF IInv, TypeOK
  <2>2. QED  BY <1>1, <1>4, <2>1 DEF IInv, TypeOK, syncVars
<1>7. AncestorsSynced'
  <2>1. Closed(synced')
    <3> SUFFICES ASSUME NEW b \in synced' PROVE Range(Chain[b]) \subseteq synced'
      BY DEF Closed
    <3>1. CASE b \in synced
      BY <1>1, <3>1 DEF IInv, AncestorsSynced, Closed
    <3>2. CASE b \notin synced
      <4>1. PICK i \in 1 .. Len(toAdd) : b = toAdd[i]
        BY <1>1, <1>3, <3>2 DEF Range
      <4>2. /\ b \in Block /\ Len(Chain[b]) = n + i
            /\ \A j \in 1 .. n + i : Chain[b][j] = Chain[target][j]
        BY <1>1, <1>2, <4>1, AddedFacts
      <4>3. \A j \in 1 .. n + i : j \in 1 .. Len(Chain[target])
        BY <1>2, <1>3, <4>1 DEF AddsAfter
      <4>4. Range(Chain[b]) = {Chain[b][j] : j \in 1 .. Len(Chain[b])}
        BY <4>2, ChainFacts
      <4>5. QED  BY <1>5, <4>2, <4>3, <4>4
    <3>3. QED  BY <3>1, <3>2
  <2>2. diskTip' \in synced'
    BY <1>1, <1>3, <1>5, ChainFacts
  <2>3. QED  BY <1>1, <1>4, <2>1, <2>2 DEF IInv, AncestorsSynced
<1>8. ListOfTip'
  BY <1>1 DEF IInv, ListOfTip
<1>9. InOrder'
  BY <1>1, <1>2 DEF InOrder, AddsAfter, syncVars
<1>10. QED  BY <1>6, <1>7, <1>8, <1>9 DEF IInv

\* Headers that attach make the list the chain of the target.
LEMMA Attached ==
    ASSUME TypeOK, ListOfTip, target \in Block, NEW n \in Nat, AddsAfter(n),
           ~ OutOfRange(toAdd), Attaches(toAdd)
    PROVE  /\ Height(toAdd[1]) = n
           /\ SubSeq(headers, 1, n) \o toAdd = Chain[target]
           /\ \A i \in 1 .. n : Chain[target][i] \in Range(headers)
<1>1. /\ toAdd \in Seq(Block) /\ toAdd # <<>> /\ Len(toAdd) \in Nat \ {0}
      /\ headers \in Seq(Block) /\ Len(headers) \in Nat /\ DOMAIN headers = 1 .. Len(headers)
  BY EmptySeq, LenProperties DEF TypeOK, Attaches
<1>2. Height(toAdd[1]) = n /\ \A j \in 1 .. n + 1 : Chain[toAdd[1]][j] = Chain[target][j]
  <2>1. 1 \in 1 .. Len(toAdd)
    BY <1>1
  <2>2. Height(toAdd[1]) = (n + 1) - 1 /\ \A j \in 1 .. n + 1 : Chain[toAdd[1]][j] = Chain[target][j]
    BY <1>1, <2>1, AddedFacts
  <2>3. QED  BY <2>2
<1>3. n <= Len(headers)
  BY <1>1, <1>2 DEF OutOfRange
<1>4. \A i \in 1 .. n : headers[i] = Chain[target][i]
  <2> SUFFICES ASSUME NEW i \in 1 .. n PROVE headers[i] = Chain[target][i]
    OBVIOUS
  <2>1. headers[n] = Chain[toAdd[1]][n] /\ n \in 1 .. Len(headers)
    BY <1>2, <1>3 DEF Attaches
  <2>2. headers[n] = Chain[target][n] /\ n \in 1 .. Len(Chain[target])
    <3>1. n \in 1 .. n + 1
      BY <2>1
    <3>2. headers[n] = Chain[target][n]
      BY <1>2, <2>1, <3>1
    <3>3. Len(Chain[target]) = n + Len(toAdd)
      BY DEF AddsAfter
    <3>4. QED  BY <1>1, <2>1, <3>2, <3>3
  <2>3. headers = Chain[Tip(headers)] /\ Tip(headers) \in Block
    <3>1. headers # <<>>
      BY <2>1, EmptySeq
    <3>2. Tip(headers) = headers[Len(headers)] /\ Len(headers) \in 1 .. Len(headers)
      BY <1>1, <2>1, <3>1 DEF Tip, Last
    <3>3. Tip(headers) \in Block
      BY <1>1, <3>2, ElementOfSeq
    <3>4. QED  BY <3>3, NoBlockAssumption DEF ListOfTip, ChainOf
  <2> DEFINE t == Tip(headers)
  <2>4. n \in 1 .. Len(Chain[t]) /\ Chain[t][n] = Chain[target][n]
    BY <2>1, <2>2, <2>3
  <2>5. Chain[Chain[t][n]][i] = Chain[t][i]
    BY <2>3, <2>4, Ancestor
  <2>6. Chain[Chain[target][n]][i] = Chain[target][i]
    BY <2>2, Ancestor
  <2>7. QED  BY <2>3, <2>4, <2>5, <2>6
<1>5. SubSeq(headers, 1, n) \o toAdd = Chain[target]
  <2> DEFINE s == SubSeq(headers, 1, n)
  <2>1. s \in Seq(Block) /\ Len(s) = n /\ \A i \in 1 .. n : s[i] = headers[i]
    <3>1. \A i \in 1 .. n : headers[i] \in Block
      BY <1>1, <1>3, ElementOfSeq
    <3>2. 1 \in Int /\ n \in Int /\ n - 1 + 1 = n /\ (IF 1 <= n THEN n - 1 + 1 ELSE 0) = n
      OBVIOUS
    <3>3. /\ s \in Seq(Block) /\ Len(s) = n
          /\ \A i \in 1 .. n - 1 + 1 : s[i] = headers[1 + i - 1]
      BY <3>1, <3>2, SubSeqProperties
    <3>4. QED  BY <3>3
  <2> HIDE DEF s
  <2>2. /\ s \o toAdd \in Seq(Block) /\ Len(s \o toAdd) = n + Len(toAdd)
        /\ \A i \in 1 .. n + Len(toAdd) :
               (s \o toAdd)[i] = IF i <= n THEN s[i] ELSE toAdd[i - n]
    BY <1>1, <2>1, ConcatProperties
  <2>3. Len(Chain[target]) = n + Len(toAdd) /\ Chain[target] \in Seq(Block)
    BY ChainFacts DEF AddsAfter
  <2>4. \A i \in 1 .. n + Len(toAdd) : (s \o toAdd)[i] = Chain[target][i]
    <3> TAKE i \in 1 .. n + Len(toAdd)
    <3>1. CASE i <= n
      BY <1>1, <1>4, <2>1, <2>2, <3>1
    <3>2. CASE i > n
      <4>1. i - n \in 1 .. Len(toAdd) /\ n + (i - n) = i
        BY <1>1, <3>2
      <4>2. toAdd[i - n] = Chain[target][i]
        BY <4>1 DEF AddsAfter
      <4>3. QED  BY <1>1, <2>2, <3>2, <4>2
    <3>3. i <= n \/ i > n
      BY <1>1
    <3>4. QED  BY <3>1, <3>2, <3>3
  <2>5. s \o toAdd = Chain[target]
    BY <2>2, <2>3, <2>4, SeqEqual
  <2>6. QED  BY <2>5 DEF s
<1>6. \A i \in 1 .. n : Chain[target][i] \in Range(headers)
  BY <1>1, <1>3, <1>4 DEF Range
<1>7. QED  BY <1>2, <1>5, <1>6

LEMMA ApplyKeeps ==
    ASSUME IInv, Apply
    PROVE  IInv'
<1>1. /\ UNCHANGED <<best, diskVars, synced, tip, syncVars, moves, faults>>
      /\ target \in Block /\ pc = "apply" /\ pc' \in {"dead", "check"}
  BY DEF IInv, InOrder, Busy, Apply
<1>2. CASE UNCHANGED <<headers, heights>>
  BY <1>1, <1>2 DEF IInv, TypeOK, AncestorsSynced, ListOfTip, InOrder, Busy, diskVars, syncVars
<1>3. CASE /\ ~ OutOfRange(toAdd) /\ Attaches(toAdd)
           /\ headers' = SubSeq(headers, 1, Height(toAdd[1])) \o toAdd
           /\ heights' = [b \in Block |-> IF b \in Range(toAdd) THEN Height(b) ELSE heights[b]]
  <2>1. PICK n \in Nat : AddsAfter(n)
    BY <1>1 DEF IInv, InOrder
  <2>2. /\ headers' = Chain[target]
        /\ \A i \in 1 .. n : Chain[target][i] \in Range(headers)
    BY <1>1, <1>3, <2>1, Attached DEF IInv
  <2>3. /\ Chain[target] \in Seq(Block) /\ Tip(Chain[target]) = target
        /\ ChainOf(target) = Chain[target]
        /\ \A b \in Block : Height(b) \in Nat
    BY <1>1, TipOfChain, NoBlockAssumption, ChainFacts DEF ChainOf
  <2>4. Range(Chain[target]) \subseteq Range(headers) \cup Range(toAdd)
    <3>1. toAdd \in Seq(Block) /\ Len(Chain[target]) \in Nat
      BY <1>1, ChainFacts DEF IInv, TypeOK
    <3>2. Range(toAdd) = {Chain[target][i] : i \in n + 1 .. Len(Chain[target])}
      BY <1>1, <2>1, <3>1, AddedFacts
    <3>3. \A i \in 1 .. Len(Chain[target]) : i \in 1 .. n \/ i \in n + 1 .. Len(Chain[target])
      BY <3>1
    <3>4. Range(Chain[target]) = {Chain[target][i] : i \in 1 .. Len(Chain[target])}
      BY <1>1, ChainFacts
    <3>5. QED  BY <2>2, <3>2, <3>3, <3>4
  <2>5. TypeOK'
    <3>1. headers' \in Seq(Block)
      BY <2>2, <2>3
    <3>2. heights' \in [Block -> Nat \cup {NotIndexed}]
      BY <1>3, <2>3 DEF IInv, TypeOK
    <3>3. QED  BY <1>1, <3>1, <3>2 DEF IInv, TypeOK, diskVars, syncVars
  <2>6. ListOfTip'
    <3>1. headers' = ChainOf(Tip(headers'))
      BY <2>2, <2>3
    <3>2. Range(headers') \subseteq synced'
      BY <1>1, <2>2, <2>4 DEF IInv, ListOfTip, InOrder
    <3>3. \A b \in Range(headers') : heights'[b] = Height(b)
      <4>1. \A b \in Range(headers') : b \in Block
        BY <1>1, <3>2 DEF IInv, TypeOK
      <4>2. QED  BY <1>3, <2>2, <2>4, <4>1 DEF IInv, ListOfTip
    <3>4. QED  BY <3>1, <3>2, <3>3 DEF ListOfTip
  <2>7. AncestorsSynced' /\ InOrder'
    BY <1>1 DEF IInv, AncestorsSynced, InOrder, Busy, diskVars, syncVars
  <2>8. QED  BY <2>5, <2>6, <2>7 DEF IInv
<1>4. QED  BY <1>2, <1>3 DEF Apply

\* The store is loaded again: after a sync that missed its target, or a restart.
LEMMA LoadKeeps ==
    ASSUME TypeOK, AncestorsSynced, Loadable(diskTip), Load(diskTip), UNCHANGED diskVars
    PROVE  /\ AncestorsSynced' /\ ListOfTip'
           /\ synced' \subseteq Block /\ headers' \in Seq(Block)
           /\ heights' \in [Block -> Nat \cup {NotIndexed}]
<1>1. diskTip \in Block \cup {None}
  BY DEF TypeOK
<1>2. /\ ChainOf(diskTip) \in Seq(Block) /\ Tip(ChainOf(diskTip)) = diskTip
      /\ \A y \in Range(ChainOf(diskTip)) : y \in Block /\ Height(y) \in Nat
  BY <1>1, TipOfChain
<1>3. AncestorsSynced'
  BY DEF AncestorsSynced, Load, diskVars
<1>4. ListOfTip'
  <2>1. Range(headers') \subseteq synced'
    BY DEF Load, Loadable
  <2>2. headers' = ChainOf(Tip(headers'))
    BY <1>2 DEF Load
  <2>3. \A b \in Range(headers') : heights'[b] = Height(b)
    BY <1>2 DEF Load
  <2>4. QED  BY <2>1, <2>2, <2>3 DEF ListOfTip
<1>5. heights' \in [Block -> Nat \cup {NotIndexed}]
  BY <1>2 DEF Load
<1>6. QED  BY <1>2, <1>3, <1>4, <1>5 DEF Load, TypeOK

LEMMA CheckKeeps ==
    ASSUME IInv, CheckTip
    PROVE  IInv'
<1>1. /\ UNCHANGED <<best, diskVars, syncVars, moves, faults>>
      /\ pc' \in {"loop", "dead"} /\ tip' \in {tip, target} /\ target \in Block
  BY DEF IInv, InOrder, Busy, CheckTip, AfterError
<1>2. /\ AncestorsSynced' /\ ListOfTip'
      /\ synced' \subseteq Block /\ headers' \in Seq(Block)
      /\ heights' \in [Block -> Nat \cup {NotIndexed}]
  <2>1. CASE UNCHANGED memoryVars
    BY <1>1, <2>1 DEF IInv, TypeOK, AncestorsSynced, ListOfTip, diskVars, memoryVars
  <2>2. CASE Loadable(diskTip) /\ Load(diskTip)
    BY <1>1, <2>2, LoadKeeps DEF IInv
  <2>3. QED  BY <2>1, <2>2 DEF CheckTip
<1>3. TypeOK'
  BY <1>1, <1>2 DEF IInv, TypeOK, diskVars, syncVars
<1>4. InOrder'
  BY <1>1 DEF InOrder, Busy
<1>5. QED  BY <1>2, <1>3, <1>4 DEF IInv

LEMMA RestartKeeps ==
    ASSUME IInv, Restart
    PROVE  IInv'
<1>1. /\ AncestorsSynced' /\ ListOfTip'
      /\ synced' \subseteq Block /\ headers' \in Seq(Block)
      /\ heights' \in [Block -> Nat \cup {NotIndexed}]
  BY LoadKeeps DEF IInv, Restart
<1>2. TypeOK' /\ InOrder'
  BY <1>1 DEF IInv, TypeOK, InOrder, Busy, Restart, diskVars, syncVars
<1>3. QED  BY <1>1, <1>2 DEF IInv

\* A crash leaves the disk as it is, whatever the sync had got to.
LEMMA CrashKeeps ==
    ASSUME IInv, Crash
    PROVE  IInv'
<1>1. <<>> \in Seq(Block) /\ Len(<<>>) = 0 /\ Range(<<>>) = {}
  BY EmptySeq DEF Range
<1>2. TypeOK'
  BY <1>1, BoundAssumption DEF IInv, TypeOK, Crash, NotIndexed, diskVars
<1>3. AncestorsSynced'
  BY DEF IInv, AncestorsSynced, Closed, Crash, diskVars
<1>4. ListOfTip' /\ InOrder'
  BY <1>1 DEF Crash, ListOfTip, Tip, ChainOf, InOrder, Busy
<1>5. QED  BY <1>2, <1>3, <1>4 DEF IInv

LEMMA InvStep == IInv /\ [Next]_vars => IInv'
<1> SUFFICES ASSUME IInv, [Next]_vars PROVE IInv'  OBVIOUS
<1>1. CASE GetBestBlockHash \/ RequestFails \/ \E b \in Block : MoveBest(b)
  BY <1>1, BeginKeeps
<1>2. CASE FetchHeaders
  BY <1>2, FetchKeeps
<1>3. CASE WriteChunk
  BY <1>3, WriteKeeps
<1>4. CASE PutTip
  BY <1>4, PutTipKeeps
<1>5. CASE Apply
  BY <1>5, ApplyKeeps
<1>6. CASE CheckTip
  BY <1>6, CheckKeeps
<1>7. CASE Crash
  BY <1>7, CrashKeeps
<1>8. CASE Restart
  BY <1>8, RestartKeeps
<1>9. CASE UNCHANGED vars
  BY <1>9 DEF IInv, TypeOK, AncestorsSynced, ListOfTip, InOrder, AddsAfter,
              vars, diskVars, memoryVars, syncVars
<1>10. QED
  BY <1>1, <1>2, <1>3, <1>4, <1>5, <1>6, <1>7, <1>8, <1>9 DEF Next, Sync, Poll, Headless

LEMMA Invariance == Spec => []IInv
  BY InvInit, InvStep, PTL DEF Spec

-----------------------------------------------------------------------------
(* What follows.                                                           *)

\* Every variable has its type; no more is written than there is to write.
THEOREM TypeCorrect == Spec => []TypeOK
<1>1. IInv => TypeOK
  BY DEF IInv
<1>2. QED  BY <1>1, Invariance, PTL

\* For every tree of blocks, size of the chunks, and order of moves, failures and
\* crashes: the chain that the durable tip names is on disk, so that Store::open
\* always loads it.
THEOREM AlwaysLoadable == Spec => []DurableTipLoadable
<1>1. IInv => DurableTipLoadable
  <2> SUFFICES ASSUME IInv PROVE Loadable(diskTip)
    BY DEF DurableTipLoadable
  <2>1. CASE diskTip = None
    <3>1. ChainOf(diskTip) = <<>> /\ Range(<<>>) = {}
      BY <2>1, EmptySeq DEF ChainOf, Range
    <3>2. QED  BY <3>1 DEF Loadable
  <2>2. CASE diskTip \in rows
    BY <2>2, NoBlockAssumption DEF IInv, TypeOK, AncestorsSynced, Closed, Loadable, ChainOf
  <2>3. QED  BY <2>1, <2>2 DEF IInv, AncestorsSynced
<1>2. QED  BY <1>1, Invariance, PTL

\* The headers that a sync adds end the chain of its target without a gap, and
\* what is below them is on disk.
THEOREM NoHole == Spec => []NothingSkipped
<1>1. IInv => NothingSkipped
  <2> SUFFICES ASSUME IInv, pc \in {"write", "apply"}
               PROVE  /\ IsSuffix(toAdd, Chain[target])
                      /\ Range(Chain[target]) \subseteq rows \cup Range(toAdd)
    BY DEF NothingSkipped
  <2>1. target \in Block /\ toAdd \in Seq(Block)
    BY DEF IInv, TypeOK, InOrder, Busy
  <2>2. PICK n \in Nat : AddsAfter(n)
    BY DEF IInv, InOrder
  <2> DEFINE c == Chain[target]
             l == Len(toAdd)
  <2>3. /\ c \in Seq(Block) /\ Len(c) \in Nat /\ Len(c) = n + l
        /\ l \in Nat /\ Range(c) = {c[i] : i \in 1 .. Len(c)}
    BY <2>1, <2>2, ChainFacts, LenProperties DEF AddsAfter
  <2>4. IsSuffix(toAdd, c)
    <3> DEFINE a == Reverse(toAdd)
               b == Reverse(c)
    <3>1. /\ Len(a) = l /\ Len(b) = n + l
          /\ \A i \in 1 .. l : a[i] = toAdd[l - i + 1]
          /\ \A i \in 1 .. l : b[i] = c[(n + l) - i + 1]
      BY <2>3 DEF Reverse
    <3>2. \A i \in 1 .. l : a[i] = b[i] /\ a[i] \in Block
      <4> TAKE i \in 1 .. l
      <4>1. l - i + 1 \in 1 .. l /\ n + (l - i + 1) = (n + l) - i + 1
        BY <2>3
      <4>2. toAdd[l - i + 1] = c[n + (l - i + 1)] /\ toAdd[l - i + 1] \in Block
        BY <2>1, <2>2, <4>1, ElementOfSeq DEF AddsAfter
      <4>3. QED  BY <3>1, <4>1, <4>2
    <3> HIDE DEF a, b
    <3>3. /\ SubSeq(a, 1, l) \in Seq(Block) /\ SubSeq(b, 1, l) \in Seq(Block)
          /\ Len(SubSeq(a, 1, l)) = l /\ Len(SubSeq(b, 1, l)) = l
          /\ \A i \in 1 .. l : SubSeq(a, 1, l)[i] = a[i] /\ SubSeq(b, 1, l)[i] = b[i]
      <4>1. 1 \in Int /\ l \in Int /\ l - 1 + 1 = l /\ (IF 1 <= l THEN l - 1 + 1 ELSE 0) = l
        BY <2>3
      <4>2. \A i \in 1 .. l : a[i] \in Block /\ b[i] \in Block
        BY <3>2
      <4>3. /\ SubSeq(a, 1, l) \in Seq(Block) /\ Len(SubSeq(a, 1, l)) = l
            /\ \A i \in 1 .. l - 1 + 1 : SubSeq(a, 1, l)[i] = a[1 + i - 1]
        BY <4>1, <4>2, SubSeqProperties
      <4>4. /\ SubSeq(b, 1, l) \in Seq(Block) /\ Len(SubSeq(b, 1, l)) = l
            /\ \A i \in 1 .. l - 1 + 1 : SubSeq(b, 1, l)[i] = b[1 + i - 1]
        BY <4>1, <4>2, SubSeqProperties
      <4>5. \A i \in 1 .. l : 1 + i - 1 = i
        BY <2>3
      <4>6. QED  BY <4>1, <4>3, <4>4, <4>5
    <3>4. SubSeq(a, 1, l) = SubSeq(b, 1, l)
      <4>1. \A i \in 1 .. l : SubSeq(a, 1, l)[i] = SubSeq(b, 1, l)[i]
        BY <3>2, <3>3
      <4>2. QED  BY <3>3, <4>1, SeqEqual
    <3>5. IsPrefix(a, b)
      BY <2>3, <3>1, <3>4 DEF IsPrefix
    <3>6. QED  BY <3>5 DEF IsSuffix, a, b
  <2>5. Range(c) \subseteq rows \cup Range(toAdd)
    <3>1. Range(toAdd) = {c[i] : i \in n + 1 .. Len(c)}
      BY <2>1, <2>2, AddedFacts
    <3>2. \A i \in 1 .. n : c[i] \in rows
      BY <2>2 DEF AddsAfter, IInv, AncestorsSynced
    <3>3. \A i \in 1 .. Len(c) : i \in 1 .. n \/ i \in n + 1 .. Len(c)
      BY <2>3
    <3>4. QED  BY <2>3, <3>1, <3>2, <3>3
  <2>6. QED  BY <2>4, <2>5
<1>2. QED  BY <1>1, Invariance, PTL

\* At every moment the header list is the chain of its last header, from the first
\* block on, and each of its headers is found by its hash.
THEOREM ReadersSeeAChain == Spec => []HeadersAreAChain
<1>1. IInv => HeadersAreAChain
  <2> SUFFICES ASSUME IInv, headers # <<>>
               PROVE  /\ headers = Chain[Tip(headers)]
                      /\ \A i \in DOMAIN headers : Known(headers[i])
    BY EmptySeq DEF HeadersAreAChain
  <2>1. headers \in Seq(Block) /\ DOMAIN headers = 1 .. Len(headers) /\ Len(headers) \in Nat \ {0}
    BY EmptySeq, LenProperties DEF IInv, TypeOK
  <2>2. Tip(headers) = headers[Len(headers)] /\ Len(headers) \in 1 .. Len(headers)
    BY <2>1 DEF Tip, Last
  <2>3. Tip(headers) \in Block
    BY <2>1, <2>2, ElementOfSeq
  <2>4. headers = Chain[Tip(headers)]
    BY <2>3, NoBlockAssumption DEF IInv, ListOfTip, ChainOf
  <2>5. ASSUME NEW i \in DOMAIN headers PROVE Known(headers[i])
    <3> DEFINE t == Tip(headers)
               h == headers[i]
    <3>1. i \in 1 .. Len(Chain[t]) /\ h = Chain[t][i]
      BY <2>1, <2>4
    <3>2. Height(h) = i - 1
      BY <2>3, <3>1, Ancestor
    <3>3. heights[h] = i - 1
      BY <2>1, <3>2 DEF IInv, ListOfTip, Range
    <3>4. i - 1 \in 0 .. Len(headers) - 1 /\ (i - 1) + 1 = i
      BY <2>1
    <3>5. QED  BY <3>3, <3>4 DEF Known
  <2>6. QED  BY <2>4, <2>5
<1>2. QED  BY <1>1, Invariance, PTL
=============================================================================
