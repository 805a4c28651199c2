------------------------------ MODULE CacheProofs ------------------------------
(***************************************************************************)
(* Theorems about SimpleCache, for any keys, any order of them, any size   *)
(* and any number of overlapping calls.                                    *)
(*                                                                         *)
(* ReadsTheKey is not inductive.  IInv adds which cells a call may hold: a *)
(* cell belongs to the key of the insert that allocated it (CellsOfKeys),  *)
(* and the cell a `write` holds is still the one in the map (WriterHolds), *)
(* because the map stays locked.                                           *)
(***************************************************************************)
EXTENDS SimpleCache, FiniteSetTheorems, WellFoundedInduction, TLAPS

\* The map holds at most Size keys, and only those of finished inserts.
Sized == IsFiniteSet(DOMAIN map) /\ Cardinality(DOMAIN map) <= Size

\* An insert fills its cell when it is done, once and for its own key.
CellsOfKeys ==
    /\ \A p \in Op : cell[p] # None => method[p] = "insert" /\ pc[p] = "done"
    /\ \A k \in DOMAIN map : key[map[k]] = k
    /\ \A p \in Op : pc[p] = "holds" => /\ method[p] \in {"get", "write"}
                                        /\ key[found[p]] = key[p]

\* A `write` that holds a cell holds the one its key has in the map.
WriterHolds ==
    \A p \in Op : pc[p] = "holds" /\ method[p] = "write"
                  => key[p] \in DOMAIN map /\ map[key[p]] = found[p]

\* What a get would read now, its key has had since it looked it up.
ReaderSees ==
    /\ window \in [Op -> SUBSET (Op \cup {None})]
    /\ \A p \in Op : pc[p] = "holds" /\ method[p] = "get" => cell[found[p]] \in window[p]

IInv == TypeOK /\ Sized /\ CellsOfKeys /\ WriterHolds /\ ReaderSees /\ ReadsTheKey

USE RankAssumption, SizeAssumption, OpAssumption

-----------------------------------------------------------------------------
(* What an insert and a remove do to the map.                              *)

\* A map that is not empty has a smallest key.
LEMMA SmallestIsThere ==
    ASSUME NEW m, DOMAIN m # {}, DOMAIN m \subseteq Key
    PROVE  Smallest(m) \in DOMAIN m
<1> DEFINE Ranks == {Rank[k] : k \in DOMAIN m}
           Less  == OpToRel(<, Nat)
<1>1. Ranks \subseteq Nat /\ Ranks # {}
  OBVIOUS
<1>2. IsWellFoundedOn(Less, Nat)
  BY NatLessThanWellFounded, Zenon
<1>3. \A i, j \in Nat : i < j => <<i, j>> \in Less
  BY DEF OpToRel
<1> HIDE DEF Ranks, Less
<1>4. PICK n \in Ranks : \A j \in Ranks : ~ (<<j, n>> \in Less)
  BY <1>1, <1>2, WFMin
<1>5. \A j \in Ranks : n <= j
  <2> TAKE j \in Ranks
  <2>1. j \in Nat /\ n \in Nat
    BY <1>1
  <2>2. ~ (j < n)
    BY <1>3, <1>4, <2>1
  <2> QED
    BY <2>1, <2>2
<1>6. PICK k \in DOMAIN m : Rank[k] = n
  BY DEF Ranks
<1>7. \A j \in DOMAIN m : Rank[k] <= Rank[j]
  BY <1>5, <1>6 DEF Ranks
<1> QED
  BY <1>7 DEF Smallest

LEMMA RemovedMap ==
    ASSUME NEW m, NEW k
    PROVE  /\ DOMAIN Removed(m, k) = DOMAIN m \ {k}
           /\ \A j \in DOMAIN Removed(m, k) : Removed(m, k)[j] = m[j]
  BY DEF Removed

\* Eviction makes room for one entry, and changes none of the others.
LEMMA EvictedMap ==
    ASSUME NEW m, DOMAIN m \subseteq Key, IsFiniteSet(DOMAIN m), Cardinality(DOMAIN m) <= Size
    PROVE  /\ DOMAIN Evicted(m) \subseteq DOMAIN m
           /\ \A j \in DOMAIN Evicted(m) : Evicted(m)[j] = m[j]
           /\ Cardinality(DOMAIN Evicted(m)) \in Nat
           /\ Cardinality(DOMAIN Evicted(m)) < Size
           /\ Cardinality(DOMAIN m) < Size => Evicted(m) = m
           /\ Cardinality(DOMAIN m) <= Cardinality(DOMAIN Evicted(m)) + 1
<1>0. Cardinality(DOMAIN m) \in Nat
  BY FS_CardinalityType
<1>1. CASE IsFull(m) /\ m # Empty
  <2>1. Cardinality(DOMAIN m) = Size
    BY <1>0, <1>1 DEF IsFull
  <2>2. DOMAIN m # {}
    BY <2>1, FS_EmptySet
  <2>3. Smallest(m) \in DOMAIN m
    BY <2>2, SmallestIsThere
  <2>4. Cardinality(DOMAIN m \ {Smallest(m)}) = Size - 1
    BY <2>1, <2>3, FS_RemoveElement
  <2>5. Evicted(m) = Removed(m, Smallest(m))
    BY <1>1 DEF Evicted
  <2>6. DOMAIN Evicted(m) = DOMAIN m \ {Smallest(m)}
    BY <2>5, RemovedMap
  <2>7. \A j \in DOMAIN Evicted(m) : Evicted(m)[j] = m[j]
    BY <2>5, <2>6 DEF Removed
  <2>8. Cardinality(DOMAIN Evicted(m)) = Size - 1
    BY <2>4, <2>6
  <2> QED
    BY <2>1, <2>6, <2>7, <2>8
<1>2. CASE ~ IsFull(m)
  BY <1>0, <1>2 DEF IsFull, Evicted
<1>3. CASE IsFull(m) /\ m = Empty
  <2>1. DOMAIN m = {}
    BY <1>3 DEF Empty
  <2> QED
    BY <1>0, <1>3, <2>1, FS_EmptySet DEF IsFull
<1> QED
  BY <1>1, <1>2, <1>3

\* An insert keeps to the bound, stores its value, and changes no other.
LEMMA InsertedMap ==
    ASSUME NEW m, DOMAIN m \subseteq Key, IsFiniteSet(DOMAIN m), Cardinality(DOMAIN m) <= Size,
           NEW k \in Key, NEW x
    PROVE  /\ DOMAIN Inserted(m, k, x) = DOMAIN Evicted(m) \cup {k}
           /\ DOMAIN Inserted(m, k, x) \subseteq DOMAIN m \cup {k}
           /\ IsFiniteSet(DOMAIN Inserted(m, k, x))
           /\ Cardinality(DOMAIN Inserted(m, k, x)) <= Size
           /\ Inserted(m, k, x)[k] = x
           /\ \A j \in DOMAIN Inserted(m, k, x) \ {k} : Inserted(m, k, x)[j] = m[j]
<1>1. IsFiniteSet(DOMAIN Evicted(m))
  BY EvictedMap, FS_Subset
<1>2. DOMAIN Inserted(m, k, x) = DOMAIN Evicted(m) \cup {k}
  BY DEF Inserted, With
<1> DEFINE D == DOMAIN Evicted(m)
<1>3. /\ IsFiniteSet(D \cup {k})
      /\ Cardinality(D \cup {k}) <= Size
  <2>1. /\ IsFiniteSet(D \cup {k})
        /\ Cardinality(D \cup {k}) = IF k \in D THEN Cardinality(D) ELSE Cardinality(D) + 1
    BY <1>1, FS_AddElement
  <2>2. Cardinality(D) \in Nat /\ Cardinality(D) < Size
    BY EvictedMap
  <2> QED
    BY <2>1, <2>2
<1>4. \A j \in DOMAIN Evicted(m) \cup {k} :
         Inserted(m, k, x)[j] = IF j = k THEN x ELSE Evicted(m)[j]
  BY DEF Inserted, With
<1> QED
  BY <1>2, <1>3, <1>4, EvictedMap

-----------------------------------------------------------------------------
(* Every action keeps the invariant.                                       *)

\* Windows only grow, and take in the value of the moment.
LEMMA ObserveGrows ==
    ASSUME window \in [Op -> SUBSET (Op \cup {None})], Observe,
           \A q \in Op : ValueIn(map', cell', key[q]) \in Op \cup {None}
    PROVE  /\ window' \in [Op -> SUBSET (Op \cup {None})]
           /\ \A q \in Op : window[q] \subseteq window'[q]
           /\ \A q \in Op : method[q] = "get" /\ pc'[q] = "holds"
                             => ValueIn(map', cell', key[q]) \in window'[q]
  BY DEF Observe

LEMMA InsertKeeps ==
    ASSUME NEW p \in Op, IInv, Insert(p)
    PROVE  IInv'
<1> USE DEF IInv
<1>1. /\ method[p] = "insert" /\ pc[p] = "start" /\ cell[p] = None
      /\ pc' = [pc EXCEPT ![p] = "done"] /\ cell' = [cell EXCEPT ![p] = p]
      /\ map' = Inserted(map, key[p], p)
      /\ UNCHANGED <<method, key, found, got>>
  BY DEF Insert, Begin, CellsOfKeys, TypeOK
<1>2. /\ DOMAIN map' \subseteq DOMAIN map \cup {key[p]}
      /\ key[p] \in DOMAIN map' /\ map'[key[p]] = p
      /\ \A j \in DOMAIN map' \ {key[p]} : j \in DOMAIN map /\ map'[j] = map[j]
      /\ IsFiniteSet(DOMAIN map') /\ Cardinality(DOMAIN map') <= Size
  <2>1. /\ DOMAIN map \subseteq Key /\ key[p] \in Key
        /\ IsFiniteSet(DOMAIN map) /\ Cardinality(DOMAIN map) <= Size
    BY DEF TypeOK, Sized
  <2> DEFINE new == Inserted(map, key[p], p)
  <2>2. /\ DOMAIN new = DOMAIN Evicted(map) \cup {key[p]}
        /\ DOMAIN new \subseteq DOMAIN map \cup {key[p]}
        /\ IsFiniteSet(DOMAIN new) /\ Cardinality(DOMAIN new) <= Size
        /\ new[key[p]] = p
        /\ \A j \in DOMAIN new \ {key[p]} : new[j] = map[j]
    BY <2>1, InsertedMap
  <2> HIDE DEF new
  <2>3. map' = new
    BY <1>1 DEF new
  <2> QED
    BY <2>2, <2>3
<1>3. TypeOK'
  BY <1>1, <1>2 DEF TypeOK
<1>4. Sized'
  BY <1>2 DEF Sized
<1>5. CellsOfKeys'
  BY <1>1, <1>2 DEF CellsOfKeys, TypeOK
<1>6. WriterHolds'
  BY <1>1 DEF WriterHolds, Insert, MapFree, TypeOK
<1>7. \A q \in Op : ValueIn(map', cell', key[q]) \in Op \cup {None}
  BY <1>1, <1>3 DEF ValueIn, TypeOK
<1>8. \A q \in Op : pc'[q] = "holds" => pc[q] = "holds" /\ cell'[found'[q]] = cell[found[q]]
  BY <1>1 DEF TypeOK
<1>9. ReaderSees'
  BY <1>1, <1>7, <1>8, ObserveGrows DEF ReaderSees, Insert
<1>10. ReadsTheKey'
  BY <1>1, <1>7, ObserveGrows DEF ReadsTheKey, ReaderSees, Insert
<1> QED
  BY <1>3, <1>4, <1>5, <1>6, <1>9, <1>10

LEMMA RemoveKeeps ==
    ASSUME NEW p \in Op, IInv, Remove(p)
    PROVE  IInv'
<1> USE DEF IInv
<1>1. /\ method[p] = "remove" /\ pc[p] = "start"
      /\ pc' = [pc EXCEPT ![p] = "done"]
      /\ UNCHANGED <<method, key, cell, found, got>>
  BY DEF Remove, Begin
<1>2. /\ DOMAIN map' \subseteq DOMAIN map
      /\ \A j \in DOMAIN map' : map'[j] = map[j]
  BY DEF Remove, Removed
<1>3. TypeOK'
  BY <1>1, <1>2 DEF TypeOK
<1>4. Sized'
  <2>1. /\ IsFiniteSet(DOMAIN map') /\ Cardinality(DOMAIN map') <= Cardinality(DOMAIN map)
        /\ Cardinality(DOMAIN map') \in Nat /\ Cardinality(DOMAIN map) \in Nat
    BY <1>2, FS_Subset, FS_CardinalityType DEF Sized
  <2> QED
    BY <2>1 DEF Sized
<1>5. CellsOfKeys'
  BY <1>1, <1>2 DEF CellsOfKeys, TypeOK
<1>6. WriterHolds'
  BY <1>1 DEF WriterHolds, Remove, MapFree, TypeOK
<1>7. \A q \in Op : ValueIn(map', cell', key[q]) \in Op \cup {None}
  BY <1>1, <1>3 DEF ValueIn, TypeOK
<1>8. ReaderSees'
  BY <1>1, <1>7, ObserveGrows DEF ReaderSees, Remove, TypeOK
<1>9. ReadsTheKey'
  BY <1>1, <1>7, ObserveGrows DEF ReadsTheKey, ReaderSees, Remove
<1> QED
  BY <1>3, <1>4, <1>5, <1>6, <1>8, <1>9

LEMMA LookUpKeeps ==
    ASSUME NEW p \in Op, IInv, LookUp(p)
    PROVE  IInv'
<1> USE DEF IInv
<1>1. /\ method[p] \in {"get", "write"} /\ pc[p] = "start"
      /\ UNCHANGED <<method, key, map, cell, got>>
  BY DEF LookUp, Begin
<1>2. \/ /\ key[p] \in DOMAIN map
         /\ found' = [found EXCEPT ![p] = map[key[p]]]
         /\ pc' = [pc EXCEPT ![p] = "holds"]
      \/ pc' = [pc EXCEPT ![p] = "done"] /\ found' = found
  BY DEF LookUp
<1>3. TypeOK'
  BY <1>1, <1>2 DEF TypeOK
<1>4. Sized'
  BY <1>1 DEF Sized
<1>5. CellsOfKeys'
  BY <1>1, <1>2 DEF CellsOfKeys, TypeOK
<1>6. WriterHolds'
  BY <1>1, <1>2 DEF WriterHolds, TypeOK
<1>7. \A q \in Op : ValueIn(map', cell', key[q]) \in Op \cup {None}
  BY <1>1, <1>3 DEF ValueIn, TypeOK
<1>8. ReaderSees'
  <2>1. /\ window' \in [Op -> SUBSET (Op \cup {None})]
        /\ \A q \in Op : window[q] \subseteq window'[q]
        /\ \A q \in Op : method[q] = "get" /\ pc'[q] = "holds"
                          => ValueIn(map', cell', key[q]) \in window'[q]
    BY <1>7, ObserveGrows DEF ReaderSees, LookUp
  <2>2. ASSUME NEW q \in Op, pc'[q] = "holds", method[q] = "get"
        PROVE  cell'[found'[q]] \in window'[q]
    <3>1. CASE q = p
      <4>1. key[p] \in DOMAIN map /\ found'[p] = map[key[p]]
        BY <1>2, <2>2, <3>1 DEF TypeOK
      <4> QED
        BY <1>1, <2>1, <2>2, <3>1, <4>1 DEF ValueIn
    <3>2. CASE q # p
      BY <1>1, <1>2, <2>1, <2>2, <3>2 DEF ReaderSees, TypeOK
    <3> QED
      BY <3>1, <3>2
  <2> QED
    BY <1>1, <2>1, <2>2 DEF ReaderSees
<1>9. ReadsTheKey'
  BY <1>1, <1>7, ObserveGrows DEF ReadsTheKey, ReaderSees, LookUp
<1> QED
  BY <1>3, <1>4, <1>5, <1>6, <1>8, <1>9

LEMMA GetKeeps ==
    ASSUME NEW p \in Op, IInv, Get(p)
    PROVE  IInv'
<1> USE DEF IInv
<1>1. /\ method[p] = "get" /\ pc[p] = "holds"
      /\ got' = [got EXCEPT ![p] = cell[found[p]]]
      /\ pc' = [pc EXCEPT ![p] = "done"]
      /\ UNCHANGED <<method, key, map, cell, found>>
  BY DEF Get
<1>2. TypeOK'
  BY <1>1 DEF TypeOK
<1>3. Sized' /\ CellsOfKeys' /\ WriterHolds'
  BY <1>1 DEF Sized, CellsOfKeys, WriterHolds, TypeOK
<1>4. \A q \in Op : ValueIn(map', cell', key[q]) \in Op \cup {None}
  BY <1>1, <1>2 DEF ValueIn, TypeOK
<1>5. ReaderSees'
  BY <1>1, <1>4, ObserveGrows DEF ReaderSees, Get, TypeOK
<1>6. ReadsTheKey'
  BY <1>1, <1>4, ObserveGrows DEF ReadsTheKey, ReaderSees, Get, TypeOK
<1> QED
  BY <1>2, <1>3, <1>5, <1>6

\* The cell that is written is in the map, so its new value is that of its key:
\* whoever else holds this cell reads for the same key.
LEMMA WriteKeeps ==
    ASSUME NEW p \in Op, IInv, Write(p)
    PROVE  IInv'
<1> USE DEF IInv
<1>1. /\ method[p] = "write" /\ pc[p] = "holds" /\ found[p] \in Op
      /\ cell' = [cell EXCEPT ![found[p]] = p]
      /\ pc' = [pc EXCEPT ![p] = "done"]
      /\ UNCHANGED <<method, key, map, found, got>>
  BY DEF Write, TypeOK
<1>2. TypeOK'
  BY <1>1 DEF TypeOK
<1>3. Sized' /\ WriterHolds'
  BY <1>1 DEF Sized, WriterHolds, TypeOK
<1>4. CellsOfKeys'
  BY <1>1 DEF CellsOfKeys, TypeOK
<1>5. \A q \in Op : ValueIn(map', cell', key[q]) \in Op \cup {None}
  BY <1>1, <1>2 DEF ValueIn, TypeOK
<1>6. /\ window' \in [Op -> SUBSET (Op \cup {None})]
      /\ \A q \in Op : window[q] \subseteq window'[q]
      /\ \A q \in Op : method[q] = "get" /\ pc'[q] = "holds"
                        => ValueIn(map', cell', key[q]) \in window'[q]
  BY <1>5, ObserveGrows DEF ReaderSees, Write
<1>7. ReaderSees'
  <2>1. ASSUME NEW q \in Op, pc'[q] = "holds", method[q] = "get"
        PROVE  cell'[found[q]] \in window'[q]
    <3>1. pc[q] = "holds" /\ found[q] \in Op
      BY <1>1, <2>1 DEF TypeOK
    <3>2. CASE found[q] = found[p]
      <4>1. key[q] = key[p]
        BY <1>1, <3>1, <3>2 DEF CellsOfKeys
      <4>2. key[p] \in DOMAIN map' /\ map'[key[p]] = found[p]
        BY <1>1 DEF WriterHolds
      <4> QED
        BY <1>6, <2>1, <3>2, <4>1, <4>2 DEF ValueIn
    <3>3. CASE found[q] # found[p]
      BY <1>1, <1>6, <2>1, <3>1, <3>3 DEF ReaderSees, TypeOK
    <3> QED
      BY <3>2, <3>3
  <2> QED
    BY <1>1, <1>6, <2>1 DEF ReaderSees
<1>8. ReadsTheKey'
  BY <1>1, <1>6 DEF ReadsTheKey
<1> QED
  BY <1>2, <1>3, <1>4, <1>7, <1>8

LEMMA InitHolds == Init => IInv
<1> SUFFICES ASSUME Init PROVE IInv
  OBVIOUS
<1>1. DOMAIN map = {}
  BY DEF Init, Empty
<1>2. TypeOK /\ CellsOfKeys /\ WriterHolds /\ ReaderSees /\ ReadsTheKey
  BY <1>1 DEF Init, TypeOK, CellsOfKeys, WriterHolds, ReaderSees, ReadsTheKey
<1>3. Sized
  BY <1>1, FS_EmptySet DEF Sized
<1> QED
  BY <1>2, <1>3 DEF IInv

LEMMA StepHolds == IInv /\ [Next]_vars => IInv'
<1> SUFFICES ASSUME IInv, [Next]_vars PROVE IInv'
  OBVIOUS
<1>1. CASE UNCHANGED vars
  BY <1>1 DEF vars, IInv, TypeOK, Sized, CellsOfKeys, WriterHolds, ReaderSees, ReadsTheKey
<1>2. ASSUME NEW p \in Op, Insert(p) \/ Remove(p) \/ LookUp(p) \/ Get(p) \/ Write(p)
      PROVE  IInv'
  BY <1>2, InsertKeeps, RemoveKeeps, LookUpKeeps, GetKeeps, WriteKeeps
<1> QED
  BY <1>1, <1>2 DEF Next, AllDone

LEMMA Invariance == Spec => []IInv
  BY InitHolds, StepHolds, PTL DEF Spec

-----------------------------------------------------------------------------
(* The results.                                                            *)

\* Type correctness of the cache: whoever holds a cell holds one that an insert
\* has filled (utils.rs:81-143).
THEOREM TypeCorrect == Spec => []TypeOK
<1>1. IInv => TypeOK
  BY DEF IInv
<1> QED
  BY <1>1, Invariance, PTL

\* The cache holds at most Size entries (utils.rs:102).
THEOREM CacheBounded == Spec => []Bounded
<1>1. IInv => Bounded
  BY DEF IInv, Sized, Bounded
<1> QED
  BY <1>1, Invariance, PTL

\* A get returns a value that its key had during the call, whatever inserts,
\* writes, removals and evictions overlap with it (utils.rs:113-122, 126-135).
THEOREM GetsReadTheirKey == Spec => []ReadsTheKey
<1>1. IInv => ReadsTheKey
  BY DEF IInv
<1> QED
  BY <1>1, Invariance, PTL

\* When an insert or a write returns, its value is in the cache under its key
\* (utils.rs:99-110, 126-135).
THEOREM StoresAreThere == Spec => StoredWhenDone
<1> DEFINE Stores(p) == \/ method[p] = "insert" /\ pc[p] # pc'[p]
                        \/ method[p] = "write" /\ pc[p] = "holds" /\ pc'[p] = "done"
<1>1. ASSUME IInv, [Next]_vars, NEW p \in Op, Stores(p)
      PROVE  ValueIn(map', cell', key[p]) = p
  <2>1. PICK q \in Op : Insert(q) \/ Remove(q) \/ LookUp(q) \/ Get(q) \/ Write(q)
    BY <1>1 DEF Next, AllDone, vars
  <2>2. \A r \in Op : pc[r] # pc'[r] => r = q
    BY <2>1, <1>1 DEF IInv, TypeOK, Insert, Remove, LookUp, Get, Write
  <2>3. p = q
    BY <1>1, <2>2
  <2>4. CASE Insert(p)
    <3>1. p \in Op /\ cell'[p] = p /\ map' = Inserted(map, key[p], p)
      BY <1>1, <2>4 DEF Insert, IInv, TypeOK
    <3>2. key[p] \in DOMAIN map' /\ map'[key[p]] = p
      BY <3>1 DEF Inserted, With
    <3> QED
      BY <3>1, <3>2 DEF ValueIn
  <2>5. CASE Write(p)
    BY <1>1, <2>5 DEF IInv, TypeOK, WriterHolds, Write, ValueIn
  <2>6. CASE Remove(p) \/ LookUp(p) \/ Get(p)
    BY <1>1, <2>6 DEF Remove, LookUp, Get, Begin, IInv, TypeOK, CellsOfKeys
  <2> QED
    BY <2>1, <2>3, <2>4, <2>5, <2>6
<1>2. IInv /\ [Next]_vars
      => [\A p \in Op : Stores(p) => ValueIn(map', cell', key[p]) = p]_vars
  BY <1>1
<1> QED
  BY <1>2, Invariance, PTL DEF Spec, StoredWhenDone

\* An entry is lost only to a remove of its key, or, one at a time, to an insert
\* into a full cache (utils.rs:99-110).
THEOREM LossesHaveACause == Spec => LostOnlyWhenFull
<1> DEFINE Lost(k) == k \in DOMAIN map /\ k \notin DOMAIN map'
           Cause(k) == \/ \E p \in Op : method[p] = "remove" /\ key[p] = k /\ pc[p] # pc'[p]
                       \/ /\ \E p \in Op : method[p] = "insert" /\ pc[p] # pc'[p]
                          /\ Cardinality(DOMAIN map) = Size
                          /\ Cardinality(DOMAIN map') >= Size - 1
<1>1. ASSUME IInv, NEW p \in Op, NEW k, Remove(p), Lost(k)
      PROVE  Cause(k)
  <2>1. key[p] = k
    BY <1>1 DEF Remove, Removed
  <2>2. method[p] = "remove" /\ pc[p] # pc'[p]
    BY <1>1 DEF Remove, Begin, IInv, TypeOK
  <2> QED
    BY <2>1, <2>2
<1>2. ASSUME IInv, NEW p \in Op, NEW k, Insert(p), Lost(k)
      PROVE  Cause(k)
  <2>1. /\ DOMAIN map \subseteq Key
        /\ IsFiniteSet(DOMAIN map) /\ Cardinality(DOMAIN map) <= Size
    BY <1>2 DEF IInv, TypeOK, Sized
  <2>2. DOMAIN map' = DOMAIN Evicted(map) \cup {key[p]}
    BY <1>2 DEF Insert, Inserted, With
  <2>3. Evicted(map) # map
    BY <1>2, <2>2
  <2>4. /\ Cardinality(DOMAIN map) \in Nat /\ Cardinality(DOMAIN Evicted(map)) \in Nat
        /\ ~ (Cardinality(DOMAIN map) < Size)
        /\ Cardinality(DOMAIN map) <= Cardinality(DOMAIN Evicted(map)) + 1
    BY <2>1, <2>3, EvictedMap, FS_CardinalityType
  <2>5. IsFiniteSet(DOMAIN Evicted(map))
    BY <2>1, EvictedMap, FS_Subset
  <2>6. /\ Cardinality(DOMAIN map') \in Nat
        /\ Cardinality(DOMAIN map') >= Cardinality(DOMAIN Evicted(map))
    <3> DEFINE E == DOMAIN Evicted(map)
    <3>1. Cardinality(E \cup {key[p]}) = IF key[p] \in E THEN Cardinality(E)
                                         ELSE Cardinality(E) + 1
      BY <2>5, FS_AddElement
    <3>2. DOMAIN map' = E \cup {key[p]} /\ Cardinality(E) \in Nat
      BY <2>2, <2>4
    <3> HIDE DEF E
    <3>3. /\ Cardinality(DOMAIN map') \in Nat
          /\ Cardinality(DOMAIN map') >= Cardinality(E)
      BY <3>1, <3>2
    <3> QED
      BY <3>3 DEF E
  <2>7. method[p] = "insert" /\ pc[p] # pc'[p]
    BY <1>2 DEF Insert, Begin, IInv, TypeOK
  <2> QED
    BY <2>1, <2>4, <2>6, <2>7
<1>3. ASSUME IInv, [Next]_vars, NEW k, Lost(k)
      PROVE  Cause(k)
  <2>1. map # map'
    BY <1>3
  <2>2. PICK p \in Op : Insert(p) \/ Remove(p)
    BY <1>3, <2>1 DEF Next, AllDone, vars, LookUp, Get, Write
  <2> QED
    BY <1>1, <1>2, <1>3, <2>2
<1>4. IInv /\ [Next]_vars
      => [\A k \in DOMAIN map \ DOMAIN map' : Cause(k)]_vars
  BY <1>3
<1> QED
  BY <1>4, Invariance, PTL DEF Spec, LostOnlyWhenFull
=============================================================================
