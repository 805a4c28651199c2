------------------------------ MODULE CacheMap ------------------------------
(***************************************************************************)
(* What the operations of SimpleCache (src/src/utils.rs:81-143) do to its  *)
(* BTreeMap.  A map is a function whose domain is the set of the keys      *)
(* present; Rank numbers the keys in their order, the byte order of        *)
(* Vec<u8>: keys of at most 64 bytes are finitely many.                    *)
(***************************************************************************)
EXTENDS FiniteSets, Integers

CONSTANTS
    Key,    \* the keys that are used
    Rank,   \* their order: a key comes before another if its rank is lower
    Size    \* SimpleCache::new(size): 2000 in main.rs

ASSUME RankAssumption == /\ Rank \in [Key -> Nat]
                         /\ \A j, k \in Key : Rank[j] = Rank[k] => j = k
ASSUME SizeAssumption == Size \in Nat \ {0}

Empty == [k \in {} |-> 0]

\* BTreeMap::remove.
Removed(map, k) == [j \in DOMAIN map \ {k} |-> map[j]]

\* into_iter().next(): the first key in key order, which the code names
\* oldest_key.
Smallest(map) == CHOOSE k \in DOMAIN map : \A j \in DOMAIN map : Rank[k] <= Rank[j]

\* (Mutant: room is made one entry too late.)
IsFullOffByOne(map) == Cardinality(DOMAIN map) > Size
\* (Mutant: room is made one entry too early.)
IsFullEarly(map) == Cardinality(DOMAIN map) + 1 >= Size
IsFull(map) == Cardinality(DOMAIN map) >= Size

Evicted(map) == IF IsFull(map) /\ map # Empty THEN Removed(map, Smallest(map)) ELSE map

With(map, k, x) == [j \in DOMAIN map \cup {k} |-> IF j = k THEN x ELSE map[j]]

\* insert: a full cache loses its smallest key first, even if k is present.
\* (Mutant: the entry is inserted first, and room is made afterwards.)
InsertedThenEvicted(map, k, x) == Evicted(With(map, k, x))
Inserted(map, k, x) == With(Evicted(map), k, x)
=============================================================================
