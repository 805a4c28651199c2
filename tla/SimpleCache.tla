----------------------------- MODULE SimpleCache -----------------------------
(***************************************************************************)
(* SimpleCache, src/src/utils.rs:81-143, with its two levels of locks: an  *)
(* RwLock around the map, and one around each value, which the map shares  *)
(* (Arc) with whoever looked it up.  `get` lets go of the map before it    *)
(* reads the value; `write` keeps the map locked for reading while it      *)
(* waits for the value.                                                    *)
(*                                                                         *)
(* An operation of Op is one call.  A call that stores a value stores      *)
(* itself, so that values tell the calls apart, and the cell (Arc) that an *)
(* insert allocates is named by the insert.                                *)
(***************************************************************************)
EXTENDS CacheMap

CONSTANTS
    Op,      \* calls of the four methods
    Methods, \* the methods called
    None     \* no value

ASSUME OpAssumption == None \notin Op /\ Methods \subseteq {"insert", "get", "write", "remove"}

VARIABLES
    method, key,  \* what each call does, to which key
    pc,           \* start, holds (it has looked up a cell) or done
    map,          \* key -> cell
    cell,         \* cell -> value
    found,        \* the cell a call has looked up
    got,          \* what a get returned
    window        \* history: the values of its key since a get looked it up

vars == <<method, key, pc, map, cell, found, got, window>>

Init ==
    /\ method \in [Op -> Methods]
    /\ key \in [Op -> Key]
    /\ pc = [p \in Op |-> "start"]
    /\ map = Empty
    /\ cell = [p \in Op |-> None]
    /\ found = [p \in Op |-> None]
    /\ got = [p \in Op |-> None]
    /\ window = [p \in Op |-> {}]

\* The value of a key, given the map and the cells.
ValueIn(m, c, k) == IF k \in DOMAIN m THEN c[m[k]] ELSE None

\* Every get that has not returned takes note of the value its key has now.
Observe ==
    window' = [p \in Op |-> IF method[p] = "get" /\ pc'[p] = "holds"
                            THEN window[p] \cup {ValueIn(map', cell', key[p])}
                            ELSE window[p]]

\* map.write().await: no `write` call is holding the map.  The other critical
\* sections on the map await nothing, so no step falls inside them.
\* (Mutant: `write` lets go of the map before it locks the value.)
MapUnheld == TRUE
MapFree == \A p \in Op : ~ (method[p] = "write" /\ pc[p] = "holds")

Begin(p, m) == pc[p] = "start" /\ method[p] = m

Insert(p) ==
    /\ Begin(p, "insert")
    /\ MapFree
    /\ map' = Inserted(map, key[p], p)
    /\ cell' = [cell EXCEPT ![p] = p]
    /\ pc' = [pc EXCEPT ![p] = "done"]
    /\ UNCHANGED <<method, key, found, got>>
    /\ Observe

Remove(p) ==
    /\ Begin(p, "remove")
    /\ MapFree
    /\ map' = Removed(map, key[p])
    /\ pc' = [pc EXCEPT ![p] = "done"]
    /\ UNCHANGED <<method, key, cell, found, got>>
    /\ Observe

\* (Mutant: the absence of the key is not noticed.)
LookUpUnchecked(p) ==
    /\ Begin(p, "get") \/ Begin(p, "write")
    /\ found' = [found EXCEPT ![p] = IF key[p] \in DOMAIN map THEN map[key[p]] ELSE None]
    /\ pc' = [pc EXCEPT ![p] = "holds"]
    /\ UNCHANGED <<method, key, map, cell, got>>
    /\ Observe

\* get and write look the key up under the map's read lock.  A get without an
\* entry returns None, a write without one does nothing.
LookUp(p) ==
    /\ Begin(p, "get") \/ Begin(p, "write")
    /\ IF key[p] \in DOMAIN map
       THEN /\ found' = [found EXCEPT ![p] = map[key[p]]]
            /\ pc' = [pc EXCEPT ![p] = "holds"]
       ELSE pc' = [pc EXCEPT ![p] = "done"] /\ UNCHANGED found
    /\ UNCHANGED <<method, key, map, cell, got>>
    /\ Observe

\* get: arc_rwlock.read().await.clone(), the map being unlocked.
Get(p) ==
    /\ method[p] = "get" /\ pc[p] = "holds"
    /\ got' = [got EXCEPT ![p] = cell[found[p]]]
    /\ pc' = [pc EXCEPT ![p] = "done"]
    /\ UNCHANGED <<method, key, map, cell, found>>
    /\ Observe

\* write: *write_guard = new_value, the map still being locked for reading.
Write(p) ==
    /\ method[p] = "write" /\ pc[p] = "holds"
    /\ cell' = [cell EXCEPT ![found[p]] = p]
    /\ pc' = [pc EXCEPT ![p] = "done"]
    /\ UNCHANGED <<method, key, map, found, got>>
    /\ Observe

AllDone == (\A p \in Op : pc[p] = "done") /\ UNCHANGED vars

Next == (\E p \in Op : Insert(p) \/ Remove(p) \/ LookUp(p) \/ Get(p) \/ Write(p)) \/ AllDone

Spec == Init /\ [][Next]_vars
-----------------------------------------------------------------------------
(* Properties.                                                             *)

\* Type invariant (utils.rs:81-143).  Whoever holds a cell holds one that an
\* insert has filled.
TypeOK ==
    /\ method \in [Op -> Methods] /\ key \in [Op -> Key]
    /\ pc \in [Op -> {"start", "holds", "done"}]
    /\ DOMAIN map \subseteq Key
    /\ \A k \in DOMAIN map : map[k] \in Op /\ cell[map[k]] # None
    /\ cell \in [Op -> Op \cup {None}] /\ got \in [Op -> Op \cup {None}]
    /\ found \in [Op -> Op \cup {None}]
    /\ \A p \in Op : pc[p] = "holds" => found[p] \in Op /\ cell[found[p]] # None

\* The cache never holds more than Size entries, whatever overlaps
\* (utils.rs:102).
Bounded == Cardinality(DOMAIN map) <= Size

\* get reads the value after it has let go of the map, from a cell that may have
\* been evicted or replaced by then; still it returns a value that its key had at
\* some moment of the call (utils.rs:113-122 with 126-135).
ReadsTheKey == \A p \in Op : method[p] = "get" /\ got[p] # None => got[p] \in window[p]

\* What a call has stored is in the cache when it returns: an insert is never
\* itself evicted, and a write never goes to a cell the map has let go of
\* (utils.rs:99-110, 126-135).
StoredWhenDone ==
    [][\A p \in Op :
         \/ method[p] = "insert" /\ pc[p] # pc'[p]
         \/ method[p] = "write" /\ pc[p] = "holds" /\ pc'[p] = "done"
         => ValueIn(map', cell', key[p]) = p]_vars

\* An entry is lost only to a remove of its key or to an insert into a full
\* cache, one at a time (utils.rs:102-106).
LostOnlyWhenFull ==
    [][\A k \in DOMAIN map \ DOMAIN map' :
         \/ \E p \in Op : method[p] = "remove" /\ key[p] = k /\ pc[p] # pc'[p]
         \/ /\ \E p \in Op : method[p] = "insert" /\ pc[p] # pc'[p]
            /\ Cardinality(DOMAIN map) = Size
            /\ Cardinality(DOMAIN map') >= Size - 1]_vars
=============================================================================
