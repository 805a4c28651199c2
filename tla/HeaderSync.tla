------------------------------ MODULE HeaderSync ------------------------------
(***************************************************************************)
(* The Bitcoin header index: the thread of main.rs start_indexer, which    *)
(* asks the daemon for its best block and calls Indexer::sync_headers      *)
(* (index.rs), the in-memory HeaderList (header.rs) and the RocksDB store  *)
(* behind it (store.rs), with restarts of the process.                     *)
(*                                                                         *)
(* Headers are named by their hashes: Chain[b] is the sequence of hashes   *)
(* from the genesis block to b, which is all that prev_blockhash tells.    *)
(* The daemon has every block, and one active chain, the one ending in     *)
(* `best`; that chain grows, is reorganised or shrinks at any moment.      *)
(***************************************************************************)
EXTENDS Integers, FiniteSets, Sequences, SequencesExt

CONSTANTS
    Block,      \* block hashes
    Chain,      \* Chain[b]: the hashes from the genesis block up to b
    None,       \* no tip: all_zeros
    ChunkSize,  \* headers written by one batch: 25000, of two rows each
    MaxMoves,   \* bound of the model: moves of the daemon's best block
    MaxFaults   \* bound of the model: crashes and failed daemon requests

ASSUME ChainAssumption ==
    /\ Chain \in [Block -> Seq(Block) \ {<<>>}]
    /\ \A b \in Block : Last(Chain[b]) = b
    /\ \A b \in Block : \A i \in DOMAIN Chain[b] :
            Chain[Chain[b][i]] = SubSeq(Chain[b], 1, i)
ASSUME NoBlockAssumption == None \notin Block
ASSUME BoundAssumption ==
    ChunkSize \in Nat \ {0} /\ MaxMoves \in Nat /\ MaxFaults \in Nat

VARIABLES
    best,     \* the daemon: its best block
    rows,     \* disk: blocks with their `b` and `D` rows
    diskTip,  \* disk: the value of key `t`
    synced,   \* memory: synced_blockhashes
    headers,  \* memory: sync_headers.headers
    heights,  \* memory: sync_headers.heights; stale entries are kept
    pc,       \* indexer: loop, fetch, write, apply, check; or dead, or down
    tip,      \* indexer: `tip`, None until the first sync has returned
    target,   \* indexer: the best block that this sync was called with
    toAdd,    \* indexer: headers of this sync that were not synced before
    written,  \* indexer: how many of them are on disk
    moves, faults  \* used up of the bounds

diskVars    == <<rows, diskTip>>
memoryVars  == <<synced, headers, heights>>
syncVars    == <<target, toAdd, written>>
vars == <<best, rows, diskTip, synced, headers, heights, pc, tip, target,
          toAdd, written, moves, faults>>

NotIndexed == -1

Height(b) == Len(Chain[b]) - 1

Tip(list) == IF list = <<>> THEN None ELSE Last(list)

ChainOf(t) == IF t = None THEN <<>> ELSE Chain[t]

-----------------------------------------------------------------------------
(* The header list.                                                        *)

\* header_by_blockhash: the hash is indexed, and at that height there is
\* still the same header.
Known(b) ==
    /\ heights[b] \in 0 .. Len(headers) - 1
    /\ headers[heights[b] + 1] = b

\* What HeaderList::new makes of the rows and of the tip: the chain that ends
\* in it, where every header must be found.
Loadable(t) == Range(ChainOf(t)) \subseteq rows

\* (Mutant: only the tip is read again.)
LoadTipOnly(t) == UNCHANGED memoryVars

Load(t) ==
    /\ synced' = rows
    /\ headers' = ChainOf(t)
    /\ heights' = [b \in Block |->
                      IF b \in Range(ChainOf(t)) THEN Height(b) ELSE NotIndexed]

Contiguous(list) ==
    \A i \in 2 .. Len(list) :
        /\ Height(list[i]) = Height(list[i - 1]) + 1
        /\ Chain[list[i]][Height(list[i])] = list[i - 1]

\* The header below the first new one is looked up by position: out of range
\* when the list is shorter than that.
OutOfRange(list) == list # <<>> /\ Height(list[1]) > Len(headers)

\* (Mutant: the new headers go on top of whatever is below them.)
AttachesAnyhow(list) == list # <<>>

Attaches(list) ==
    /\ list # <<>>
    /\ \/ Height(list[1]) = 0
       \/ headers[Height(list[1])] = Chain[list[1]][Height(list[1])]

-----------------------------------------------------------------------------
(* The daemon.                                                             *)

\* get_new_headers: all of them by height while the list is empty, else back
\* from the tip to the first header that is known.
NewHeaders ==
    LET chain == Chain[target]
        known == {i \in DOMAIN chain : Known(chain[i])} \cup {0}
    IN  IF headers = <<>> THEN chain
        ELSE SubSeq(chain, 1 + (CHOOSE i \in known : \A j \in known : j <= i), Len(chain))

\* sync_headers_to_add: what has been synced before is left out.
NotSynced(list) ==
    LET kept[i \in 0 .. Len(list)] ==
            IF i = 0 THEN <<>>
            ELSE IF list[i] \in synced THEN kept[i - 1] ELSE Append(kept[i - 1], list[i])
    IN  kept[Len(list)]

\* Heights name blocks of the active chain only: another chain is an assert
\* that fails, or a height the daemon does not have.
Served == headers = <<>> => target \in Range(Chain[best])

MoveBest(b) ==
    /\ b # best
    /\ moves < MaxMoves
    /\ best' = b
    /\ moves' = moves + 1
    /\ UNCHANGED <<diskVars, memoryVars, pc, tip, syncVars, faults>>

-----------------------------------------------------------------------------
(* The indexer thread.                                                     *)

\* The first sync is unwrapped, the later ones are retried after 30 seconds.
AfterError == IF tip = None THEN "dead" ELSE "loop"

Init ==
    /\ best \in Block
    /\ rows = {} /\ diskTip = None
    /\ synced = {} /\ headers = <<>> /\ heights = [b \in Block |-> NotIndexed]
    /\ pc = "loop" /\ tip = None
    /\ target = None /\ toAdd = <<>> /\ written = 0
    /\ moves = 0 /\ faults = 0

GetBestBlockHash ==
    /\ pc = "loop"
    /\ best # tip
    /\ target' = best
    /\ pc' = "fetch"
    /\ UNCHANGED <<best, diskVars, memoryVars, tip, toAdd, written, moves, faults>>

Poll ==
    /\ pc = "loop"
    /\ best = tip
    /\ UNCHANGED vars

RequestFails ==
    /\ pc \in {"loop", "fetch"}
    /\ faults < MaxFaults
    /\ faults' = faults + 1
    /\ pc' = AfterError
    /\ UNCHANGED <<best, diskVars, memoryVars, tip, syncVars, moves>>

\* (Mutant: the count of what is written is left over from the last sync.)
FetchWithoutReset ==
    /\ pc = "fetch"
    /\ IF Served
       THEN /\ toAdd' = NotSynced(NewHeaders)
            /\ pc' = "write"
       ELSE UNCHANGED toAdd /\ pc' = "dead"
    /\ UNCHANGED <<best, diskVars, memoryVars, tip, target, written, moves, faults>>

FetchHeaders ==
    /\ pc = "fetch"
    /\ IF Served
       THEN /\ toAdd' = NotSynced(NewHeaders)
            /\ pc' = "write"
       ELSE UNCHANGED toAdd /\ pc' = "dead"
    /\ written' = 0
    /\ UNCHANGED <<best, diskVars, memoryVars, tip, target, moves, faults>>

\* (Mutant: the chunks are written from the tip down.)
WriteChunkFromTip ==
    LET last == IF written + ChunkSize < Len(toAdd) THEN written + ChunkSize ELSE Len(toAdd)
    IN  /\ pc = "write"
        /\ written < Len(toAdd)
        /\ rows' = rows \cup {toAdd[Len(toAdd) + 1 - i] : i \in written + 1 .. last}
        /\ written' = last
        /\ UNCHANGED <<best, diskTip, memoryVars, pc, tip, target, toAdd, moves, faults>>

WriteChunk ==
    LET last == IF written + ChunkSize < Len(toAdd) THEN written + ChunkSize ELSE Len(toAdd)
    IN  /\ pc = "write"
        /\ written < Len(toAdd)
        /\ rows' = rows \cup {toAdd[i] : i \in written + 1 .. last}
        /\ written' = last
        /\ UNCHANGED <<best, diskTip, memoryVars, pc, tip, target, toAdd, moves, faults>>

\* (Mutant: the tip may go to disk ahead of the rows it stands on.)
PutTipAhead ==
    /\ pc = "write"
    /\ synced' = synced \cup Range(toAdd)
    /\ diskTip' = target
    /\ pc' = "apply"
    /\ UNCHANGED <<best, rows, headers, heights, tip, syncVars, moves, faults>>

PutTip ==
    /\ pc = "write"
    /\ written = Len(toAdd)
    /\ synced' = synced \cup Range(toAdd)
    /\ diskTip' = target
    /\ pc' = "apply"
    /\ UNCHANGED <<best, rows, headers, heights, tip, syncVars, moves, faults>>

Apply ==
    /\ pc = "apply"
    /\ IF ~Contiguous(toAdd) \/ OutOfRange(toAdd)
       THEN pc' = "dead" /\ UNCHANGED <<headers, heights>>
       ELSE /\ pc' = "check"
            /\ IF Attaches(toAdd)
               THEN /\ headers' = SubSeq(headers, 1, Height(toAdd[1])) \o toAdd
                    /\ heights' = [b \in Block |->
                           IF b \in Range(toAdd) THEN Height(b) ELSE heights[b]]
               ELSE UNCHANGED <<headers, heights>>
    /\ UNCHANGED <<best, diskVars, synced, tip, syncVars, moves, faults>>

\* `tip  headers_sync.tip() not equal, try again`, after reload_store.
CheckTip ==
    /\ pc = "check"
    /\ IF Tip(headers) = target
       THEN tip' = target /\ pc' = "loop" /\ UNCHANGED memoryVars
       ELSE /\ UNCHANGED tip
            /\ IF Loadable(diskTip)
               THEN Load(diskTip) /\ pc' = AfterError
               ELSE pc' = "dead" /\ UNCHANGED memoryVars
    /\ UNCHANGED <<best, diskVars, syncVars, moves, faults>>

-----------------------------------------------------------------------------
(* The process.                                                            *)

Crash ==
    /\ pc # "down"
    /\ faults < MaxFaults
    /\ faults' = faults + 1
    /\ pc' = "down"
    /\ synced' = {} /\ headers' = <<>> /\ heights' = [b \in Block |-> NotIndexed]
    /\ tip' = None
    /\ target' = None /\ toAdd' = <<>> /\ written' = 0
    /\ UNCHANGED <<best, diskVars, moves>>

\* Store::open panics when it cannot load the chain of `t`: the process stays down.
Restart ==
    /\ pc = "down"
    /\ Loadable(diskTip)
    /\ Load(diskTip)
    /\ pc' = "loop"
    /\ UNCHANGED <<best, diskVars, tip, syncVars, moves, faults>>

\* Without its indexer the process goes on serving.
Headless == pc = "dead" /\ UNCHANGED vars

Sync == GetBestBlockHash \/ FetchHeaders \/ WriteChunk \/ PutTip \/ Apply \/ CheckTip

Next ==
    \/ \E b \in Block : MoveBest(b)
    \/ Sync
    \/ Poll
    \/ RequestFails
    \/ Crash
    \/ Restart
    \/ Headless

Spec == Init /\ [][Next]_vars

\* The indexer is an operating system thread: it goes on while it lives.
FairSpec == Spec /\ WF_vars(Sync)

-----------------------------------------------------------------------------
(* Properties.                                                             *)

Alive == pc \notin {"dead", "down"}

TypeOK ==
    /\ best \in Block
    /\ rows \subseteq Block /\ diskTip \in Block \cup {None}
    /\ synced \subseteq Block /\ headers \in Seq(Block)
    /\ heights \in [Block -> Nat \cup {NotIndexed}]
    /\ pc \in {"loop", "fetch", "write", "apply", "check", "dead", "down"}
    /\ tip \in Block \cup {None} /\ target \in Block \cup {None}
    /\ toAdd \in Seq(Block) /\ written \in 0 .. Len(toAdd)
    /\ moves \in 0 .. MaxMoves /\ faults \in 0 .. MaxFaults

\* The process can always be started again: whatever was on its way to disk
\* when it stopped, the `t` key never names a block whose header, or that of
\* one of its ancestors, is not on disk (Store::open would panic, every time).
DurableTipLoadable == Loadable(diskTip)

\* The filter of sync_headers_to_add leaves no hole: whichever chunks of an
\* interrupted sync are on disk, what remains is an unbroken run of headers up
\* to the target, so that the asserts of HeaderList::apply do not fire.
NothingSkipped ==
    pc \in {"write", "apply"} =>
        /\ IsSuffix(toAdd, Chain[target])
        /\ Range(Chain[target]) \subseteq rows \cup Range(toAdd)

\* The readers of sync_headers always see the unbroken chain of its tip, even
\* between apply and reload, and find each of its headers by its hash.
HeadersAreAChain ==
    /\ headers # <<>> => headers = Chain[Tip(headers)]
    /\ \A i \in DOMAIN headers : Known(headers[i])

\* Retrying ends: once the daemon's best block stays as it is and the indexer
\* lives, sync_headers returns Ok for that block, stale branch or not.
SyncReturns ==
    \A b \in Block : <>[](Alive /\ best = b) => <>[](tip = b)

\* "loop sync_headers failed {e}, retry in 30 secs" (main.rs:278): then the
\* header list ends up at the daemon's best block.
TipFollowed ==
    \A b \in Block : <>[](Alive /\ best = b) => <>[](Tip(headers) = b)
=============================================================================
