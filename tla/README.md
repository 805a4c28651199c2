# A verification project for deeps-spv

deeps-spv is a gateway that answers blockchain queries from light clients and
from several RPC nodes, signing its answers inside an SGX enclave. This
directory holds TLA+ models of its parts that keep state and run concurrently,
the TLC instances that check them, and proofs that TLAPS checks.

Source paths below are those of the repository (`src/src/...` is its `src/`
directory). `PROJECT.json` ties every definition to the lines it models.

## 1. The system

| component | state it keeps | operations | talks to |
|---|---|---|---|
| Solana quorum client, `chains/sol.rs` | task channel (1024), broadcast channel (1024), per task an inner channel and a response channel, ballots of the current task | five `get_*` calls, one dispatcher, one worker per extra RPC | judge RPC, extra RPCs; called by `solrpc` |
| Bitcoin header index, `index.rs`, `header.rs`, `store.rs`, `main.rs:250-289` | RocksDB rows and tip `t`; `synced_blockhashes`; `HeaderList` | `sync_headers`, `reload_store`, `Store::open` | Bitcoin daemon; read by `server.rs` and `chainstate.rs` |
| Daemon JSON-RPC client, `daemon.rs` | a message counter | batches of requests, header download, transaction proofs | bitcoind, dogecoind |
| Response cache, `utils.rs:81-143` | a bounded `BTreeMap` behind locks, entries behind locks of their own | `insert`, `get`, `write`, `remove` | shared by every service |
| Proof verification, `chainstate.rs`, `btcrpc/proof.rs` | none but the cache | `fetch_proof_and_verify`, `verify_txid` | daemon, P2P client, cache |
| Bitcoin/Dogecoin header service, `btcrpc/mod.rs` | none but the cache | `getbestblockhash`, `getblockheader`, `getblockhash` | P2P client, cache |
| Solana service, `solrpc/mod.rs` | none but the cache | parses, caches transactions | quorum client, cache |
| Ethereum and Optimism service, `ethrpc/mod.rs`, `chains/eth.rs`, `chains/optimism.rs` | inside helios | forwards | helios |
| P2P clients, `chains/btc_p2p.rs`, `chains/doge_p2p.rs` | inside nakamoto; one thread each | a watchdog thread that calls `exit(0)` | P2P network |
| Server and start-up, `server.rs`, `main.rs`, `config.rs` | service switches, an `Option` per client | routing, order of initialisation | everything |

What is hard, and what makes the parts correct:

* **Quorum client.** Callers, the dispatcher and workers are asynchronous tasks
  connected by bounded channels. A worker may still be calling its RPC for a
  task the dispatcher has left, because another RPC failed or 60 seconds went
  by; a caller may disconnect at any await; a worker may fall behind the
  broadcast channel, whose `Lagged` error is dropped. Correct means: an answer
  stands on the replies of *all* extra RPCs *to this request* and on the judge;
  a refusal has a cause; ballots never leak from one task to the next; each
  caller is served once, and the single dispatcher never gets stuck.
* **Header index.** A sync writes header rows in batches, then the tip, then
  changes the list in memory, while the daemon's chain moves, and the process
  may stop between any two of these. Headers of an abandoned branch stay in the
  database and in `synced_blockhashes`. Correct means: the store can always be
  opened again; readers always see an unbroken chain; retries end; the list
  follows the daemon.
* **Cache.** A lock around the map and one around each value. A reader lets go
  of the map before it reads, a writer holds it while it waits, and an insert may
  evict what others are about to read. Correct means: the bound holds; a read
  returns a value its key had during the call; what was stored is there.
* **Services and proofs.** Handlers look up, ask their source at an await, and
  insert: two may miss together, a source may move on in between, and the five
  services share one cache whose keys do not name the service or the form of the
  value. Correct means: nothing is cached or answered that its source never had;
  a verified proof has the root of a header that stood in a P2P chain; an answer
  is what the request asked for.
* **Daemon client.** Replies are matched by position under one id per batch; a
  long call takes many requests, between which the daemon's chain moves. Correct
  means: a call that returns `Ok` returns what it was asked for, whatever comes
  back late, short, repeated or out of order.
* **Start-up, middleware, watchdogs.** Three places (what `main` builds, what the
  middleware admits, what a handler unwraps) must agree on which clients exist.
  A P2P client that dies is replaced only by the end of the process, and nothing
  in the process starts it again: that is left to the container
  (`--restart=unless-stopped`, `src/README.md:144`).

`PROJECT.json` lists these hazards one by one at their lines, with the
properties that cover them or the reason none does.

## 2. Plan

Done:

1. `SolQuorum`, the pure decisions; `SolClient`, the pipeline; their instances.
2. `SolQuorumProofs`, `SolClientProofs`: the inductive invariant of the
   pipeline, type correctness and five of its properties.
3. `HeaderSync`, the header index, with crashes and reorganisations.
4. `CacheMap`, the map of the response cache, and on top of it `SimpleCache`,
   its locks, and `ResponseCache`, the services that share it.
5. `QuorumRead`, what a caller of the quorum client is promised, and
   `SolRefinement`, that `SolClient` keeps the promise.
6. `DaemonClient`, batches and the calls built on them.
7. `Gateway`, start-up, middleware, watchdogs and restarts.
8. `CacheProofs`, all properties of `SimpleCache`; `ResponseCacheProofs`, the
   safety properties of `ResponseCache`.
9. `SolAnswerProofs`, the other safety properties of `SolClient`, and that it
   implements `QuorumRead`.
10. `HeaderSyncProofs`, `DaemonClientProofs` and `GatewayProofs`, the safety
    properties of these modules.

With that, every invariant and every action property that a passing run checks
is also a theorem, and so is the refinement; liveness stays with TLC. Left is
what would tie components together more closely: that `HeaderSync.FetchHeaders`,
one step, is what the batches of `DaemonClient` implement, and that a step of
`ResponseCache` on the map is what `SimpleCache` implements. Section 3 gives the
argument for both; neither is stated as a refinement. No module has a recursive
operator.

## 3. The modules

### SolQuorum

The five `deal_get_*_res` functions and the last lines of the five callers, as
operators. A ballot is a pair `<<value, rpc>>`. The scalar kinds need one value
with strictly more votes than any other (`Plurality`); the list kinds keep the
items whose count over all lists laid end to end equals the number of lists
(`Common`). `SlotVerdict`, `SameVerdict`, `SignaturesVerdict`, `AccountsVerdict`
compare with the judge. A list that the code collects from a map is a set; the
order of an answered list is not modelled.

### SolClient

One request stands for one call of a `get_*` method. Its place in the code:

| model | code |
|---|---|
| `pc[r]`: idle, sending, waiting, done, gone, panicked | where the call is: before the judge, at `task_sender.send`, at `response_receiver.recv`, returned, dropped, in `unreachable!()` |
| `taskQueue`, `response[r]` | the mpsc channels of 1024 and of 1 |
| `current`, `ballots`, `inbox`, `waited` | the `deal_get_*` call the dispatcher is in: its task, `res`, inner channel, `Instant` |
| `broadcast`, `next[w]` | the broadcast channel and each receiver's position; the channel retains the last `BroadcastCap` entries |
| `task[w]`, `attempts[w]` | the worker's task, and its `for _ in 0..3` |
| `reported` | a history: what each RPC replied for each request, in the end |

`AskJudge`, `SendTask` and `Receive` are the three parts of a call between its
awaits; `StartDispatcher` takes and broadcasts a task; `Collect` is a turn of the
collecting loop that gets a ballot, with the tests in the code's order (a failed
ballot, the last ballot, the clock); `PollTimeout` is a turn that gets none and
leaves the clock unread; `WorkerLagged`, `WorkerReceive` and `RpcCall` are the
worker. The five kinds run through the same steps, as the five copies in the
code do, and differ where the copies differ: how a ballot is kept (`Cast`), how
the ballots are decided (`Decide`), what the caller makes of it (`Verdict`), the
early return for an empty list of signatures, and the event that
`deal_get_account_info` sends for a failed ballot (`ErrorEvent`).

Abstractions: an RPC may reply any value of the kind, or fail, every time it is
asked; extra RPCs are asked the paged query for signatures, so their lists are
unrelated to the judge's; a ballot is received in one step with the decision
that follows it (the dispatcher awaits nothing in between but a send into a
response channel that has room, as `ServedOnce` shows). Branches that a live
pipeline cannot take are left out: a failed `broadcast::send` (every worker keeps
its receiver for ever), a closed task channel (the client itself holds the
receiver), a closed response channel (an event is always sent before the sender
is dropped).

### HeaderSync

A header is its hash, and `Chain[b]` the hashes from genesis to `b`, all that
`prev_blockhash` says. A sync is `GetBestBlockHash`, `FetchHeaders` (download,
`order`, filter), `WriteChunk` for each batch, `PutTip` (`synced_blockhashes`,
then `t`), `Apply`, and `CheckTip` (equal, or `reload_store` and "try again").
`Apply` has the code's four outcomes: nothing to add, a panic (an assertion, or
an index past the end of the list), a list that does not attach and is dropped
in silence, or the splice. `Crash` loses the memory at any point, `Restart` is
`Store::open`; `MoveBest` moves the daemon's best block to any block. The
`heights` map keeps stale entries, as the code's does, and `Known` tells them
apart as `header_by_blockhash` does. The heights that `order` assigns are the
positions in the chain; `HeadersAreAChain` is what makes that so. RocksDB is
modelled as a store whose synced batches are atomic and survive in order.

Two facts for the reader: `start_indexer` is compiled but not called at this
commit (`#[allow(dead_code)]`), while `Store::open` runs at every start; and the
index panic in `Apply` happens while the write lock is held, so it poisons the
lock for the readers in `server.rs:136`, until the process is started again,
which then succeeds.

### QuorumRead, SolRefinement

`QuorumRead` is the contract of a `get_*` call without the machinery: the judge
is asked, each extra RPC replies or fails once, and the call ends once, with an
answer or a refusal that these replies warrant (`Warranted`). It says nothing of
retries, queues or cancellation, except that a refusal by timeout needs no cause,
and that a panic needs an account request and a failed RPC. `SolRefinement` maps the pipeline onto it:
a call is open while its caller waits, `replies` are `reported`.
`ImplementsQuorumRead` is checked with one call of every kind and three RPCs
(`sol_votes`), and with two overlapping calls (`sol_pipeline`).

### CacheMap, SimpleCache

`CacheMap` has the map operations as operators on functions: `Inserted` evicts
the smallest key of a full map first, present or not, as `insert` does.
`SimpleCache` adds the locks. A method of `utils.rs` is one action if it awaits
nothing while it holds the map (`Insert`, `Remove`), and two if it does: `LookUp`,
then `Get` on the shared cell, or `Write` with the map still locked for reading
(`MapFree` is what an insert or remove waits for). An `Arc` is named by the
insert that allocated it. Readers of the map overlap freely.

### ResponseCache

A call of any handler goes through `proof`, `lookup`, `remove`, `fetch`,
`insert`, each an action that stands for the code between two awaits:

| action | code |
|---|---|
| `Begin` | parameters parsed or refused; the Solana config is not among them |
| `AskDaemon` | `gettxoutproof` and `extract_matches` (`chainstate.rs:63-114`, `proof.rs`) |
| `LookUp` | `response_cache.get`: a hit is answered by `Hit`, per method |
| `RemoveUnreadable` | `solrpc/mod.rs:391-393` |
| `Fetch` | the P2P client, helios, or the quorum client is asked; `Absent` is a null receipt or an error |
| `Insert` | `response_cache.insert`, then the answer of a miss (`MissAnswer`) |
| `Disconnect` | the handler's future is dropped at an await |
| `Move` | a source changes: a reorganisation, a mined receipt |

A value is an item, the service it came from, and the form it was stored in
(`StoredForm`). `btcrpc`'s P2P client answers without an await, but `Fetch` stays
an action of its own: handlers run on several threads. `SimpleCache` is what
justifies taking a cache operation for one step. A Merkle block is its block, the
root its tree yields and the transactions it matches; `Root` gives the root of
each header. The methods that bypass the cache are calls `uncached`. Taken
together, a `Failure` is any error response: which one is not told apart.

### DaemonClient

`Begin` starts a call with its first batch, under the next `message_id`.
`SendReq` is one HTTP request of up to `BatchChunk` queries with the replies that
come back: in good order, or reversed, short, repeated, holding an error with or
without a numeric code, those of an earlier request, or none at all.
`parse_jsonrpc_reply` is `Parses`: an error without a code passes, with a null
result. When the batch has been replied to, the call goes on: the four calls of
one query check that there is one result (the `assert_eq!` is `Panic`) and parse
it; `GetNewHeaders` walks back header by header; `GetTipHeight`,
`GetBlockHashes`, `GetBlockHeaders` are the stages of `get_all_headers`, with its
asserts. `HeaderSync.FetchHeaders` takes a whole call for one step;
`NewHeadersAttach` and `AllHeadersExact` are what makes that sound for a call
that returns `Ok`.

### Gateway

`phase` walks through `main`: each client is built if its service is enabled
(`Build`), or fails (`StartFails`), which ends the process, because every step is
unwrapped. A P2P client comes with its thread and its watchdog; `NodeFails` kills
the thread only, `Watch` is `exit(0)`, `Restart` the container. A request arrives,
is admitted or refused by `IsServiceEnabled`, and its handler unwraps the clients
of `Unwraps(path)` and, for a ping, the tips of `UnwrapsTip(path)`. A path is a
route and what stands for its parameter, which may be a transaction id, another
name, or a name that begins like the route of a verification: the middleware
looks for these names anywhere in the path before it compares the path as a
whole. `NoneUnwrapped` and `RefusedForCause` together say that the three lists
agree, but for the pings that pass for a verification.

## 4. The runs

| run | question | bounds |
|---|---|---|
| `sol_votes` | is every answer of the five methods backed, every refusal caused, every call as promised? | 3 RPCs, 1 request, 3 slots, 2 blobs, 5 lists of up to 2 items, 2 attempts |
| `sol_pipeline` | do tasks, ballots and events keep apart, is a lagging worker harmless, are overlapping calls as promised? | 2 RPCs, 2 requests of 2 kinds, 2 attempts, all channels of 1, a limit of 1 second |
| `sol_live` | is everyone answered, does the dispatcher move on? | 2 RPCs, 2 requests, all channels of 1 |
| `sol_unreachable` | (violated) can a caller reach `unreachable!()`? | 1 RPC, 3 attempts, 60 seconds |
| `sync_crash` | is the disk, and what readers see, sound at every step, and do retries end? | 6 blocks in 2 branches, 3 moves, 2 faults, batches of 2, the last one partial or not |
| `sync_stuck` | (violated) does the list follow the daemon? | the same blocks, batches of 1, no fault |
| `cache_locks` | do the two levels of locks keep the methods apart? | 5 calls of any method, 3 keys, a cache of 2 |
| `cache_services` | is nothing invented, every verification backed, every call ended? | 2 calls of 10 requests of all services, a cache of 2, 2 moves of the sources |
| `cache_asked` | (violated) is an answer of the form and chain asked for? | 2 calls of `getblockhash`, Bitcoin and Dogecoin |
| `proof_verdict` | (violated) does a verification succeed just for correct proofs? | 2 calls, an honest daemon, no moves |
| `daemon_calls` | does `Ok` mean what was asked for, and a panic a reorganisation? | 2 threads, 7 calls, 6 blocks, 2 queries to a request, 3 heights to a call, 1 move, 1 bad delivery |
| `gateway` | do main, middleware and handlers agree, and does the process heal? | all 32 choices of services, all flags with 1, 3 or 4 Solana RPCs, 1 request to any path, 3 failures |

Why these are enough: three RPCs are the fewest the program accepts, and give
unanimity, majority, a three-way tie and a failure; two requests are what it
takes for a ballot to arrive late, and, as a task that is over stays in the
broadcast channel of one until the next takes its place, for a worker to lag;
channels of one make every full channel happen; a limit of one second makes
cancellation race every ballot. Two branches above a genesis block give a
reorganisation, the way back to an abandoned branch, and a chain that shrinks;
three moves do all of it in one run, and a chain of four blocks is two chunks of
two, one of three a whole and a partial one. `Horizon` only caps the second
counter and changes nothing past `Patience`. Three keys for a cache of two make
evictions; five calls are a reader, a writer, an insert of the same key and two
that evict. Of two calls one can fill or empty the cache between any two steps of
the other; two moves take a source to another state and back. Two queries to a
request and three heights to a call of `getblockheaders` cut a chain of four
blocks into two calls, the first of them into two requests. Three failures are a
failed start and the loss of both P2P clients. Requests, calls and RPCs are
symmetric in the runs without a liveness property; the others use no symmetry. No
run turns deadlock checking off: `Idle` is the finished pipeline, `Headless` the
process without its indexer, `AllDone` and `Served` are calls that have ended,
`Wait` is a server without requests.

Fairness. `SolClient`: the Tokio scheduler runs every task that is ready, so
`StartDispatcher`, `Deal`, each caller's `SendTask` and `Receive` and each
worker's next step are weakly fair. Tokio serves the senders of a full channel
first come, first served, so none is passed over for ever. A worker's
fairness includes that an RPC call ends, which the client's HTTP timeout gives.
Nobody is obliged to call or to disconnect, and no clock is fair: the properties
hold without the 60 second limit ever firing. `HeaderSync`: the indexer is an
operating system thread, so a step of it that stays possible is taken; crashes,
restarts, failed requests and moves of the daemon are not obliged to happen, and
`SyncReturns` speaks of a best block that stays. `ResponseCache`: the runtime
schedules every handler, and what it awaits answers or fails (HTTP timeouts);
nobody is obliged to call. `Gateway`: `main` goes on, a watchdog thread takes its
turn, and the container starts a process that has ended; requests and failures
are not obliged to happen, and `Heals` holds after the last of the latter, which
`MaxFaults` bounds. It is stated for configurations with which every step of
`main` can succeed (`Sound`): with another one the container restarts for ever.

## 5. What is proved

`SolQuorumProofs.PluralityExact`: for any finite set of RPCs that have all
replied, `Plurality` returns `Ok(v)` if and only if `v` has strictly more votes
than every other value, and a mismatch if and only if no value has. The two
directions are the lemmas `PluralityIsUniqueLeader` and
`UniqueLeaderIsPlurality`. They rest on counting: the ballots for `v` are as many
as the RPCs that voted for it.

`SolClientProofs` proves, for every value of the constants that the six named
assumptions of `SolClient` admit, `Spec => []TypeOK`, `[]AnswerBacked`,
`[]TakenOnce`, `[]CollectorSound`, `[]EventFaithful` and the action property
`BallotFinal`. The assumptions are those of the code: finitely many RPCs and at
least one, capacities and attempts at least one, lists are sequences. No bound
of a run remains.

The argument. `TypeOK` alone is not inductive: what `Receive` returns has the
right type only because a caller that waits holds a judge's reply, and a list of
signatures that is not empty (`JudgeHeld`). The others follow the ballots.
`BoxSound`, the first half of `CollectorSound`, says that whatever lies in the
inner channel or in `res` is what its RPC replied to the current task; it
survives a worker's send because a worker only holds tasks that its RPC has not
answered (`TakenOnce`), so that no reply is overwritten, and a change of task
empties both. By the same argument a worker that sends has no ballot there yet
(`BoxOnce`, the second half). When the collector counts as many ballots as there
are RPCs, `BoxSound` makes them the replies of all RPCs (`FullBox`), and the
event is faithful; it stays so in the response channel because no reply changes.
An answer is backed because the event it was made from was faithful, by
`PluralityIsUniqueLeader`, and because the judge's reply was held since. `IInv`
is the conjunction of these parts; the preservation of each part is a lemma with
a step, or a lemma, for every action of `Next`, and `Invariance` puts them
together.

`CacheProofs` proves every property of `SimpleCache`: `TypeOK`, `Bounded`,
`ReadsTheKey`, `StoredWhenDone` and `LostOnlyWhenFull`, for any keys, size and
calls. Its assumptions: the size is at least one (`SizeAssumption`), calls are
not the value `None` (`OpAssumption`), and keys are ordered like numbers
(`RankAssumption`), as keys of at most 64 bytes, of which there are finitely
many, can be; it gives a map that is not empty a smallest key
(`SmallestIsThere`). `ReadsTheKey` is not inductive. The invariant adds that a
cell belongs for ever to the key of the insert that allocated it
(`CellsOfKeys`), that a `get` in progress would read a value its key has had
since the lookup (`ReaderSees`), and that the cell a `write` holds is still the
one in the map (`WriterHolds`). The last is where the map's lock matters: no
insert or remove passes while a writer waits. It also makes `StoredWhenDone` true
of a `write`. `StoredWhenDone` and `LostOnlyWhenFull` speak of steps, and follow
from the invariant action by action.

`ResponseCacheProofs` proves `TypeOK`, `NothingInvented` and `ProofBacked` of
`ResponseCache` for any calls, sources and size of the cache. Its assumptions
say what the requests of the services are (`RequestAssumption`), that block
hashes are no other cache keys (`KeyAssumption`), and that a P2P client finds a
block under its own hash (`WorldAssumption`). `NothingInvented` needs that the
history contains what the sources answer now (`SeenSound`); `ProofBacked` needs
that what is stored under a block's hash came from a P2P client
(`BlocksOfCoins`). The argument goes call by call: `Parts` splits the invariant
into what it says of one call, of the cache and of the sources; a step changes
one call (`OneCall`), the others are unaffected because the history only grows
(`OtherCallFits`), and of the step itself it remains to show what it stores and
what it returns (`ReturnAnswers`).

`SolAnswerProofs` proves the rest about the quorum client, from the same
assumptions: `NobodyMissed`, `ServedOnce`, `RefusalJustified`, `ListBacked`, and
the refinement `ImplementsQuorumRead`. Its invariant `FullInv` extends `IInv`.
`NobodyMissed` is inductive with `TakenOnce`: while there is a current task it is
the last one broadcast, so a receiver that lags is set forward to at most it.
`ServedOnce` counts the places of a task; `InOnePlace` says the same without
counting and is inductive, and a lemma gives the count. A refusal is justified
because the event it came from was (`EventCaused`): an internal error, or an
event of a foreign kind, which only an account request gets, stands for an RPC
that has failed, and a mismatch for replies of all RPCs without a leader. For lists, `CommonIsInEveryList` and
`SeenTwiceIsShared` of `SolQuorumProofs` turn the exact count over lists laid end
to end into membership in every list, where no list repeats an item. The
refinement then follows step by step: the initial states map to initial states;
`AskJudge` is a step of asking, a worker's last attempt at a task the reply of
its RPC, `Disconnect` a call given up, and the other steps of callers,
dispatcher and workers stutter. `Receive` ends the call, and must do so as
`Warranted` allows: what the four properties say of the state after it is just
that.

`HeaderSyncProofs` proves `TypeOK`, `DurableTipLoadable`, `NothingSkipped` and
`HeadersAreAChain` for any tree of blocks, size of chunks, and number of moves,
failed requests and crashes. `ChainAssumption` says that blocks form a tree:
each names its predecessor. What makes the properties inductive is
`AncestorsSynced`: on disk, and in `synced_blockhashes`, no block stands without
its ancestors. It holds in the middle of a sync because rows are written from
the lowest block up (`InOrder`), and it is what makes the filter of
`sync_headers_to_add` (`NotSynced`) leave a gapless end of the target's chain,
however often the sync was interrupted before, and on whatever branch: the
synced part of a chain is a beginning of it. `ListOfTip` adds that the header
list is the chain of its last header, and that the heights of its members are
current, although the `heights` map keeps stale entries of other blocks.

`DaemonClientProofs` proves `TypeOK`, `OwnReply`, `NewHeadersAttach`,
`AllHeadersExact` and `PanicsOnReorg` for any number of threads, tree of blocks,
sizes of batches and chunks, and any number of moves of the best block and of
deliveries out of the ordinary. `CallAssumption` says what the threads ask: tips
are blocks, and the headers known to `get_new_headers` include the ancestors of
each, which `HeadersAreAChain`, a theorem itself, says of the header list. The
conjuncts of the invariant speak of one thread each. `FreshAt`: ids of batches
under way differ, and no late reply has the id of a batch of one query, since
`message_id` only grows. Hence `SinglesAt`: what a batch of one query gets is
what it asked, or null. `ClimbedAt` follows `get_new_headers` down the chain of
its tip, where every header collected so far is unknown. `AllHeadersExact` needs
no such invariant: the asserts of `get_all_headers` alone make a list of headers
that ends in the tip and follows predecessors down to genesis the chain of the
tip (`LinkedIsChain`, by least counterexample). `PanicsOnReorg` is the converse
and needs `OnTrackAt`: with replies in good order and the tip on the best chain
throughout, each value of each batch is the one expected at its height.

`GatewayProofs` proves `TypeOK`, `NoneUnwrapped` and `RefusedForCause` for any
configurations, number of requests and failures. The invariant says which
clients there are: the enabled ones whose step of `main` has been passed
(`Built`, with the steps numbered); that what the middleware decided about a
request still holds (`Decided`), because a serving process keeps its clients
until it ends; and that a P2P client that is dead has failed (`Deaths`), for what
`NoneUnwrapped` says of a ping with both coins enabled.

Only model-checked: liveness (`CallerAnswered`, `DispatcherFreed`,
`SyncReturns`, `CallEnds`, `Heals`), which is out of the prover's reach, and the
four properties that the code violates. Induction on numbers is done through
`WFMin` of the library, which takes sets: a least counterexample leads to a
contradiction.

## 6. What was found

* An extra RPC that fails an account request makes the caller panic:
  `chains/sol.rs:801` sends `ResponseEvent::GetSlot`, `1442` declares it
  `unreachable!()` (run `sol_unreachable`).
* After a failed sync the header list may stay on an abandoned branch: the
  announced retry is skipped when the daemon is back at the tip of the last
  successful sync (run `sync_stuck`). It takes a daemon whose best block returns
  to an earlier one, as after `invalidateblock` or between equal branches.
* The second `getblockhash` of a height is answered with a header instead of a
  hash, and, as Bitcoin and Dogecoin share the key, with that of whichever chain
  was asked first (run `cache_asked`). The same property fails in two more ways:
  a `getTransaction` gets the encoding of the first caller's config, or an answer
  although its config does not parse, which is noticed after the lookup only
  (`solrpc/mod.rs:383`, `404`); a receipt cached for Ethereum answers Optimism
  for an equal hash, and the other way round.
* A correct proof is refused while its block's header is cached as the hex string
  of a `getblockheader` (run `proof_verdict`). The same property fails the other
  way round when the daemon returns a proof of another transaction: the matches
  extracted at `chainstate.rs:104-108` are compared with nothing.

Worth knowing, and visible in the models:

* "took more than 60s" is not a limit while RPCs are silent: the clock is read
  only after a ballot (`PollTimeout`), and every later task waits.
* "try again" (`index.rs:82`) ends the indexer thread during its first sync,
  which `main.rs:261` unwraps (`AfterError`). A crash between the last rows of the
  first sync and its `t` key leads there.
* The asserts of `get_all_headers` fire on an ordinary reorganisation between two
  of its requests, and, with replies in good order, on nothing else
  (`PanicsOnReorg`).
* An exact count stands for agreement on lists: a repetition within one RPC's
  list makes up for an absence in another's, so `ListBacked` is conditional on
  lists without repetitions. With three or more RPCs a plurality is enough, two
  of five for instance.
* A broadcast channel that overflows is harmless only because there is one
  dispatcher: what is overwritten is never the current task (`NobodyMissed`).
* `oldest_key` (`utils.rs:103`) is the smallest key, so height keys, which begin
  with zero bytes, always go first; and a full cache evicts even when the key to
  be inserted is present.
* A header that a verification caches has no height, and a later
  `getblockheader` is answered with it.
* A ping is refused whatever is enabled, except `/ping/verify_tx...` with Bitcoin
  and `/ping/verify_tx_doge...` with Dogecoin enabled, which the middleware takes
  for verifications (`server.rs:230-233`). The handler unwraps the handles and
  the tips of both coins (`126-132`, `142-148`): it panics if the other coin is
  not enabled, or if a P2P client has failed.
* `--electrs-support` "to only start the P2P service" (`src/README.md:51`) leaves
  the choice of services to `--start-filter`.

## 7. Not modelled

Formatting, parsing, encryption of stored values, logging; the helios and
nakamoto libraries, seen only through what they answer; SGX registration;
`sync_headers_with_api_check`, `get_mtp`, the `BlockEntry` helpers and
`gettxoutproofs`, which nothing calls; `types.rs`, which is plain data; the
packaging scripts; the number of runtime threads (the RPC clients block the
thread they run on). That an outdated value is answered from the cache until it
is evicted is modelled, and no property forbids it: the code does not say
otherwise.

## 8. Running it

    tlc -config sol_pipeline.cfg MCSolClient.tla
    tlc -config sync_crash.cfg MCHeaderSync.tla
    tlc -config cache_locks.cfg MCSimpleCache.tla
    tlc -config cache_services.cfg MCResponseCache.tla
    tlc -config daemon_calls.cfg MCDaemonClient.tla
    tlc -config gateway.cfg MCGateway.tla
    tlapm SolQuorumProofs.tla
    tlapm SolClientProofs.tla
    tlapm CacheProofs.tla
    tlapm ResponseCacheProofs.tla
    tlapm SolAnswerProofs.tla
    tlapm HeaderSyncProofs.tla
    tlapm DaemonClientProofs.tla
    tlapm GatewayProofs.tla

Operators whose comment begins with "(Mutant:" are not part of the models. Each
is a plausible slip in the definition that follows it; with it in that
definition's place, the property it is listed with in `PROJECT.json` fails.
