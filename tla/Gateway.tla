------------------------------- MODULE Gateway -------------------------------
(***************************************************************************)
(* The process as a whole: the order in which main.rs builds its clients   *)
(* from the configuration (config.rs), the middleware and the routes of    *)
(* the HTTP server (server.rs), the two P2P light clients with their       *)
(* watchdogs (chains/btc_p2p.rs, chains/doge_p2p.rs), and the container    *)
(* that starts the process again (README.md:144).                          *)
(*                                                                         *)
(* ChainsState holds an Option per client, and every handler unwraps those *)
(* it needs: nothing but the middleware keeps a request from one that is   *)
(* None.  `clients` is the set of the Options that are Some.               *)
(***************************************************************************)
EXTENDS Integers, FiniteSets

CONSTANTS
    Configs,   \* configurations the process may be started with
    Req,       \* HTTP requests
    MaxFaults  \* bound of the model: failures of what the process depends on

Coins    == {"btc", "doge"}
Services == Coins \cup {"eth", "op", "sol"}
Daemons  == {"btc_daemon", "doge_daemon"}

\* main: what is initialised, in this order, and then serve.
Follows == [eth |-> "op", op |-> "seal_key", seal_key |-> "btc", btc |-> "doge",
            doge |-> "btc_daemon", btc_daemon |-> "doge_daemon", doge_daemon |-> "sol",
            sol |-> "store", store |-> "server"]
Steps   == DOMAIN Follows \cup {"server"}

ASSUME ConfigAssumption ==
    \A c \in Configs :
        /\ c.service \subseteq Services /\ c.cookies \subseteq Coins
        /\ c.electrs_support \in BOOLEAN /\ c.btc_only_p2p \in BOOLEAN
        /\ c.single_sol_rpc \in BOOLEAN
        /\ IsFiniteSet(c.sol_extra_rpcs)
ASSUME FaultAssumption == MaxFaults \in Nat

VARIABLES
    config,
    phase,    \* the step of main that comes next, serving, or down
    clients,  \* the clients that are Some in ChainsState
    node,     \* per coin, the thread of the P2P client: off, running or dead
    watched,  \* the coins whose watchdog thread runs
    path,     \* of a request
    request,  \* idle, received, admitted, refused (503), answered, panicked or lost
    faults

httpVars == <<path, request>>
vars == <<config, phase, clients, node, watched, path, request, faults>>

Off    == [c \in Coins |-> "off"]
NoPath == [route |-> "none", arg |-> "none"]

Init ==
    /\ config \in Configs
    /\ phase = "eth"
    /\ clients = {} /\ node = Off /\ watched = {}
    /\ path = [r \in Req |-> NoPath]
    /\ request = [r \in Req |-> "idle"]
    /\ faults = 0

-----------------------------------------------------------------------------
(* Starting.                                                               *)

\* The service a step belongs to; the others belong to none.
Enabled(step) ==
    CASE step \in Services -> step \in config.service
      [] step = "btc_daemon" -> "btc" \in config.service
      [] step = "doge_daemon" -> "doge" \in config.service

\* cookie.clone().unwrap(), and the number of distinct Solana RPCs: an odd one
\* of at least three, unless ENABLE_SINGLE_SOL_RPC is set.
Misconfigured(step) ==
    \/ step = "btc_daemon" /\ "btc" \notin config.cookies
    \/ step = "doge_daemon" /\ "doge" \notin config.cookies
    \/ /\ step = "sol" /\ ~ config.single_sol_rpc
       /\ LET n == Cardinality(config.sol_extra_rpcs) IN n < 3 \/ n % 2 = 0

\* Daemon::new asks the daemon for its tip, but not with --electrs-support.
DependsOnOthers(step) == step \notin Daemons \/ ~ config.electrs_support

Fault == faults < MaxFaults /\ faults' = faults + 1

\* The process ends: threads, clients and open requests go with it.
Stop ==
    /\ phase' = "down"
    /\ clients' = {} /\ node' = Off /\ watched' = {}
    /\ request' = [r \in Req |-> IF request[r] \in {"received", "admitted"} THEN "lost" ELSE request[r]]
    /\ UNCHANGED <<config, path>>

\* Every failure on the way is unwrapped or expected in the main thread.
StartFails ==
    /\ phase \in Steps
    /\ \/ phase \in Services \cup Daemons /\ Enabled(phase) /\ Misconfigured(phase)
          /\ UNCHANGED faults
       \/ phase \in Services \cup Daemons /\ Enabled(phase) /\ DependsOnOthers(phase) /\ Fault
       \/ phase \in {"seal_key", "store", "server"} /\ Fault
    /\ Stop

\* (Mutant: the Dogecoin client gets no watchdog.)
BuildUnwatched ==
    /\ phase \in Services \cup Daemons
    /\ Enabled(phase) => ~ Misconfigured(phase)
    /\ phase' = Follows[phase]
    /\ IF Enabled(phase)
       THEN /\ clients' = clients \cup {phase}
            /\ node' = [c \in Coins |-> IF c = phase THEN "running" ELSE node[c]]
            /\ watched' = watched \cup ({"btc"} \cap {phase})
       ELSE UNCHANGED <<clients, node, watched>>
    /\ UNCHANGED <<config, httpVars, faults>>

\* A client is built if its service is enabled.  A P2P client comes with two
\* threads: the client, and its watchdog.
Build ==
    /\ phase \in Services \cup Daemons
    /\ Enabled(phase) => ~ Misconfigured(phase)
    /\ phase' = Follows[phase]
    /\ IF Enabled(phase)
       THEN /\ clients' = clients \cup {phase}
            /\ node' = [c \in Coins |-> IF c = phase THEN "running" ELSE node[c]]
            /\ watched' = watched \cup (Coins \cap {phase})
       ELSE UNCHANGED <<clients, node, watched>>
    /\ UNCHANGED <<config, httpVars, faults>>

\* initialize_seal_key and Store::open.
Prepare ==
    /\ phase \in {"seal_key", "store"}
    /\ phase' = Follows[phase]
    /\ UNCHANGED <<config, clients, node, watched, httpVars, faults>>

\* start_server: without one of the two flags main returns.
StartServer ==
    /\ phase = "server"
    /\ IF config.electrs_support \/ config.btc_only_p2p
       THEN phase' = "serving" /\ UNCHANGED <<config, clients, node, watched, httpVars>>
       ELSE Stop
    /\ UNCHANGED faults

Restart ==
    /\ phase = "down"
    /\ phase' = "eth"
    /\ UNCHANGED <<config, clients, node, watched, httpVars, faults>>

-----------------------------------------------------------------------------
(* The P2P clients and their watchdogs.                                    *)

\* client.run(..).expect(..): the client's thread panics, the process goes on.
NodeFails(c) ==
    /\ node[c] = "running"
    /\ Fault
    /\ node' = [node EXCEPT ![c] = "dead"]
    /\ UNCHANGED <<config, phase, clients, watched, httpVars>>

\* (Mutant: the loop is left instead of the process.)
WatchOnce(c) ==
    /\ c \in watched
    /\ \/ node[c] = "dead" /\ UNCHANGED faults
       \/ node[c] = "running" /\ Fault
    /\ watched' = watched \ {c}
    /\ UNCHANGED <<config, phase, clients, node, httpVars>>

\* After 5 minutes, and then every 40 seconds, restart() calls get_tip: the first
\* error, of a dead client or of a slow one, is exit(0).  A tip changes nothing.
Watch(c) ==
    /\ c \in watched
    /\ \/ node[c] = "dead" /\ UNCHANGED faults
       \/ node[c] = "running" /\ Fault
    /\ Stop

-----------------------------------------------------------------------------
(* The HTTP server.                                                        *)

\* A path is its route and what stands for {txid} or {str}: a transaction id, another
\* name, or a name that begins like a route.  "none" is answered with 404.
Segments == {"txid", "name", "verify_tx", "verify_tx_doge"}
Paths ==
    [route : {"status", "btc", "doge", "eth", "eth2", "optimism", "sol", "none"}, arg : {"-"}]
    \cup [route : {"verify_tx", "verify_tx_doge", "ping", "none"}, arg : Segments]

\* The services of the paths that are compared as a whole.
ServiceOf == [btc |-> "btc", doge |-> "doge", eth |-> "eth", eth2 |-> "eth",
              optimism |-> "op", sol |-> "sol"]

\* (Mutant: verify_tx is looked for first, and verify_tx_doge contains it.)
IsServiceEnabledShort(p) ==
    IF {p.route, p.arg} \cap {"verify_tx", "verify_tx_doge"} # {} THEN "btc" \in config.service
    ELSE \/ p.route \in DOMAIN ServiceOf /\ ServiceOf[p.route] \in config.service
         \/ p.route = "status"

\* The first two tests are on a part of the path, whatever its route.
IsServiceEnabled(p) ==
    IF "verify_tx_doge" \in {p.route, p.arg} THEN "doge" \in config.service
    ELSE IF "verify_tx" \in {p.route, p.arg} THEN "btc" \in config.service
    ELSE \/ p.route \in DOMAIN ServiceOf /\ ServiceOf[p.route] \in config.service
         \/ p.route = "status"

\* The clients that the handler of a path unwraps.  A verification parses the id
\* first, and needs the P2P client only if the response cache has no header.
Unwraps(p) ==
    CASE p.route = "verify_tx" -> IF p.arg = "txid" THEN {"btc_daemon", "btc"} ELSE {}
      [] p.route = "verify_tx_doge" -> IF p.arg = "txid" THEN {"doge_daemon", "doge"} ELSE {}
      [] p.route = "ping" -> {"btc", "doge"}
      [] p.route = "status" -> config.service \ {"sol"}
      [] p.route \in DOMAIN ServiceOf -> {ServiceOf[p.route]}
      [] p.route = "none" -> {}

\* Those whose get_tip is unwrapped as well; elsewhere an error is an answer, and
\* /status reports a height of 0.
\* (Mutant: /status unwraps the tips, as /ping does.)
UnwrapsTipAlways(p) == Unwraps(p) \cap Coins
UnwrapsTip(p) == IF p.route = "ping" THEN {"btc", "doge"} ELSE {}

Arrive(r) ==
    /\ phase = "serving"
    /\ request[r] = "idle"
    /\ \E p \in Paths : path' = [path EXCEPT ![r] = p]
    /\ request' = [request EXCEPT ![r] = "received"]
    /\ UNCHANGED <<config, phase, clients, node, watched, faults>>

MiddleWare(r) ==
    /\ request[r] = "received"
    /\ request' = [request EXCEPT ![r] = IF IsServiceEnabled(path[r]) THEN "admitted" ELSE "refused"]
    /\ UNCHANGED <<config, phase, clients, node, watched, path, faults>>

Handle(r) ==
    /\ request[r] = "admitted"
    /\ request' = [request EXCEPT
           ![r] = IF /\ Unwraps(path[r]) \subseteq clients
                     /\ \A c \in UnwrapsTip(path[r]) : node[c] = "running"
                  THEN "answered" ELSE "panicked"]
    /\ UNCHANGED <<config, phase, clients, node, watched, path, faults>>

-----------------------------------------------------------------------------
Start == Build \/ Prepare \/ StartServer \/ StartFails

\* A process that serves waits for further requests.
Wait ==
    /\ phase = "serving"
    /\ \A r \in Req : request[r] \notin {"idle", "received", "admitted"}
    /\ UNCHANGED vars

Next ==
    \/ Start \/ Restart
    \/ \E c \in Coins : NodeFails(c) \/ Watch(c)
    \/ \E r \in Req : Arrive(r) \/ MiddleWare(r) \/ Handle(r)
    \/ Wait

Spec == Init /\ [][Next]_vars

\* Threads are scheduled, what main waits for comes or fails, and the container
\* is run with --restart=unless-stopped.
FairSpec == Spec /\ WF_vars(Start) /\ WF_vars(Restart) /\ \A c \in Coins : WF_vars(Watch(c))
-----------------------------------------------------------------------------
(* Properties.                                                             *)

States == {"idle", "received", "admitted", "refused", "answered", "panicked", "lost"}

\* Type invariant.  Every P2P client that has been built has its watchdog, dead
\* or alive, and requests are open only in a process that serves.
TypeOK ==
    /\ config \in Configs
    /\ phase \in Steps \cup {"serving", "down"}
    /\ clients \subseteq config.service \cup Daemons
    /\ node \in [Coins -> {"off", "running", "dead"}]
    /\ watched = {c \in Coins : node[c] # "off"}
    /\ watched = clients \cap Coins
    /\ path \in [Req -> Paths \cup {NoPath}] /\ request \in [Req -> States]
    /\ \A r \in Req : request[r] \in {"received", "admitted"} => phase = "serving"
    /\ faults \in 0 .. MaxFaults

\* A request that the middleware lets through never meets a client that is None,
\* or a tip that is an error, in an `unwrap`: for every choice of services, what
\* main builds, what the middleware admits and what the handlers unwrap agree,
\* also while P2P clients die (main.rs:49-64, server.rs:221-253, and the unwraps
\* of the handlers, such as server.rs:60 or chainstate.rs:72).  Excepted are pings
\* that pass for a verification (server.rs:230-233): they need both coins, and
\* fail if one of them is not enabled, or if a P2P client has failed before.
NoneUnwrapped ==
    \A r \in Req :
        request[r] = "panicked"
        => /\ path[r].route = "ping" /\ path[r].arg \in {"verify_tx", "verify_tx_doge"}
           /\ Coins \subseteq config.service => faults > 0

\* What the server is for: a status, a verification of a transaction, a call.
Routed == {p \in Paths : p.route \notin {"ping", "none"} /\ p.arg \in {"-", "txid"}}

\* And the converse: such a request is refused only if a client it needs has not
\* been built (server.rs:227-246 with main.rs:103-214).  A ping is refused whatever
\* has been built, unless it passes for a verification.
RefusedForCause ==
    \A r \in Req :
        request[r] = "refused"
        => /\ path[r] \in Routed /\ phase = "serving" => ~ (Unwraps(path[r]) \subseteq clients)
           /\ path[r].route # "status"

\* The configurations with which every step of main can succeed.
Sound ==
    /\ config.electrs_support \/ config.btc_only_p2p
    /\ \A s \in Services \cup Daemons : Enabled(s) => ~ Misconfigured(s)

\* The process heals: after the last failure of what it depends on, it comes to
\* serve for good with every enabled P2P client running, although only its end
\* can replace a client that has died (btc_p2p.rs:50-64, doge_p2p.rs:67-81).
Heals ==
    Sound => <>[](/\ phase = "serving"
                  /\ \A c \in Coins \cap config.service : node[c] = "running")
=============================================================================
