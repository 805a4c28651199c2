---------------------------- MODULE GatewayProofs ----------------------------
(***************************************************************************)
(* Proofs about Gateway: the clients of a serving process are those of the *)
(* enabled services, and therefore what the middleware admits never meets  *)
(* a client that is None, but for two pings, and what it refuses would.    *)
(***************************************************************************)
EXTENDS Gateway, TLAPS

-----------------------------------------------------------------------------
(* The inductive invariant.                                                *)

\* The place of a step in main; a process that serves has them all behind it.
Rank == [eth |-> 1, op |-> 2, seal_key |-> 3, btc |-> 4, doge |-> 5, btc_daemon |-> 6,
         doge_daemon |-> 7, sol |-> 8, store |-> 9, server |-> 10, serving |-> 11, down |-> 0]

\* The clients built so far are those enabled ones whose step is behind.
Built == clients = {s \in Services \cup Daemons : Enabled(s) /\ Rank[s] < Rank[phase]}

\* What the middleware has decided about a request can still be read off it.
Decided ==
    \A r \in Req :
        /\ request[r] = "admitted" => IsServiceEnabled(path[r])
        /\ request[r] = "refused" => ~ IsServiceEnabled(path[r])
        /\ request[r] # "idle" => path[r] \in Paths

\* A P2P client dies of a failure.
Deaths == \A c \in Coins : node[c] = "dead" => faults > 0

IInv == TypeOK /\ Built /\ Deaths /\ Decided /\ NoneUnwrapped

-----------------------------------------------------------------------------
(* The routes.                                                             *)

\* Where every enabled client has been built: what `clients` holds.
LEMMA AllBuilt ==
    ASSUME TypeOK, Built, phase = "serving"
    PROVE  /\ config.service \subseteq Services
           /\ \A s \in Services : s \in clients <=> s \in config.service
           /\ "btc_daemon" \in clients <=> "btc" \in config.service
           /\ "doge_daemon" \in clients <=> "doge" \in config.service
<1>1. config.service \subseteq Services
  BY ConfigAssumption DEF TypeOK
<1>2. clients = {s \in Services \cup Daemons : Enabled(s)}
  BY DEF Built, Rank, Services, Coins, Daemons
<1>3. \A s \in Services : s \in clients <=> s \in config.service
  BY <1>2 DEF Enabled, Services, Coins
<1>4. /\ "btc_daemon" \in clients <=> "btc" \in config.service
      /\ "doge_daemon" \in clients <=> "doge" \in config.service
  BY <1>2 DEF Enabled, Services, Coins, Daemons
<1>5. QED  BY <1>1, <1>3, <1>4

\* What a path is made of.
LEMMA PathShape ==
    ASSUME NEW p \in Paths
    PROVE  /\ p.route \in DOMAIN ServiceOf \cup {"status", "verify_tx", "verify_tx_doge", "ping", "none"}
           /\ p.arg \in Segments \cup {"-"}
           /\ p.route \in DOMAIN ServiceOf \cup {"status"} => p.arg = "-"
           /\ p.route \in {"verify_tx", "verify_tx_doge", "ping"} => p.arg \in Segments
  BY DEF Paths, Segments, ServiceOf

\* An admitted request of any route but ping finds all the clients it unwraps, and
\* unwraps no tip.
LEMMA AdmittedFinds ==
    ASSUME TypeOK, Built, phase = "serving",
           NEW p \in Paths, IsServiceEnabled(p), p.route # "ping"
    PROVE  Unwraps(p) \subseteq clients /\ UnwrapsTip(p) = {}
<1> DEFINE Known ==
        /\ config.service \subseteq Services
        /\ \A s \in Services : s \in clients <=> s \in config.service
        /\ "btc_daemon" \in clients <=> "btc" \in config.service
        /\ "doge_daemon" \in clients <=> "doge" \in config.service
<1>1. Known
  BY AllBuilt
<1>2. UnwrapsTip(p) = {}
  BY DEF UnwrapsTip
<1>3. CASE p.route \in DOMAIN ServiceOf
  <2>1. p.arg = "-"
    BY <1>3, PathShape
  <2>2. ServiceOf[p.route] \in config.service
    BY <1>3, <2>1 DEF IsServiceEnabled, ServiceOf
  <2>3. Unwraps(p) = {ServiceOf[p.route]}
    BY <1>3 DEF Unwraps, ServiceOf
  <2>4. QED  BY <1>1, <1>2, <2>2, <2>3
<1>4. CASE p.route = "status"
  <2>1. Unwraps(p) \subseteq config.service
    BY <1>4 DEF Unwraps, ServiceOf
  <2>2. QED  BY <1>1, <1>2, <2>1
<1>5. CASE p.route = "verify_tx"
  <2>1. p.arg = "txid" => "btc" \in config.service
    BY <1>5 DEF IsServiceEnabled
  <2>2. Unwraps(p) = IF p.arg = "txid" THEN {"btc_daemon", "btc"} ELSE {}
    BY <1>5 DEF Unwraps, ServiceOf
  <2>3. QED  BY <1>1, <1>2, <2>1, <2>2 DEF Services, Coins
<1>6. CASE p.route = "verify_tx_doge"
  <2>1. "doge" \in config.service
    BY <1>6 DEF IsServiceEnabled
  <2>2. Unwraps(p) \subseteq {"doge_daemon", "doge"}
    BY <1>6 DEF Unwraps, ServiceOf
  <2>3. QED  BY <1>1, <1>2, <2>1, <2>2 DEF Services, Coins
<1>7. CASE p.route = "none"
  BY <1>2, <1>7 DEF Unwraps, ServiceOf
<1>8. QED  BY <1>3, <1>4, <1>5, <1>6, <1>7, PathShape

\* An admitted ping has the name of a verification.
LEMMA AdmittedPing ==
    ASSUME NEW p \in Paths, IsServiceEnabled(p), p.route = "ping"
    PROVE  p.arg \in {"verify_tx", "verify_tx_doge"}
  BY DEF IsServiceEnabled, ServiceOf

\* With both coins enabled and no failure so far, a ping finds their clients alive.
LEMMA PingFinds ==
    ASSUME TypeOK, Built, Deaths, phase = "serving",
           NEW p \in Paths, p.route = "ping", Coins \subseteq config.service, faults = 0
    PROVE  /\ Unwraps(p) \subseteq clients
           /\ \A c \in UnwrapsTip(p) : node[c] = "running"
<1>1. Unwraps(p) = Coins /\ UnwrapsTip(p) = Coins
  BY DEF Unwraps, UnwrapsTip, ServiceOf, Coins
<1>2. Coins \subseteq clients
  BY AllBuilt DEF Services
<1>3. \A c \in Coins : node[c] = "running"
  BY <1>2 DEF TypeOK, Deaths
<1>4. QED  BY <1>1, <1>2, <1>3

\* A request for what the server is for that is not admitted would unwrap a client
\* that has not been built.
LEMMA RefusedMisses ==
    ASSUME TypeOK, Built, phase = "serving", NEW p \in Routed, ~ IsServiceEnabled(p)
    PROVE  ~ (Unwraps(p) \subseteq clients)
<1>1. p \in Paths /\ p.route \notin {"ping", "none"} /\ p.arg \in {"-", "txid"}
  BY DEF Routed
<1>2. /\ \A s \in Services : s \in clients <=> s \in config.service
      /\ "btc_daemon" \in clients <=> "btc" \in config.service
      /\ "doge_daemon" \in clients <=> "doge" \in config.service
  BY AllBuilt
<1>3. CASE p.route \in DOMAIN ServiceOf
  <2>1. p.arg = "-"
    BY <1>1, <1>3, PathShape
  <2>2. ServiceOf[p.route] \notin config.service
    BY <1>3, <2>1 DEF IsServiceEnabled, ServiceOf
  <2>3. Unwraps(p) = {ServiceOf[p.route]} /\ ServiceOf[p.route] \in Services
    BY <1>3 DEF Unwraps, ServiceOf, Services, Coins
  <2>4. QED  BY <1>2, <2>2, <2>3
<1>4. CASE p.route = "status"
  BY <1>1, <1>4, PathShape DEF IsServiceEnabled
<1>5. CASE p.route = "verify_tx"
  <2>1. p.arg = "txid"
    BY <1>1, <1>5, PathShape DEF Segments
  <2>2. "btc" \notin config.service
    BY <1>5, <2>1 DEF IsServiceEnabled
  <2>3. "btc" \in Unwraps(p)
    BY <1>5, <2>1 DEF Unwraps, ServiceOf
  <2>4. QED  BY <1>2, <2>2, <2>3 DEF Services, Coins
<1>6. CASE p.route = "verify_tx_doge"
  <2>1. p.arg = "txid"
    BY <1>1, <1>6, PathShape DEF Segments
  <2>2. "doge" \notin config.service
    BY <1>6 DEF IsServiceEnabled
  <2>3. "doge" \in Unwraps(p)
    BY <1>6, <2>1 DEF Unwraps, ServiceOf
  <2>4. QED  BY <1>2, <2>2, <2>3 DEF Services, Coins
<1>7. QED  BY <1>1, <1>3, <1>4, <1>5, <1>6, PathShape

-----------------------------------------------------------------------------
(* The initial states, and the steps.                                      *)

LEMMA InvInit == Init => IInv
<1> SUFFICES ASSUME Init PROVE IInv  OBVIOUS
<1>1. TypeOK
  BY ConfigAssumption, FaultAssumption
  DEF Init, TypeOK, Steps, Follows, Off, Coins, Services, States, NoPath
<1>2. Built
  BY DEF Init, Built, Rank, Services, Coins, Daemons
<1>3. Deaths /\ Decided /\ NoneUnwrapped
  BY DEF Init, Deaths, Off, Decided, NoneUnwrapped
<1>4. QED  BY <1>1, <1>2, <1>3 DEF IInv

\* Whatever ends the process closes the open requests, and leaves the invariant.
LEMMA StopKeeps ==
    ASSUME IInv, Stop, faults' \in 0 .. MaxFaults, faults' >= faults
    PROVE  IInv'
<1>1. \A r \in Req : /\ request'[r] \notin {"received", "admitted"}
                     /\ request'[r] # "lost" => request'[r] = request[r]
  BY DEF Stop
<1>2. TypeOK'
  <2>1. request' \in [Req -> States] /\ path' \in [Req -> Paths \cup {NoPath}]
    BY DEF IInv, TypeOK, Stop, States
  <2>2. /\ node' \in [Coins -> {"off", "running", "dead"}]
        /\ watched' = {c \in Coins : node'[c] # "off"}
        /\ watched' = clients' \cap Coins
        /\ clients' \subseteq config'.service \cup Daemons
    BY DEF Stop, Off
  <2>3. config' \in Configs /\ phase' \in Steps \cup {"serving", "down"}
    BY DEF IInv, TypeOK, Stop
  <2>4. QED  BY <1>1, <2>1, <2>2, <2>3 DEF TypeOK
<1>3. Built'
  <2>1. Rank["down"] = 0 /\ \A s \in Services \cup Daemons : ~ (Rank[s] < 0)
    BY DEF Rank, Services, Coins, Daemons
  <2>2. QED  BY <2>1 DEF Built, Stop
<1>4. Deaths' /\ Decided'
  BY <1>1 DEF IInv, Stop, Off, Deaths, Decided, IsServiceEnabled
<1>5. NoneUnwrapped'
  <2>1. faults > 0 => faults' > 0
    BY DEF IInv, TypeOK
  <2>2. QED  BY <1>1, <2>1 DEF IInv, Stop, NoneUnwrapped
<1>6. QED  BY <1>2, <1>3, <1>4, <1>5 DEF IInv

\* A step of main that goes on moves to the next rank.
LEMMA NextRank ==
    ASSUME NEW s \in DOMAIN Follows
    PROVE  /\ Follows[s] \in Steps
           /\ \A t \in Services \cup Daemons : Rank[t] < Rank[Follows[s]] <=> Rank[t] < Rank[s] \/ t = s
  BY DEF Follows, Steps, Rank, Services, Coins, Daemons

LEMMA BuildKeeps ==
    ASSUME IInv, Build
    PROVE  IInv'
<1>1. phase \in DOMAIN Follows /\ phase' = Follows[phase] /\ config' = config
  BY DEF Build, Services, Coins, Daemons, Follows
<1>2. Built'
  <2>1. clients' = clients \cup {s \in Services \cup Daemons : s = phase /\ Enabled(s)}
    BY DEF Build
  <2>2. \A s : Enabled(s)' <=> Enabled(s)
    BY <1>1 DEF Enabled
  <2>3. clients' = {s \in Services \cup Daemons : Enabled(s) /\ Rank[s] < Rank[phase']}
    BY <1>1, <2>1, NextRank DEF IInv, Built
  <2>4. QED  BY <2>2, <2>3 DEF Built
<1>3. TypeOK'
  <2>1. phase' \in Steps \cup {"serving", "down"}
    BY <1>1, NextRank
  <2>2. clients' \subseteq config'.service \cup Daemons
    <3>1. phase \in Services /\ Enabled(phase) => phase \in config.service
      BY DEF Enabled, Services, Coins
    <3>2. clients' \subseteq clients \cup {s \in Services \cup Daemons : s = phase /\ Enabled(phase)}
      BY DEF Build
    <3>3. QED  BY <1>1, <3>1, <3>2 DEF IInv, TypeOK
  <2>3. node' \in [Coins -> {"off", "running", "dead"}]
    BY DEF IInv, TypeOK, Build
  <2>4. /\ watched' = {c \in Coins : node'[c] # "off"}
        /\ watched' = clients' \cap Coins
    BY DEF IInv, TypeOK, Build
  <2>5. \A r \in Req : request[r] \notin {"received", "admitted"}
    BY DEF IInv, TypeOK, Build, Services, Coins, Daemons
  <2>6. QED  BY <1>1, <2>1, <2>2, <2>3, <2>4, <2>5 DEF IInv, TypeOK, Build, httpVars
<1>4. Deaths' /\ Decided' /\ NoneUnwrapped'
  BY DEF IInv, TypeOK, Build, httpVars, Deaths, Decided, NoneUnwrapped, IsServiceEnabled
<1>5. QED  BY <1>2, <1>3, <1>4 DEF IInv

\* The steps that only move on.
MovesOn ==
    \/ Prepare
    \/ Restart
    \/ /\ StartServer
       /\ phase' = "serving"
       /\ UNCHANGED <<config, clients, node, watched, httpVars>>

LEMMA MovesOnKeeps ==
    ASSUME IInv, MovesOn
    PROVE  IInv'
<1>1. /\ phase \notin {"serving"} /\ phase' \in Steps \cup {"serving", "down"}
      /\ UNCHANGED <<config, clients, node, watched, httpVars, faults>>
  BY DEF MovesOn, Prepare, StartServer, Restart, Follows, Steps
<1>2. \A r \in Req : request[r] \notin {"received", "admitted"}
  BY <1>1 DEF IInv, TypeOK
<1>3. TypeOK'
  BY <1>1, <1>2 DEF IInv, TypeOK, httpVars
<1>4. Built'
  <2>1. \A s \in Services \cup Daemons : Rank[s] < Rank[phase'] <=> Rank[s] < Rank[phase]
    BY DEF MovesOn, Prepare, StartServer, Restart, Follows, Rank, Services, Coins, Daemons
  <2>2. \A s : Enabled(s)' <=> Enabled(s)
    BY <1>1 DEF Enabled
  <2>3. QED  BY <1>1, <2>1, <2>2 DEF IInv, Built
<1>5. Deaths' /\ Decided' /\ NoneUnwrapped'
  BY <1>1 DEF IInv, httpVars, Deaths, Decided, NoneUnwrapped, IsServiceEnabled
<1>6. QED  BY <1>3, <1>4, <1>5 DEF IInv

LEMMA NodeFailsKeeps ==
    ASSUME IInv, NEW c \in Coins, NodeFails(c)
    PROVE  IInv'
<1>1. /\ UNCHANGED <<config, phase, clients, watched, httpVars>>
      /\ faults' \in 0 .. MaxFaults /\ faults' > 0
  BY FaultAssumption DEF IInv, TypeOK, NodeFails, Fault
<1>2. /\ node' \in [Coins -> {"off", "running", "dead"}]
      /\ {d \in Coins : node'[d] # "off"} = {d \in Coins : node[d] # "off"}
  BY DEF IInv, TypeOK, NodeFails
<1>3. TypeOK'
  BY <1>1, <1>2 DEF IInv, TypeOK, httpVars
<1>4. Built' /\ Deaths' /\ Decided' /\ NoneUnwrapped'
  BY <1>1 DEF IInv, Built, Deaths, Decided, NoneUnwrapped, Enabled, IsServiceEnabled, httpVars
<1>5. QED  BY <1>3, <1>4 DEF IInv

LEMMA RequestKeeps ==
    ASSUME IInv, NEW r \in Req, Arrive(r) \/ MiddleWare(r) \/ Handle(r)
    PROVE  IInv'
<1>1. UNCHANGED <<config, phase, clients, node, watched, faults>>
  BY DEF Arrive, MiddleWare, Handle
<1>2. phase = "serving"
  BY DEF IInv, TypeOK, Arrive, MiddleWare, Handle
<1>3. TypeOK'
  <2>1. request' \in [Req -> States]
    BY DEF IInv, TypeOK, States, Arrive, MiddleWare, Handle
  <2>2. path' \in [Req -> Paths \cup {NoPath}]
    BY DEF IInv, TypeOK, Arrive, MiddleWare, Handle
  <2>3. QED  BY <1>1, <1>2, <2>1, <2>2 DEF IInv, TypeOK
<1>4. Built' /\ Deaths'
  BY <1>1 DEF IInv, Built, Deaths, Enabled
<1>5. Decided'
  <2>1. \A p : IsServiceEnabled(p)' <=> IsServiceEnabled(p)
    BY <1>1 DEF IsServiceEnabled
  <2>2. request \in [Req -> States] /\ path \in [Req -> Paths \cup {NoPath}]
    BY DEF IInv, TypeOK
  <2>3. CASE Arrive(r)
    BY <2>1, <2>2, <2>3 DEF IInv, Decided, Arrive
  <2>4. CASE MiddleWare(r)
    BY <2>1, <2>2, <2>4 DEF IInv, Decided, MiddleWare
  <2>5. CASE Handle(r)
    BY <2>1, <2>2, <2>5 DEF IInv, Decided, Handle
  <2>6. QED  BY <2>3, <2>4, <2>5
<1>6. NoneUnwrapped'
  <2>2. request \in [Req -> States] /\ path \in [Req -> Paths \cup {NoPath}]
    BY DEF IInv, TypeOK
  <2>3. CASE Arrive(r)
    BY <2>2, <2>3 DEF IInv, NoneUnwrapped, Arrive
  <2>4. CASE MiddleWare(r)
    BY <2>2, <2>4 DEF IInv, NoneUnwrapped, MiddleWare
  <2>5. CASE Handle(r)
    <3>1. request[r] = "admitted" /\ IsServiceEnabled(path[r]) /\ path[r] \in Paths
      BY <2>5 DEF IInv, Decided, Handle
    <3>2. path[r].route # "ping" => request'[r] = "answered"
      <4>1. path[r].route # "ping" => Unwraps(path[r]) \subseteq clients /\ UnwrapsTip(path[r]) = {}
        BY <1>2, <3>1, AdmittedFinds DEF IInv
      <4>2. QED  BY <2>2, <2>5, <4>1 DEF Handle
    <3>3. path[r].route = "ping" => path[r].arg \in {"verify_tx", "verify_tx_doge"}
      BY <3>1, AdmittedPing
    <3>4. path[r].route = "ping" /\ Coins \subseteq config.service /\ faults = 0 => request'[r] = "answered"
      <4>1. path[r].route = "ping" /\ Coins \subseteq config.service /\ faults = 0
            => /\ Unwraps(path[r]) \subseteq clients
               /\ \A c \in UnwrapsTip(path[r]) : node[c] = "running"
        BY <1>2, <3>1, PingFinds DEF IInv
      <4>2. QED  BY <2>2, <2>5, <4>1 DEF Handle
    <3>5. path' = path /\ \A q \in Req \ {r} : request'[q] = request[q]
      BY <2>2, <2>5 DEF Handle
    <3>6. faults = 0 \/ faults > 0
      BY DEF IInv, TypeOK
    <3>7. QED  BY <1>1, <3>2, <3>3, <3>4, <3>5, <3>6 DEF IInv, NoneUnwrapped
  <2>6. QED  BY <2>3, <2>4, <2>5
<1>7. QED  BY <1>3, <1>4, <1>5, <1>6 DEF IInv

LEMMA InvStep == IInv /\ [Next]_vars => IInv'
<1> SUFFICES ASSUME IInv, [Next]_vars PROVE IInv'  OBVIOUS
<1>1. ASSUME Stop, UNCHANGED faults \/ Fault PROVE IInv'
  BY <1>1, StopKeeps, FaultAssumption DEF IInv, TypeOK, Fault
<1>2. CASE Build
  BY <1>2, BuildKeeps
<1>3. CASE Prepare
  BY <1>3, MovesOnKeeps DEF MovesOn
<1>4. CASE StartServer
  BY <1>1, <1>4, MovesOnKeeps DEF MovesOn, StartServer
<1>5. CASE StartFails
  BY <1>1, <1>5 DEF StartFails
<1>6. CASE Restart
  BY <1>6, MovesOnKeeps DEF MovesOn
<1>7. CASE \E c \in Coins : NodeFails(c)
  BY <1>7, NodeFailsKeeps
<1>8. CASE \E c \in Coins : Watch(c)
  BY <1>1, <1>8 DEF Watch
<1>9. CASE \E r \in Req : Arrive(r) \/ MiddleWare(r) \/ Handle(r)
  BY <1>9, RequestKeeps
<1>10. CASE UNCHANGED vars
  BY <1>10 DEF IInv, TypeOK, Built, Deaths, Decided, NoneUnwrapped, Enabled, IsServiceEnabled, vars, httpVars
<1>11. QED
  BY <1>2, <1>3, <1>4, <1>5, <1>6, <1>7, <1>8, <1>9, <1>10 DEF Next, Start, Wait

LEMMA Invariance == Spec => []IInv
  BY InvInit, InvStep, PTL DEF Spec

-----------------------------------------------------------------------------
(* What follows.                                                           *)

\* Types; a P2P client has been built exactly if its watchdog runs; and only a
\* process that serves has requests open.
THEOREM TypeCorrect == Spec => []TypeOK
<1>1. IInv => TypeOK
  BY DEF IInv
<1>2. QED  BY <1>1, Invariance, PTL

\* For every set of configurations, any paths and any number of requests: what the
\* middleware lets through meets no client that is None and no failed tip in an
\* `unwrap`, but for the pings that pass for a verification; and with both coins
\* enabled these too panic only after something has failed.
THEOREM NeverUnwrapsNone == Spec => []NoneUnwrapped
<1>1. IInv => NoneUnwrapped
  BY DEF IInv
<1>2. QED  BY <1>1, Invariance, PTL

\* And it refuses a request that the server is for only where a client that the
\* request needs is missing, and never /status.
THEOREM RefusesForCause == Spec => []RefusedForCause
<1>1. IInv => RefusedForCause
  <2>1. \A p : p.route = "status" /\ p \in Paths => IsServiceEnabled(p)
    BY PathShape DEF IsServiceEnabled
  <2>2. QED  BY <2>1, RefusedMisses DEF IInv, Decided, RefusedForCause, Routed
<1>2. QED  BY <1>1, Invariance, PTL
=============================================================================
