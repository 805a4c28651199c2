------------------------------ MODULE MCGateway ------------------------------
(* Instances of Gateway for TLC. *)
EXTENDS Gateway, TLC

Urls(n) == 1 .. n

\* All choices of services; flags and cookies as a sound configuration has them.
ServiceConfigs ==
    {[service |-> s, cookies |-> Coins, electrs_support |-> TRUE, btc_only_p2p |-> FALSE,
      single_sol_rpc |-> FALSE, sol_extra_rpcs |-> Urls(3)] : s \in SUBSET Services}

\* All choices of flags, cookies and Solana RPCs, with and without Solana.
FlagConfigs ==
    {[service |-> s, cookies |-> c, electrs_support |-> e, btc_only_p2p |-> b,
      single_sol_rpc |-> o, sol_extra_rpcs |-> Urls(n)] :
        s \in {Coins, Coins \cup {"sol"}}, c \in {{"btc"}, Coins}, e \in BOOLEAN, b \in BOOLEAN,
        o \in BOOLEAN, n \in {1, 3, 4}}

AllConfigs == ServiceConfigs \cup FlagConfigs
=============================================================================
