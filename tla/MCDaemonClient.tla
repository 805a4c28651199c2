---------------------------- MODULE MCDaemonClient ----------------------------
(* Instances of DaemonClient for TLC: a genesis block and two branches.    *)
EXTENDS DaemonClient, TLC

CONSTANTS g, a1, a2, a3, b1, b2

MCBlock == {g, a1, a2, a3, b1, b2}

MCChain == g :> <<g>> @@ a1 :> <<g, a1>> @@ a2 :> <<g, a1, a2>> @@ a3 :> <<g, a1, a2, a3>> @@ b1 :> <<g, b1>>
           @@ b2 :> <<g, b1, b2>>

Make(m, b, known) == [method |-> m, block |-> b, known |-> known]

AllCalls == {Make("get_all_headers", a3, {}),
             Make("get_all_headers", b1, {}),
             Make("getbestblockhash", None, {}),
             Make("getblockheader", a1, {}),
             Make("gettxoutproof", b1, {}),
             Make("get_new_headers", a2, {g, b1}),
             Make("get_new_headers", b1, {g, b1})}

Symmetry == Permutations(Client)
=============================================================================
