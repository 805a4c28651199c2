---------------------------- MODULE MCHeaderSync ----------------------------
(* Instances of HeaderSync for TLC: a genesis block and two branches.      *)
EXTENDS HeaderSync, TLC

CONSTANTS g, a1, a2, a3, b1, b2

MCBlock == {g, a1, a2, a3, b1, b2}

MCChain == (g :> <<g>>) @@ (a1 :> <<g, a1>>) @@ (a2 :> <<g, a1, a2>>)
           @@ (a3 :> <<g, a1, a2, a3>>) @@ (b1 :> <<g, b1>>) @@ (b2 :> <<g, b1, b2>>)
=============================================================================
