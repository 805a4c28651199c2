---------------------------- MODULE MCSimpleCache ----------------------------
(* Instances of SimpleCache for TLC. *)
EXTENDS SimpleCache, TLC

CONSTANTS k1, k2, k3

MCRank == k1 :> 1 @@ k2 :> 2 @@ k3 :> 3

Symmetry == Permutations(Op)
=============================================================================
