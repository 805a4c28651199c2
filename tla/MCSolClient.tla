----------------------------- MODULE MCSolClient -----------------------------
(* Instances of SolClient for TLC. *)
EXTENDS SolRefinement, TLC

CONSTANTS a, b

\* Lists of at most two items, with orders and one repetition.
MCLists == {<<>>, <<a>>, <<a, b>>, <<b, a>>, <<a, a>>}

MCBlobs == {a, b}

Symmetry == Permutations(Rpc) \cup Permutations(Req)
=============================================================================
