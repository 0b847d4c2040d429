------------------------ MODULE MCCodeDecomposition ------------------------
(* A small instance of CodeDecomposition. *)
EXTENDS CodeDecomposition, TLC

CONSTANTS r1, r2

TwoRequests == {r1, r2}

Symmetry == Permutations(TwoRequests)
=============================================================================
