------------------------- MODULE MCLearningSessions -------------------------
(* Two requests to one session. *)
EXTENDS LearningSessions, TLC

CONSTANTS r1, r2

TwoRequests == {r1, r2}

Symmetry == Permutations(TwoRequests)
=============================================================================
