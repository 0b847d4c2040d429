-------------------------- MODULE MCOpenface3Jobs --------------------------
(* Small instances of Openface3Jobs. *)
EXTENDS Openface3Jobs, TLC

CONSTANTS j1, j2, j3, r1, r2, w1, w2

TwoJobs     == {j1, j2}
ThreeJobs   == {j1, j2, j3}
TwoRequests == {r1, r2}
TwoWorkers  == {w1, w2}

Symmetry == Permutations(ThreeJobs) \cup Permutations(TwoRequests) \cup Permutations(TwoWorkers)
=============================================================================
