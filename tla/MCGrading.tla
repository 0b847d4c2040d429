----------------------------- MODULE MCGrading -----------------------------
(* Model values of the grading pipeline and the symmetry of its requests,  *)
(* workers and poller executions.                                          *)
EXTENDS Grading, TLC
CONSTANTS a1, r1, r2, r3, w1, w2, t1, t2

OneAttempt == {a1}
TwoRequests == {r1, r2}
ThreeRequests == {r1, r2, r3}
OneWorker == {w1}
TwoWorkers == {w1, w2}
OneTick == {t1}
TwoTicks == {t1, t2}

Symmetry == Permutations({r1, r2, r3}) \cup Permutations({w1, w2}) \cup Permutations({t1, t2})
=============================================================================
