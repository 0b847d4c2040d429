-------------------------- MODULE MCPreGeneration --------------------------
(* Small instances of PreGeneration: a page with text and, in some, a      *)
(* blank one; two configurations and mode 'none'.                          *)
EXTENDS PreGeneration, TLC

CONSTANTS t1, t2, q1, q2

TwoTicks    == {t1, t2}
OneQueuer   == {q1}
TwoQueuers  == {q1, q2}
TwoKeys     == {1, 2}
SecondBlank == {2}
AllConfigs  == SUBSET TwoKeys

Symmetry == Permutations(TwoTicks) \cup Permutations(TwoQueuers)
=============================================================================
