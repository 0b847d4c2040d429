---------------------------- MODULE JobLifecycle ----------------------------
(***************************************************************************)
(* What the tutor's background jobs promise, whatever table or list they   *)
(* live in: a job waits until one worker claims it, its holder settles it  *)
(* as done or failed, and only a settled job is put back.                  *)
(***************************************************************************)
EXTENDS TLAPS

CONSTANTS Jobs, Workers, None

VARIABLES state,   \* of each job
          holder   \* holder[w]: the job worker w works on

States  == {"absent", "waiting", "running", "done", "failed", "gone"}
Settled == {"done", "failed"}

TypeOK == /\ state \in [Jobs -> States]
          /\ holder \in [Workers -> Jobs \cup {None}]

Init == /\ state = [j \in Jobs |-> "absent"]
        /\ holder = [w \in Workers |-> None]
-----------------------------------------------------------------------------
Submit(j) == /\ state[j] = "absent"
             /\ state' = [state EXCEPT ![j] = "waiting"]
             /\ UNCHANGED holder

Claim(w, j) == /\ state[j] = "waiting"
               /\ holder[w] = None
               /\ state' = [state EXCEPT ![j] = "running"]
               /\ holder' = [holder EXCEPT ![w] = j]

Settle(w, outcome) == /\ holder[w] # None
                      /\ state[holder[w]] = "running"
                      /\ state' = [state EXCEPT ![holder[w]] = outcome]
                      /\ holder' = [holder EXCEPT ![w] = None]

(* Workers die, or cannot write the outcome: their jobs stay running.      *)
Abandon(W) == /\ holder' = [w \in Workers |-> IF w \in W THEN None ELSE holder[w]]
              /\ UNCHANGED state

PutBack(S) == /\ \A j \in S : state[j] \in Settled
              /\ state' = [j \in Jobs |-> IF j \in S THEN "waiting" ELSE state[j]]
              /\ UNCHANGED holder

(* A job that cannot be started has failed. *)
Reject(j) == /\ state[j] = "waiting"
             /\ state' = [state EXCEPT ![j] = "failed"]
             /\ UNCHANGED holder

(* Jobs are removed, whoever works on them; W are workers that notice.     *)
Remove(S, W) == /\ state' = [j \in Jobs |-> IF j \in S THEN "gone" ELSE state[j]]
                /\ holder' = [w \in Workers |-> IF w \in W THEN None ELSE holder[w]]

Next == \/ \E j \in Jobs : Submit(j)
        \/ \E w \in Workers, j \in Jobs : Claim(w, j)
        \/ \E w \in Workers, outcome \in Settled : Settle(w, outcome)
        \/ \E W \in SUBSET Workers : Abandon(W)
        \/ \E j \in Jobs : Reject(j)
        \/ \E S \in SUBSET Jobs : PutBack(S)
        \/ \E S \in SUBSET Jobs, W \in SUBSET Workers : Remove(S, W)

vars == <<state, holder>>

Spec == Init /\ [][Next]_vars
-----------------------------------------------------------------------------
(* No job is worked on twice at a time, and what a worker works on is      *)
(* running, unless it has been removed under its hands.                    *)
HeldOnce == \A v, w \in Workers :
              holder[v] # None => /\ holder[v] = holder[w] => v = w
                                  /\ state[holder[v]] \in {"running", "gone"}

LEMMA NextInv == TypeOK /\ HeldOnce /\ [Next]_vars => TypeOK' /\ HeldOnce'
  <1> SUFFICES ASSUME TypeOK, HeldOnce, [Next]_vars PROVE TypeOK' /\ HeldOnce'
    OBVIOUS
  <1> USE DEF TypeOK, HeldOnce, States, Settled
  <1>1. ASSUME NEW j \in Jobs, Submit(j) PROVE TypeOK' /\ HeldOnce'
    BY <1>1 DEF Submit
  <1>2. ASSUME NEW w \in Workers, NEW j \in Jobs, Claim(w, j) PROVE TypeOK' /\ HeldOnce'
    BY <1>2 DEF Claim
  <1>3. ASSUME NEW w \in Workers, NEW outcome \in Settled, Settle(w, outcome)
        PROVE  TypeOK' /\ HeldOnce'
    BY <1>3 DEF Settle
  <1>4. ASSUME NEW W \in SUBSET Workers, Abandon(W) PROVE TypeOK' /\ HeldOnce'
    BY <1>4 DEF Abandon
  <1>5. ASSUME NEW S \in SUBSET Jobs, PutBack(S) PROVE TypeOK' /\ HeldOnce'
    BY <1>5 DEF PutBack
  <1>6. ASSUME NEW S \in SUBSET Jobs, NEW W \in SUBSET Workers, Remove(S, W)
        PROVE  TypeOK' /\ HeldOnce'
    BY <1>6 DEF Remove
  <1>7. ASSUME NEW j \in Jobs, Reject(j) PROVE TypeOK' /\ HeldOnce'
    BY <1>7 DEF Reject
  <1>8. CASE UNCHANGED vars
    BY <1>8 DEF vars
  <1> QED BY <1>1, <1>2, <1>3, <1>4, <1>5, <1>6, <1>7, <1>8 DEF Next

(* However workers die and jobs are put back or removed, a job is in the   *)
(* hands of one worker at most, and nobody works on a job that waits.      *)
THEOREM HeldOnceAlways == Spec => []HeldOnce
  <1>1. Init => TypeOK /\ HeldOnce
    BY DEF Init, TypeOK, HeldOnce, States
  <1> QED BY <1>1, NextInv, PTL DEF Spec
Moves == {<<"absent", "waiting">>, <<"waiting", "running">>, <<"waiting", "failed">>,
          <<"running", "done">>, <<"running", "failed">>, <<"done", "waiting">>, <<"failed", "waiting">>}

TakenUp(j)  == \E w \in Workers : holder[w] = None /\ holder'[w] = j
LetGoBy(j)  == \E w \in Workers : holder[w] = j /\ holder'[w] = None

JobMoves(j) ==
  \/ state'[j] = state[j]
  \/ state'[j] = "gone"
  \/ /\ <<state[j], state'[j]>> \in Moves
     /\ state'[j] = "running" => TakenUp(j)
     /\ state[j] = "running" => LetGoBy(j)

(* A job that runs is never put back or taken over: it ends by the worker  *)
(* that claimed it, or is removed.  What is removed never comes back, and  *)
(* nothing is done that nobody claimed.                                    *)
OnlyHolderEnds == [][\A j \in Jobs : JobMoves(j)]_vars

LEMMA NextMoves ==
  ASSUME TypeOK, HeldOnce, [Next]_vars, NEW k \in Jobs
  PROVE  JobMoves(k)
  <1> USE DEF TypeOK, Settled, Moves
  <1>1. ASSUME NEW j \in Jobs, Submit(j) \/ Reject(j) PROVE JobMoves(k)
    BY <1>1 DEF Submit, Reject, JobMoves
  <1>2. ASSUME NEW w \in Workers, NEW j \in Jobs, Claim(w, j) PROVE JobMoves(k)
    <2>1. CASE j = k
      <3>1. TakenUp(k)
        BY <1>2, <2>1 DEF Claim, TakenUp
      <3> QED BY <1>2, <2>1, <3>1 DEF Claim, JobMoves
    <2>2. CASE j # k
      BY <1>2, <2>2 DEF Claim, JobMoves
    <2> QED BY <2>1, <2>2
  <1>3. ASSUME NEW w \in Workers, NEW outcome \in Settled, Settle(w, outcome) PROVE JobMoves(k)
    <2>1. CASE holder[w] = k
      <3>1. LetGoBy(k)
        BY <1>3, <2>1 DEF Settle, LetGoBy
      <3> QED BY <1>3, <2>1, <3>1 DEF Settle, JobMoves
    <2>2. CASE holder[w] # k
      BY <1>3, <2>2 DEF Settle, JobMoves
    <2> QED BY <2>1, <2>2
  <1>4. ASSUME NEW W \in SUBSET Workers, Abandon(W) PROVE JobMoves(k)
    BY <1>4 DEF Abandon, JobMoves
  <1>5. ASSUME NEW S \in SUBSET Jobs, PutBack(S) PROVE JobMoves(k)
    BY <1>5 DEF PutBack, JobMoves
  <1>6. ASSUME NEW S \in SUBSET Jobs, NEW W \in SUBSET Workers, Remove(S, W) PROVE JobMoves(k)
    BY <1>6 DEF Remove, JobMoves
  <1>7. CASE UNCHANGED vars
    BY <1>7 DEF vars, JobMoves
  <1> QED BY <1>1, <1>2, <1>3, <1>4, <1>5, <1>6, <1>7 DEF Next

(* Jobs are put back only when they have ended, and end by their holder.   *)
THEOREM OnlyHolderEndsAlways == Spec => OnlyHolderEnds
  <1>1. Init => TypeOK /\ HeldOnce
    BY DEF Init, TypeOK, HeldOnce, States
  <1>2. TypeOK /\ HeldOnce /\ [Next]_vars => [\A j \in Jobs : JobMoves(j)]_vars
    BY NextMoves
  <1>3. (TypeOK /\ HeldOnce) /\ [Next]_vars => (TypeOK /\ HeldOnce)'
    BY NextInv
  <1> QED BY <1>1, <1>2, <1>3, PTL DEF Spec, OnlyHolderEnds
=============================================================================
