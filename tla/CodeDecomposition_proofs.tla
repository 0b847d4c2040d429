---------------------- MODULE CodeDecomposition_proofs ----------------------
(***************************************************************************)
(* Whatever requests overlap, a session is one that some request could     *)
(* have left behind: the invariant speaks of the stored session and of     *)
(* every session a request remembers alike, and each handler takes a sound *)
(* session to a sound one.                                                 *)
(***************************************************************************)
EXTENDS CodeDecomposition, FiniteSetTheorems, TLAPS

Stages == {"formation", "implementation"}

(* What F says of the failed checks and P of the settled texts justifies   *)
(* step n of stage g.                                                      *)
SoundStep(n, g, F, P) ==
  /\ n.status \in StatusesOf(g)
  /\ n.attempts <= F[n.id][g] \/ F[n.id][g] >= RevealThreshold
  /\ n.revealed => F[n.id][g] >= RevealThreshold
  /\ (g = "implementation" \/ n.status \in Passing) => <<n.id, n.text>> \in P

Closed(t) == \A k \in Steps(t) : t[k].parent \in IdsOf(t) \cup {None}

(* d is the number of steps made so far. *)
Sound(s, F, P, d) ==
  /\ s \in Session
  /\ Closed(s.nodes)
  /\ Steps(s.nodes) \subseteq 1..d
  /\ \A i \in Steps(s.nodes) : SoundStep(s.nodes[i], s.stage, F, P)

Types == /\ status \in {"IN_PROGRESS", "COMPLETED"}
         /\ snap \in [Requests -> Session \cup {None}]
         /\ drawn \in 0..MaxIds
         /\ settled \in SUBSET (Ids \X Nat)
         /\ failed \in [Ids -> [Stages -> 0..RevealThreshold]]
         /\ edits \in Nat
         /\ typed \in Nat
         /\ overlap \in BOOLEAN
         /\ loads \in Nat

IInv == /\ Types
        /\ Sound(session, failed, settled, drawn)
        /\ \A r \in Requests : snap[r] # None => Sound(snap[r], failed, settled, drawn)
-----------------------------------------------------------------------------
(* Numbers and stages the solvers ask for. *)
LEMMA Bounds ==
  /\ RevealThreshold \in Nat \ {0} /\ MaxIds \in Nat
  /\ "formation" \in Stages /\ "implementation" \in Stages
  /\ Types => \A i \in Ids : \A g \in Stages : /\ failed[i][g] \in Nat
                                              /\ failed[i][g] <= RevealThreshold
<1>1. RevealThreshold \in Nat \ {0} /\ MaxIds \in Nat
  BY DecompositionAssumption
<1>2. ASSUME Types, NEW i \in Ids, NEW g \in Stages
      PROVE  failed[i][g] \in Nat /\ failed[i][g] <= RevealThreshold
  <2>1. failed[i] \in [Stages -> 0..RevealThreshold]
    BY <1>2 DEF Types
  <2>2. failed[i][g] \in 0..RevealThreshold
    BY <2>1
  <2>. QED BY <1>1, <2>2
<1>. QED BY <1>1, <1>2 DEF Stages

(* A step is not the absence of one, and has the fields of a step.         *)
LEMMA StepsTyped ==
  ASSUME NEW t \in [Ids -> StepNode \cup {NoStep}]
  PROVE  /\ Steps(t) \subseteq Ids
         /\ \A k \in Ids : k \notin Steps(t) => t[k] = NoStep
         /\ \A k \in Steps(t) : /\ t[k] \in StepNode /\ t[k].id \in Ids /\ t[k].id \in IdsOf(t)
                                /\ t[k].parent \in Ids \cup {None}
                                /\ t[k].text \in Nat /\ t[k].attempts \in Nat
         /\ IdsOf(t) \subseteq Ids
<1>1. NoStep.status = "absent"
  BY DEF NoStep
<1>2. \A n \in StepNode : /\ n.status # "absent" /\ n.id \in Ids /\ n.parent \in Ids \cup {None}
                          /\ n.text \in Nat /\ n.attempts \in Nat
  BY DEF StepNode, FormationStatuses, ImplementationStatuses
<1>. QED BY <1>1, <1>2 DEF Steps, IdsOf

(* Texts that are settled and checks that are failed stay so.              *)
LEMMA SoundStays ==
  ASSUME NEW s, NEW F \in [Ids -> [Stages -> Nat]], NEW G \in [Ids -> [Stages -> Nat]],
         NEW P, NEW Q, NEW d \in Nat, NEW e \in Nat, Sound(s, F, P, d), P \subseteq Q, d <= e,
         \A i \in Ids : \A g \in Stages : F[i][g] <= G[i][g]
  PROVE  Sound(s, G, Q, e)
<1>1. RevealThreshold \in Nat
  BY DecompositionAssumption
<1>2. ASSUME NEW k \in Steps(s.nodes) PROVE SoundStep(s.nodes[k], s.stage, G, Q)
  <2>1. SoundStep(s.nodes[k], s.stage, F, P) /\ s.stage \in Stages /\ s.nodes \in [Ids -> StepNode \cup {NoStep}]
    BY <1>2 DEF Sound, Session, Stages
  <2> DEFINE i == s.nodes[k].id
  <2>2. i \in Ids /\ s.nodes[k].attempts \in Nat
    BY <1>2, <2>1, StepsTyped
  <2>3. F[i][s.stage] <= G[i][s.stage] /\ F[i][s.stage] \in Nat /\ G[i][s.stage] \in Nat
    BY <2>1, <2>2
  <2>. QED BY <1>1, <2>1, <2>2, <2>3 DEF SoundStep
<1>3. 1..d \subseteq 1..e
  OBVIOUS
<1>. QED BY <1>2, <1>3 DEF Sound

LEMMA FailCounts ==
  ASSUME NEW g \in Stages, NEW S, Types, Fail(g, S)
  PROVE  /\ failed' \in [Ids -> [Stages -> 0..RevealThreshold]]
         /\ \A i \in Ids : \A h \in Stages : failed[i][h] <= failed'[i][h]
         /\ \A i \in S \cap Ids : failed'[i][g] = failed[i][g] + 1 \/ failed'[i][g] >= RevealThreshold
<1>1. RevealThreshold \in Nat
  BY DecompositionAssumption
<1>2. failed \in [Ids -> [Stages -> 0..RevealThreshold]]
  BY DEF Types
<1>3. ASSUME NEW i \in Ids
      PROVE  /\ failed'[i] \in [Stages -> 0..RevealThreshold]
             /\ \A h \in Stages : failed[i][h] <= failed'[i][h]
             /\ i \in S => failed'[i][g] = failed[i][g] + 1 \/ failed'[i][g] >= RevealThreshold
  <2>1. failed[i] \in [Stages -> 0..RevealThreshold]
    BY <1>2
  <2>2. CASE i \in S /\ failed[i][g] < RevealThreshold
    <3>1. failed'[i] = [failed[i] EXCEPT ![g] = @ + 1]
      BY <2>2 DEF Fail
    <3>. QED BY <1>1, <2>1, <2>2, <3>1
  <2>3. CASE ~(i \in S /\ failed[i][g] < RevealThreshold)
    <3>1. failed'[i] = failed[i]
      BY <2>3 DEF Fail
    <3>. QED BY <1>1, <2>1, <2>3, <3>1
  <2>. QED BY <2>2, <2>3
<1>4. failed' \in [Ids -> [Stages -> 0..RevealThreshold]]
  <2>1. failed' = [i \in Ids |-> failed'[i]]
    BY DEF Fail
  <2>. QED BY <1>3, <2>1
<1>. QED BY <1>3, <1>4

(* A handler that stores a sound session, and takes nothing back from the  *)
(* histories, keeps the invariant.                                         *)
LEMMA WriteKeeps ==
  ASSUME IInv, NEW r \in Requests, NEW s, Writes(r, s),
         Sound(s, failed', settled', drawn'),
         drawn' \in 0..MaxIds, drawn <= drawn', edits' \in Nat, typed' \in Nat,
         settled \subseteq settled', settled' \in SUBSET (Ids \X Nat),
         failed' \in [Ids -> [Stages -> 0..RevealThreshold]],
         \A i \in Ids : \A g \in Stages : failed[i][g] <= failed'[i][g]
  PROVE  IInv'
<1>1. RevealThreshold \in Nat /\ MaxIds \in Nat
  BY DecompositionAssumption
<1>2. /\ failed \in [Ids -> [Stages -> Nat]] /\ failed' \in [Ids -> [Stages -> Nat]]
      /\ drawn \in Nat /\ drawn' \in Nat
  BY <1>1 DEF IInv, Types
<1>3. snap' = [snap EXCEPT ![r] = None] /\ session' = s /\ UNCHANGED <<status, overlap, loads>>
  BY DEF Writes, Ends
<1>4. Types'
  BY <1>3 DEF IInv, Types
<1>5. ASSUME NEW q \in Requests, snap'[q] # None PROVE Sound(snap'[q], failed', settled', drawn')
  <2>1. snap'[q] = snap[q] /\ snap[q] # None
    BY <1>3, <1>5 DEF IInv, Types
  <2>2. Sound(snap[q], failed, settled, drawn)
    BY <2>1 DEF IInv
  <2>3. Sound(snap[q], failed', settled', drawn')
    BY <1>2, <2>2, SoundStays
  <2>. QED BY <2>1, <2>3
<1>6. Sound(session', failed', settled', drawn')
  BY <1>3
<1>. QED BY <1>4, <1>5, <1>6 DEF IInv
-----------------------------------------------------------------------------
LEMMA WriteSame ==
  ASSUME IInv, NEW r \in Requests, NEW s, Writes(r, s), Sound(s, failed, settled, drawn'),
         drawn' \in 0..MaxIds, drawn <= drawn', edits' \in Nat, typed' \in Nat,
         UNCHANGED <<settled, failed>>
  PROVE  IInv'
<1>1. failed \in [Ids -> [Stages -> 0..RevealThreshold]] /\ settled \in SUBSET (Ids \X Nat)
  BY DEF IInv, Types
<1>2. \A i \in Ids : \A g \in Stages : failed[i][g] <= failed'[i][g]
  BY <1>1, DecompositionAssumption
<1>3. Sound(s, failed', settled', drawn')
  OBVIOUS
<1>. QED BY <1>1, <1>2, <1>3, WriteKeeps

LEMMA WriteHere ==
  ASSUME IInv, NEW r \in Requests, NEW s, Writes(r, s), Sound(s, failed, settled, drawn),
         drawn' = drawn, edits' \in Nat, typed' \in Nat, UNCHANGED <<settled, failed>>
  PROVE  IInv'
<1>1. drawn' \in 0..MaxIds /\ drawn <= drawn' /\ Sound(s, failed, settled, drawn')
  BY Bounds DEF IInv, Types
<1>. QED BY <1>1, WriteSame

(* What a request remembers. *)
LEMMA Remembered ==
  ASSUME IInv, NEW r \in Requests, snap[r] # None
  PROVE  /\ Sound(snap[r], failed, settled, drawn)
         /\ snap[r] \in Session
         /\ snap[r].nodes \in [Ids -> StepNode \cup {NoStep}]
         /\ Steps(snap[r].nodes) \subseteq Ids
         /\ Steps(snap[r].nodes) \subseteq 1..drawn
         /\ Closed(snap[r].nodes)
         /\ \A i \in Steps(snap[r].nodes) : /\ snap[r].nodes[i] \in StepNode
                                            /\ SoundStep(snap[r].nodes[i], snap[r].stage, failed, settled)
         /\ \A i \in Ids \ Steps(snap[r].nodes) : snap[r].nodes[i] = NoStep
         /\ snap[r].stage \in Stages
         /\ drawn \in Nat /\ drawn <= MaxIds
<1>1. Sound(snap[r], failed, settled, drawn) /\ snap[r] \in Session
  BY DEF IInv, Sound
<1>2. snap[r].nodes \in [Ids -> StepNode \cup {NoStep}] /\ snap[r].stage \in Stages
  BY <1>1 DEF Session, Stages
<1>3. drawn \in Nat /\ drawn <= MaxIds
  BY Bounds DEF IInv, Types
<1>. QED BY <1>1, <1>2, <1>3, StepsTyped DEF Sound

(* The trees that may be sent are closed and have steps of no history.     *)
LEMMA TreeShape ==
  ASSUME NEW k \in 0..MaxIds, NEW n \in Ids, NEW t \in Trees[k][n]
  PROVE  /\ t \in [Ids -> StepNode \cup {NoStep}]
         /\ Closed(t) /\ Steps(t) = (k + 1)..n
         /\ \A i \in Steps(t) : /\ t[i] \in StepNode
                                /\ t[i].attempts = 0 /\ ~t[i].revealed /\ t[i].status = "pending"
<1> DEFINE Sent == [id : Ids, parent : Ids \cup {None}, text : {0}, status : {"pending"},
                    attempts : {0}, revealed : {FALSE}]
<1>1. t \in {u \in [Ids -> Sent \cup {NoStep}] :
               /\ Steps(u) = (k + 1)..n
               /\ \A i \in Steps(u) : /\ u[i].id <= i
                                      /\ u[i].id > k => u[u[i].id].id = u[i].id
                                      /\ u[i].parent \in IdsOf(u) \cup {None}}
  BY DEF Trees
<1>2. ASSUME NEW x \in Sent
      PROVE  x \in StepNode /\ x.attempts = 0 /\ ~x.revealed /\ x.status = "pending"
  <2>1. {FALSE} \subseteq BOOLEAN /\ {0} \subseteq Nat /\ {"pending"} \subseteq FormationStatuses
    BY DEF FormationStatuses
  <2>2. x \in StepNode
    BY <2>1, Zenon DEF StepNode
  <2>3. x.attempts = 0 /\ x.status = "pending" /\ x.revealed \in {FALSE}
    OBVIOUS
  <2>4. ~x.revealed
    BY <2>3, Zenon
  <2>. QED BY <2>2, <2>3, <2>4
<1> HIDE DEF Sent
<1>3. /\ t \in [Ids -> Sent \cup {NoStep}] /\ Steps(t) = (k + 1)..n
      /\ \A i \in Steps(t) : t[i].parent \in IdsOf(t) \cup {None}
  BY <1>1
<1>4. t \in [Ids -> StepNode \cup {NoStep}]
  BY <1>2, <1>3
<1>5. ASSUME NEW i \in Steps(t)
      PROVE  t[i] \in StepNode /\ t[i].attempts = 0 /\ ~t[i].revealed /\ t[i].status = "pending"
  <2>1. t[i] \in Sent
    <3>1. t[i].status # "absent" /\ i \in Ids
      BY <1>5 DEF Steps
    <3>2. t[i] # NoStep
      BY <3>1 DEF NoStep
    <3>. QED BY <1>3, <3>1, <3>2
  <2>. QED BY <1>2, <2>1
<1>. QED BY <1>3, <1>4, <1>5 DEF Closed

(* A step with no failed check and nothing revealed. *)
LEMMA NewSound ==
  ASSUME NEW n, NEW g, NEW F, NEW P, F[n.id][g] \in Nat,
         n.attempts = 0, ~n.revealed, n.status \in StatusesOf(g),
         (g = "implementation" \/ n.status \in Passing) => <<n.id, n.text>> \in P
  PROVE  SoundStep(n, g, F, P)
<1>1. n.attempts <= F[n.id][g]
  OBVIOUS
<1>. QED BY <1>1 DEF SoundStep

(* Another tree, or one other step, in a session. *)
LEMMA OtherTree ==
  ASSUME NEW F, NEW P, NEW d, NEW s \in Session, NEW t \in [Ids -> StepNode \cup {NoStep}], Closed(t),
         Steps(t) \subseteq 1..d,
         \A i \in Steps(t) : SoundStep(t[i], s.stage, F, P),
         NEW u \in Session, u.nodes = t, u.stage = s.stage
  PROVE  Sound(u, F, P, d)
BY DEF Sound

(* The same steps with the same places in the tree. *)
LEMMA SameShape ==
  ASSUME NEW t, NEW u, Steps(u) = Steps(t),
         \A k \in Steps(t) : u[k].id = t[k].id /\ u[k].parent = t[k].parent
  PROVE  IdsOf(u) = IdsOf(t) /\ (Closed(t) => Closed(u))
<1>1. IdsOf(u) = IdsOf(t)
  BY DEF IdsOf
<1>. QED BY <1>1 DEF Closed

(* A new step, or a changed one with the id it had. *)
LEMMA OneStep ==
  ASSUME NEW F, NEW P, NEW d, NEW s, Sound(s, F, P, d), NEW i \in Ids, i \in 1..d, NEW n \in StepNode,
         n.parent \in IdsOf(s.nodes) \cup {None},
         i \in Steps(s.nodes) => n.id = s.nodes[i].id, SoundStep(n, s.stage, F, P)
  PROVE  Sound([s EXCEPT !.nodes = [s.nodes EXCEPT ![i] = n]], F, P, d)
<1> DEFINE u == [s EXCEPT !.nodes = [s.nodes EXCEPT ![i] = n]]
<1> DEFINE t == [s.nodes EXCEPT ![i] = n]
<1>1. /\ s \in Session /\ s.nodes \in [Ids -> StepNode \cup {NoStep}] /\ Closed(s.nodes)
      /\ \A j \in Steps(s.nodes) : SoundStep(s.nodes[j], s.stage, F, P)
      /\ Steps(s.nodes) \subseteq 1..d
  BY DEF Sound, Session
<1>2. t \in [Ids -> StepNode \cup {NoStep}] /\ t[i] = n /\ \A j \in Ids \ {i} : t[j] = s.nodes[j]
  BY <1>1
<1>8. u = [s EXCEPT !.nodes = t]
  OBVIOUS
<1> HIDE DEF t, u
<1>0. u \in Session /\ u.nodes = t /\ u.stage = s.stage
  BY <1>8, <1>1, <1>2 DEF Session
<1>3. n.status # "absent"
  BY DEF StepNode, FormationStatuses, ImplementationStatuses
<1>4. Steps(t) = Steps(s.nodes) \cup {i} /\ Steps(t) \subseteq 1..d
  BY <1>1, <1>2, <1>3 DEF Steps
<1>5. Closed(t)
  <2>1. IdsOf(s.nodes) \subseteq IdsOf(t)
    BY <1>2, <1>4 DEF IdsOf, Steps
  <2>2. ASSUME NEW j \in Steps(t) PROVE t[j].parent \in IdsOf(t) \cup {None}
    <3>1. CASE j = i
      BY <1>2, <2>1, <3>1
    <3>2. CASE j # i
      BY <1>1, <1>2, <1>4, <2>1, <2>2, <3>2 DEF Closed, Steps
    <3>. QED BY <3>1, <3>2
  <2>. QED BY <2>2 DEF Closed
<1>6. ASSUME NEW j \in Steps(t) PROVE SoundStep(t[j], s.stage, F, P)
  <2>1. CASE j = i
    BY <1>2, <2>1
  <2>2. CASE j # i
    BY <1>1, <1>2, <1>4, <1>6, <2>2 DEF Steps
  <2>. QED BY <2>1, <2>2
<1>7. Sound(u, F, P, d)
  BY <1>0, <1>1, <1>2, <1>4, <1>5, <1>6, OtherTree
<1>. QED BY <1>7 DEF u

(* What Sizes bounds. *)
LEMMA SizesBounded ==
  ASSUME Types, NEW n \in Sizes
  PROVE  n \in Ids /\ n \in 0..MaxIds /\ drawn <= n /\ drawn \in 0..MaxIds
BY Bounds DEF Sizes, Ids, Types
-----------------------------------------------------------------------------
LEMMA InferTreeKeeps ==
  ASSUME IInv, NEW r \in Requests, InferTree(r) PROVE IInv'
<1>1. PICK n \in Sizes : \E t \in Inferred(drawn, n) :
        Writes(r, [snap[r] EXCEPT !.nodes = t, !.code = typed + 1, !.inferTrees = @ + 1]) /\ drawn' = n
  BY DEF InferTree
<1>2. PICK t \in Inferred(drawn, n) :
        Writes(r, [snap[r] EXCEPT !.nodes = t, !.code = typed + 1, !.inferTrees = @ + 1]) /\ drawn' = n
  BY <1>1
<1>10. n \in Ids /\ n \in 0..MaxIds /\ drawn <= n /\ drawn \in 0..MaxIds
  BY SizesBounded DEF IInv
<1>3. /\ snap[r] \in Session /\ snap[r].stage = "formation" /\ Types
      /\ drawn \in 0..MaxIds /\ typed + 1 \in Nat /\ snap[r].inferTrees + 1 \in Nat
  BY Remembered DEF InferTree, IInv, Types, Session
<1>4. /\ t \in [Ids -> StepNode \cup {NoStep}] /\ Closed(t) /\ Steps(t) = (drawn + 1)..n
      /\ \A i \in Steps(t) : /\ t[i] \in StepNode
                             /\ t[i].attempts = 0 /\ ~t[i].revealed /\ t[i].status = "pending"
  <2>1. t \in Trees[drawn][n]
    BY DEF Inferred
  <2>. QED BY <1>10, <2>1, TreeShape
<1>5. ASSUME NEW i \in Steps(t) PROVE SoundStep(t[i], "formation", failed, settled)
  <2>1. t[i].id \in Ids /\ t[i].status \in StatusesOf("formation") /\ t[i].status \notin Passing
    BY <1>4, <1>5 DEF StepNode, StatusesOf, FormationStatuses, Passing
  <2>2. failed[t[i].id]["formation"] \in Nat
    BY <1>3, <2>1, Bounds
  <2> DEFINE m == t[i]
  <2>3. /\ m.attempts = 0 /\ ~m.revealed /\ failed[m.id]["formation"] \in Nat
        /\ m.status \in StatusesOf("formation") /\ m.status \notin Passing
    BY <1>4, <1>5, <2>1, <2>2
  <2> HIDE DEF m
  <2>4. SoundStep(m, "formation", failed, settled)
    BY <2>3, NewSound
  <2>. QED BY <2>4 DEF m
<1> DEFINE u == [snap[r] EXCEPT !.nodes = t, !.code = typed + 1, !.inferTrees = @ + 1]
<1>6. Writes(r, u) /\ u = [snap[r] EXCEPT !.nodes = t, !.code = typed + 1, !.inferTrees = @ + 1]
  BY <1>2
<1> HIDE DEF u
<1>7. u \in Session /\ u.nodes = t /\ u.stage = snap[r].stage
  BY <1>3, <1>4, <1>6 DEF Session
<1>8. Sound(u, failed, settled, drawn')
  <2>1. Steps(t) \subseteq 1..n /\ drawn' = n
    BY <1>2, <1>4, <1>10
  <2>2. Sound(u, failed, settled, n)
    BY <1>3, <1>4, <1>5, <1>7, <2>1, OtherTree
  <2>. QED BY <2>1, <2>2
<1>9. /\ drawn' \in 0..MaxIds /\ drawn <= drawn' /\ edits' \in Nat /\ typed' \in Nat
      /\ UNCHANGED <<settled, failed>>
  <2>1. drawn' \in 0..MaxIds /\ drawn <= drawn'
    BY <1>2, <1>10
  <2>. QED BY <1>3, <2>1 DEF InferTree, Types
<1>. QED BY <1>6, <1>8, <1>9, WriteSame

(* What a verdict of the model does to a step. *)
LEMMA JudgedStep ==
  ASSUME NEW n \in StepNode, n.status \in FormationStatuses,
         NEW verdict \in {"correct", "incorrect", "can_be_divided", None}
  PROVE  LET m == Judged(n, verdict)
         IN /\ m \in StepNode /\ m.status \in FormationStatuses
            /\ m.id = n.id /\ m.parent = n.parent /\ m.text = n.text /\ m.revealed = n.revealed
            /\ m.status = "incorrect" => m.attempts = n.attempts + 1
            /\ m.status # "incorrect" => m.attempts = 0 \/ m.attempts = n.attempts
<1> DEFINE m == Judged(n, verdict)
           st == IF verdict = None THEN n.status ELSE verdict
           at == IF st \in Passing THEN 0 ELSE IF st = "incorrect" THEN n.attempts + 1 ELSE n.attempts
<1>1. m = [n EXCEPT !.status = st, !.attempts = at]
  BY DEF Judged
<1>2. /\ st \in FormationStatuses /\ at \in Nat
      /\ st = "incorrect" => at = n.attempts + 1
      /\ st # "incorrect" => at = 0 \/ at = n.attempts
  BY DEF FormationStatuses, Passing, StepNode
<1> HIDE DEF m, st, at
<1>3. /\ m \in StepNode /\ m.status = st /\ m.attempts = at
      /\ m.id = n.id /\ m.parent = n.parent /\ m.text = n.text /\ m.revealed = n.revealed
  BY <1>1, <1>2 DEF StepNode
<1>. QED BY <1>2, <1>3 DEF m

LEMMA CheckTreeKeeps ==
  ASSUME IInv, NEW r \in Requests, CheckTree(r) PROVE IInv'
<1> DEFINE s == snap[r]
           tree(v) == [i \in Ids |-> IF i \in Steps(s.nodes) THEN Judged(s.nodes[i], v[s.nodes[i].id]) ELSE NoStep]
<1>1. /\ Sound(s, failed, settled, drawn) /\ s \in Session /\ s.stage = "formation" /\ Types
      /\ s.nodes \in [Ids -> StepNode \cup {NoStep}] /\ s.formationChecks + 1 \in Nat
      /\ \A i \in Steps(s.nodes) : s.nodes[i] \in StepNode
  <2>1. snap[r] # None /\ s.stage = "formation"
    BY DEF CheckTree
  <2>2. /\ Sound(s, failed, settled, drawn) /\ s \in Session
        /\ s.nodes \in [Ids -> StepNode \cup {NoStep}]
        /\ \A i \in Steps(s.nodes) : s.nodes[i] \in StepNode
    BY <2>1, Remembered
  <2>3. s.formationChecks + 1 \in Nat
    BY <2>2 DEF Session
  <2>. QED BY <2>1, <2>2, <2>3 DEF IInv
<1>2. PICK v \in [IdsOf(s.nodes) -> {"correct", "incorrect", "can_be_divided", None}] :
        /\ Writes(r, [s EXCEPT !.nodes = tree(v), !.formationChecks = @ + 1])
        /\ Settle(tree(v), Steps(tree(v)))
        /\ Fail("formation", {tree(v)[i].id : i \in {j \in Ids : tree(v)[j].status = "incorrect"}})
  BY DEF CheckTree
<1> DEFINE t == tree(v)
           u == [s EXCEPT !.nodes = t, !.formationChecks = @ + 1]
           bad == {t[i].id : i \in {j \in Ids : t[j].status = "incorrect"}}
<1>3. /\ Writes(r, u) /\ u = [s EXCEPT !.nodes = t, !.formationChecks = @ + 1]
      /\ Settle(t, Steps(t)) /\ Fail("formation", bad)
  BY <1>2
<1>4. ASSUME NEW i \in Ids, i \notin Steps(s.nodes) PROVE t[i] = NoStep
  BY <1>4
<1>5. ASSUME NEW i \in Steps(s.nodes)
      PROVE  /\ i \in Ids /\ t[i] \in StepNode /\ t[i].status \in FormationStatuses
             /\ t[i].id = s.nodes[i].id /\ t[i].parent = s.nodes[i].parent
             /\ t[i].text = s.nodes[i].text /\ t[i].revealed = s.nodes[i].revealed
             /\ t[i].status = "incorrect" => t[i].attempts = s.nodes[i].attempts + 1
             /\ t[i].status # "incorrect" => t[i].attempts = 0 \/ t[i].attempts = s.nodes[i].attempts
  <2>1. i \in Ids /\ t[i] = Judged(s.nodes[i], v[s.nodes[i].id])
    BY DEF Steps
  <2>2. s.nodes[i] \in StepNode /\ s.nodes[i].status \in FormationStatuses
    BY <1>1 DEF Sound, SoundStep, StatusesOf
  <2>3. v[s.nodes[i].id] \in {"correct", "incorrect", "can_be_divided", None}
    BY <1>2 DEF IdsOf
  <2> HIDE DEF t
  <2>. QED BY <2>1, <2>2, <2>3, JudgedStep
<1>6. t = [i \in Ids |-> t[i]]
  OBVIOUS
<1>8. \A i \in Ids : t[i].status = "incorrect" => t[i].id \in bad
  OBVIOUS
<1> HIDE DEF t, u, bad
<1>9. t \in [Ids -> StepNode \cup {NoStep}] /\ Steps(t) = Steps(s.nodes)
  <2>1. t \in [Ids -> StepNode \cup {NoStep}]
    BY <1>4, <1>5, <1>6 DEF Steps
  <2>2. \A i \in Steps(s.nodes) : t[i].status # "absent"
    BY <1>5 DEF FormationStatuses
  <2>3. NoStep.status = "absent"
    BY DEF NoStep
  <2>. QED BY <1>4, <2>1, <2>2, <2>3 DEF Steps
<1>10. Closed(t)
  BY <1>1, <1>5, <1>9, SameShape DEF Sound
<1>11. u \in Session /\ u.nodes = t /\ u.stage = s.stage
  BY <1>1, <1>3, <1>9 DEF Session
<1>12. /\ failed' \in [Ids -> [Stages -> 0..RevealThreshold]]
       /\ \A i \in Ids : \A h \in Stages : failed[i][h] <= failed'[i][h]
       /\ \A i \in bad \cap Ids : \/ failed'[i]["formation"] = failed[i]["formation"] + 1
                                  \/ failed'[i]["formation"] >= RevealThreshold
  BY <1>1, <1>3, Bounds, FailCounts
<1>13. /\ settled \subseteq settled' /\ settled' \in SUBSET (Ids \X Nat)
       /\ \A i \in Steps(t) : t[i].status \in Passing => <<t[i].id, t[i].text>> \in settled'
  <2>1. settled' = settled \cup {<<t[i].id, t[i].text>> : i \in {j \in Steps(t) : t[j].status \in Passing}}
    BY <1>3 DEF Settle
  <2>2. \A i \in Steps(t) : t[i].id \in Ids /\ t[i].text \in Nat
    BY <1>5, <1>9 DEF StepNode
  <2>3. settled \in SUBSET (Ids \X Nat)
    BY <1>1 DEF Types
  <2>. QED BY <2>1, <2>2, <2>3
<1>14. ASSUME NEW i \in Steps(t) PROVE SoundStep(t[i], s.stage, failed', settled')
  <2> DEFINE n == s.nodes[i]
             m == t[i]
             h == n.id
             f == failed[h]["formation"]
             f2 == failed'[h]["formation"]
  <2>1. /\ i \in Ids /\ h \in Ids /\ n \in StepNode /\ SoundStep(n, "formation", failed, settled)
    BY <1>1, <1>9, <1>14 DEF Sound, Steps, StepNode
  <2>2. f \in Nat /\ f2 \in Nat /\ f <= f2 /\ f2 <= RevealThreshold /\ RevealThreshold \in Nat
    <3>1. failed'[h] \in [Stages -> 0..RevealThreshold] /\ f \in Nat /\ RevealThreshold \in Nat
      BY <1>1, <1>12, <2>1, Bounds
    <3>2. f2 \in 0..RevealThreshold /\ f <= f2
      BY <1>12, <2>1, <3>1, Bounds
    <3>. QED BY <3>1, <3>2
  <2>3. /\ m.status \in FormationStatuses /\ m.revealed = n.revealed /\ m.id = h
        /\ m.status = "incorrect" => m.attempts = n.attempts + 1
        /\ m.status # "incorrect" => m.attempts = 0 \/ m.attempts = n.attempts
    BY <1>5, <1>9, <1>14
  <2>4. n.attempts \in Nat /\ (n.attempts <= f \/ f >= RevealThreshold) /\ (n.revealed => f >= RevealThreshold)
    BY <2>1 DEF SoundStep, StepNode
  <2>5. m.status = "incorrect" => f2 = f + 1 \/ f2 >= RevealThreshold
    BY <1>8, <1>12, <2>1, <2>3
  <2> HIDE DEF n, m, f, f2, h
  <2>6. m.attempts <= f2 \/ f2 >= RevealThreshold
    BY <2>2, <2>3, <2>4, <2>5
  <2>7. m.revealed => f2 >= RevealThreshold
    BY <2>2, <2>3, <2>4
  <2>8. m.status \in StatusesOf("formation")
    BY <2>3 DEF StatusesOf
  <2>9. m.status \in Passing => <<m.id, m.text>> \in settled'
    BY <1>13, <1>14 DEF m
  <2>10. SoundStep(m, "formation", failed', settled')
    BY <2>3, <2>6, <2>7, <2>8, <2>9 DEF SoundStep, f2
  <2>. QED BY <1>1, <2>10 DEF m
<1>15. Sound(u, failed', settled', drawn')
  <2>1. Steps(t) \subseteq 1..drawn' /\ drawn' = drawn
    <3>1. drawn' = drawn
      BY DEF CheckTree
    <3>. QED BY <1>1, <1>9, <3>1 DEF Sound
  <2>. QED BY <1>1, <1>9, <1>10, <1>11, <1>14, <2>1, OtherTree
<1>16. drawn' \in 0..MaxIds /\ drawn <= drawn' /\ edits' \in Nat /\ typed' \in Nat
  <2>1. UNCHANGED <<drawn, edits, typed>>
    BY DEF CheckTree
  <2>. QED BY <1>1, <2>1, Bounds DEF Types
<1>. QED BY <1>3, <1>12, <1>13, <1>15, <1>16, WriteKeeps
-----------------------------------------------------------------------------
(* Handlers that change one step, or none. *)
LEMMA NewStepTyped ==
  ASSUME NEW i \in Ids, NEW p \in Ids \cup {None}, NEW x \in Nat,
         NEW st \in FormationStatuses \cup ImplementationStatuses
  PROVE  LET n == NewStep(i, p, x, st)
         IN /\ n \in StepNode /\ n.id = i /\ n.parent = p /\ n.text = x /\ n.status = st
            /\ n.attempts = 0 /\ ~n.revealed
BY DEF NewStep, StepNode

(* More steps may have been made meanwhile. *)
LEMMA MoreSteps ==
  ASSUME NEW s, NEW F, NEW P, NEW d \in Nat, Sound(s, F, P, d)
  PROVE  Sound(s, F, P, d + 1)
<1>1. 1..d \subseteq 1..(d + 1)
  OBVIOUS
<1>. QED BY <1>1 DEF Sound

LEMMA AddNodeKeeps ==
  ASSUME IInv, NEW r \in Requests, AddNode(r) PROVE IInv'
<1> DEFINE s == snap[r]
<1>1. /\ Sound(s, failed, settled, drawn) /\ s \in Session /\ s.stage = "formation" /\ Types
      /\ s.nodes \in [Ids -> StepNode \cup {NoStep}] /\ IdsOf(s.nodes) \subseteq Ids
      /\ drawn \in Nat
  BY Remembered, StepsTyped DEF AddNode, IInv
<1>2. PICK p \in IdsOf(s.nodes) \cup {None}, i \in {drawn + 1} \cap Ids :
        Writes(r, [s EXCEPT !.nodes[i] = NewStep(i, p, 0, "pending")]) /\ drawn' = i
  BY DEF AddNode
<1> DEFINE n == NewStep(i, p, 0, "pending")
           u == [s EXCEPT !.nodes = [s.nodes EXCEPT ![i] = n]]
<1>3. n \in StepNode /\ n.id = i /\ n.parent = p /\ n.status = "pending" /\ n.attempts = 0 /\ ~n.revealed
  <2>1. p \in Ids \cup {None} /\ 0 \in Nat /\ "pending" \in FormationStatuses \cup ImplementationStatuses
    BY <1>1 DEF FormationStatuses
  <2>. QED BY <2>1, NewStepTyped
<1>4. Writes(r, u)
  BY <1>2
<1> HIDE DEF n
<1>5. SoundStep(n, s.stage, failed, settled)
  <2>1. failed[i]["formation"] \in Nat /\ n.status \in StatusesOf("formation") /\ n.status \notin Passing
    BY <1>1, <1>3, Bounds DEF StatusesOf, FormationStatuses, Passing
  <2>. QED BY <1>1, <1>3, <2>1, NewSound
<1>6. Sound(u, failed, settled, drawn + 1)
  <2>1. i \notin Steps(s.nodes) /\ i \in 1..(drawn + 1)
    BY <1>1 DEF Sound
  <2>2. Sound(s, failed, settled, drawn + 1)
    BY <1>1, MoreSteps
  <2>. QED BY <1>3, <1>5, <2>1, <2>2, OneStep
<1>7. /\ drawn' = drawn + 1 /\ drawn' \in 0..MaxIds /\ drawn <= drawn'
      /\ edits' \in Nat /\ typed' \in Nat /\ UNCHANGED <<settled, failed>>
  BY <1>1, <1>2, Bounds DEF AddNode, Types, Ids
<1> HIDE DEF u
<1>8. Sound(u, failed, settled, drawn')
  BY <1>6, <1>7
<1>. QED BY <1>4, <1>7, <1>8, WriteSame

LEMMA EditNodeKeeps ==
  ASSUME IInv, NEW r \in Requests, EditNode(r) PROVE IInv'
<1> DEFINE s == snap[r]
<1>1. /\ Sound(s, failed, settled, drawn) /\ s.stage = "formation" /\ Types /\ Steps(s.nodes) \subseteq Ids
      /\ Steps(s.nodes) \subseteq 1..drawn /\ \A i \in Steps(s.nodes) : s.nodes[i] \in StepNode
  BY Remembered DEF EditNode, IInv
<1>2. PICK i \in Firsts(s.nodes) :
        Writes(r, [s EXCEPT !.nodes[i] = [@ EXCEPT !.text = edits + 1, !.status = "pending"]])
  BY DEF EditNode
<1> DEFINE n == [s.nodes[i] EXCEPT !.text = edits + 1, !.status = "pending"]
           u == [s EXCEPT !.nodes = [s.nodes EXCEPT ![i] = n]]
<1>3. /\ i \in Steps(s.nodes) /\ i \in Ids /\ i \in 1..drawn /\ s.nodes[i] \in StepNode
      /\ SoundStep(s.nodes[i], s.stage, failed, settled)
      /\ s.nodes[i].parent \in IdsOf(s.nodes) \cup {None} /\ edits + 1 \in Nat
  BY <1>1 DEF Sound, Closed, Types, Firsts
<1>4. Writes(r, u) /\ n = [s.nodes[i] EXCEPT !.text = edits + 1, !.status = "pending"]
  BY <1>2
<1> HIDE DEF n
<1>5. /\ n \in StepNode /\ n.id = s.nodes[i].id /\ n.parent = s.nodes[i].parent /\ n.status = "pending"
      /\ n.attempts = s.nodes[i].attempts /\ n.revealed = s.nodes[i].revealed
  BY <1>3, <1>4 DEF StepNode, FormationStatuses
<1>6. SoundStep(n, s.stage, failed, settled)
  <2>1. n.status \in StatusesOf(s.stage) /\ n.status \notin Passing
    BY <1>1, <1>5 DEF StatusesOf, FormationStatuses, Passing
  <2>2. s.stage # "implementation"
    BY <1>1
  <2>. QED BY <1>3, <1>5, <2>1, <2>2 DEF SoundStep
<1>7. Sound(u, failed, settled, drawn)
  BY <1>1, <1>3, <1>5, <1>6, OneStep
<1>8. drawn' = drawn /\ edits' \in Nat /\ typed' \in Nat /\ UNCHANGED <<settled, failed>>
  BY <1>1 DEF EditNode, Types
<1> HIDE DEF u
<1>. QED BY <1>4, <1>7, <1>8, WriteHere

(* The parent of a step that stays outside the subtree of i stays too. *)
LEMMA ParentStays ==
  ASSUME NEW t, Closed(t), NEW i, NEW j \in Steps(t), t[j].id \in Ids, t[j].id \notin Subtree(t, i)
  PROVE  \/ t[j].parent = None
         \/ \E k \in Steps(t) : t[k].id = t[j].parent /\ t[k].id \notin Subtree(t, i)
<1>1. t[j].parent \in IdsOf(t) \cup {None}
  BY DEF Closed
<1>2. t[j].parent \notin Subtree(t, i)
  <2>1. SUFFICES ASSUME t[j].parent \in Subtree(t, i) PROVE FALSE
    OBVIOUS
  <2>2. ASSUME NEW S \in SUBSET Ids, i \in S, \A k \in Steps(t) : t[k].parent \in S => t[k].id \in S
        PROVE  t[j].id \in S
    <3>1. t[j].parent \in S
      BY <2>1, <2>2 DEF Subtree
    <3>. QED BY <2>2, <3>1
  <2>. QED BY <2>2 DEF Subtree
<1>. QED BY <1>1, <1>2 DEF IdsOf

LEMMA DeleteNodeKeeps ==
  ASSUME IInv, NEW r \in Requests, DeleteNode(r) PROVE IInv'
<1> DEFINE s == snap[r]
<1>1. /\ Sound(s, failed, settled, drawn) /\ s \in Session /\ s.stage = "formation" /\ Types
      /\ s.nodes \in [Ids -> StepNode \cup {NoStep}] /\ Steps(s.nodes) \subseteq Ids
      /\ Steps(s.nodes) \subseteq 1..drawn
      /\ Closed(s.nodes) /\ \A j \in Steps(s.nodes) : SoundStep(s.nodes[j], s.stage, failed, settled)
  BY Remembered DEF DeleteNode, IInv, Sound
<1>2. PICK i \in IdsOf(s.nodes) :
        Writes(r, [s EXCEPT !.nodes = [k \in Ids |-> IF @[k].id \in Subtree(s.nodes, i) THEN NoStep ELSE @[k]]])
  BY DEF DeleteNode
<1> DEFINE t == [k \in Ids |-> IF s.nodes[k].id \in Subtree(s.nodes, i) THEN NoStep ELSE s.nodes[k]]
           u == [s EXCEPT !.nodes = t]
<1>3. Writes(r, u) /\ u = [s EXCEPT !.nodes = t]
  BY <1>2
<1>4. t \in [Ids -> StepNode \cup {NoStep}]
  BY <1>1
<1>5. \A j \in Ids : t[j] = IF s.nodes[j].id \in Subtree(s.nodes, i) THEN NoStep ELSE s.nodes[j]
  OBVIOUS
<1> HIDE DEF t, u
<1>6. \A j \in Ids : j \in Steps(t) <=> j \in Steps(s.nodes) /\ s.nodes[j].id \notin Subtree(s.nodes, i)
  <2>1. NoStep.status = "absent"
    BY DEF NoStep
  <2>. QED BY <1>5, <2>1 DEF Steps
<1>7. \A j \in Steps(t) : t[j] = s.nodes[j] /\ j \in Steps(s.nodes) /\ s.nodes[j].id \notin Subtree(s.nodes, i)
  BY <1>5, <1>6 DEF Steps
<1>8. Closed(t)
  <2>1. ASSUME NEW j \in Steps(t) PROVE t[j].parent \in IdsOf(t) \cup {None}
    <3>1. j \in Steps(s.nodes) /\ s.nodes[j].id \in Ids /\ s.nodes[j].id \notin Subtree(s.nodes, i) /\ t[j] = s.nodes[j]
      BY <1>1, <1>7, <2>1, StepsTyped
    <3>2. CASE s.nodes[j].parent = None
      BY <3>1, <3>2
    <3>3. ASSUME NEW k \in Steps(s.nodes), s.nodes[k].id = s.nodes[j].parent, s.nodes[k].id \notin Subtree(s.nodes, i)
          PROVE  s.nodes[j].parent \in IdsOf(t)
      <4>1. k \in Steps(t) /\ t[k] = s.nodes[k]
        BY <1>1, <1>6, <1>7, <3>3
      <4>. QED BY <3>3, <4>1 DEF IdsOf
    <3>. QED BY <1>1, <3>1, <3>2, <3>3, ParentStays
  <2>. QED BY <2>1 DEF Closed
<1>9. \A j \in Steps(t) : SoundStep(t[j], s.stage, failed, settled)
  BY <1>1, <1>7
<1>10. u \in Session /\ u.nodes = t /\ u.stage = s.stage
  BY <1>1, <1>3, <1>4 DEF Session
<1>11. Sound(u, failed, settled, drawn)
  <2>1. Steps(t) \subseteq 1..drawn
    BY <1>1, <1>7
  <2>. QED BY <1>1, <1>4, <1>8, <1>9, <1>10, <2>1, OtherTree
<1>12. drawn' = drawn /\ edits' \in Nat /\ typed' \in Nat /\ UNCHANGED <<settled, failed>>
  BY <1>1 DEF DeleteNode, Types
<1>. QED BY <1>3, <1>11, <1>12, WriteHere

(* The first step of an id gives way to another one of that id, whose      *)
(* parent is a step as well.                                               *)
LEMMA ReorderKeeps ==
  ASSUME IInv, NEW r \in Requests, Reorder(r) PROVE IInv'
<1> DEFINE s == snap[r]
<1>1. /\ Sound(s, failed, settled, drawn) /\ Types /\ Steps(s.nodes) \subseteq Ids
      /\ Steps(s.nodes) \subseteq 1..drawn /\ \A i \in Steps(s.nodes) : s.nodes[i] \in StepNode
  BY Remembered DEF Reorder, IInv
<1>2. PICK j \in Firsts(s.nodes), k \in Steps(s.nodes) :
        s.nodes[k].id = s.nodes[j].id /\ Writes(r, [s EXCEPT !.nodes[j] = s.nodes[k]])
  BY DEF Reorder
<1> DEFINE n == s.nodes[k]
           u == [s EXCEPT !.nodes = [s.nodes EXCEPT ![j] = n]]
<1>3. /\ j \in Ids /\ j \in 1..drawn /\ n \in StepNode /\ n.id = s.nodes[j].id
      /\ SoundStep(n, s.stage, failed, settled) /\ n.parent \in IdsOf(s.nodes) \cup {None}
  BY <1>1, <1>2 DEF Sound, Closed, Firsts
<1>4. Writes(r, u)
  BY <1>2
<1> HIDE DEF n
<1>5. Sound(u, failed, settled, drawn)
  BY <1>1, <1>3, OneStep
<1>6. drawn' = drawn /\ edits' \in Nat /\ typed' \in Nat /\ UNCHANGED <<settled, failed>>
  BY <1>1 DEF Reorder, Types
<1> HIDE DEF u
<1>. QED BY <1>4, <1>5, <1>6, WriteHere

LEMMA SameKeeps ==
  ASSUME IInv, NEW r \in Requests, GetNodeHint(r) \/ CopyToComments(r) PROVE IInv'
<1>1. snap[r] # None /\ Writes(r, snap[r]) /\ UNCHANGED <<drawn, settled, failed, edits, typed>>
  BY DEF GetNodeHint, CopyToComments
<1>2. Sound(snap[r], failed, settled, drawn) /\ Types
  BY <1>1, Remembered DEF IInv
<1>3. drawn' = drawn /\ edits' \in Nat /\ typed' \in Nat
  BY <1>1, <1>2 DEF Types
<1>. QED BY <1>1, <1>2, <1>3, WriteHere

LEMMA SyncCodeKeeps ==
  ASSUME IInv, NEW r \in Requests, SyncCode(r) PROVE IInv'
<1> DEFINE s == snap[r]
           u == [s EXCEPT !.code = typed + 1]
<1>1. Sound(s, failed, settled, drawn) /\ s \in Session /\ Types /\ typed + 1 \in Nat
  BY Remembered DEF SyncCode, IInv, Types
<1>2. Writes(r, u) /\ u = [s EXCEPT !.code = typed + 1]
  BY DEF SyncCode
<1> HIDE DEF u
<1>3. u \in Session /\ u.nodes = s.nodes /\ u.stage = s.stage
  BY <1>1, <1>2 DEF Session
<1>4. Sound(u, failed, settled, drawn)
  BY <1>1, <1>3 DEF Sound
<1>5. drawn' = drawn /\ edits' \in Nat /\ typed' \in Nat /\ UNCHANGED <<settled, failed>>
  BY <1>1 DEF SyncCode, Types
<1>. QED BY <1>2, <1>4, <1>5, WriteHere

(* A step that has failed enough checks may be revealed. *)
LEMMA StuckStep ==
  ASSUME IInv, NEW r \in Requests, snap[r] # None, NEW i \in Stuck(snap[r])
  PROVE  /\ i \in Ids /\ i \in 1..drawn /\ i \in Steps(snap[r].nodes) /\ snap[r].nodes[i] \in StepNode
         /\ SoundStep(snap[r].nodes[i], snap[r].stage, failed, settled)
         /\ snap[r].nodes[i].parent \in IdsOf(snap[r].nodes) \cup {None}
         /\ snap[r].nodes[i].id \in Ids /\ snap[r].nodes[i].id \in IdsOf(snap[r].nodes)
         /\ failed[snap[r].nodes[i].id][snap[r].stage] >= RevealThreshold
<1>1. i \in Steps(snap[r].nodes) /\ snap[r].nodes[i].attempts >= RevealThreshold
  BY DEF Stuck, Firsts
<1>2. /\ i \in Ids /\ i \in 1..drawn /\ snap[r].nodes[i] \in StepNode /\ snap[r].stage \in Stages
      /\ SoundStep(snap[r].nodes[i], snap[r].stage, failed, settled)
      /\ snap[r].nodes[i].parent \in IdsOf(snap[r].nodes) \cup {None}
      /\ snap[r].nodes[i].id \in Ids /\ snap[r].nodes[i].id \in IdsOf(snap[r].nodes)
  BY <1>1, Remembered, StepsTyped DEF Closed
<1>3. failed[snap[r].nodes[i].id][snap[r].stage] \in Nat /\ RevealThreshold \in Nat
  BY <1>2, Bounds DEF IInv
<1>4. snap[r].nodes[i].attempts \in Nat
  BY <1>2 DEF StepNode
<1>5. failed[snap[r].nodes[i].id][snap[r].stage] >= RevealThreshold
  BY <1>1, <1>2, <1>3, <1>4 DEF SoundStep
<1>. QED BY <1>1, <1>2, <1>5

LEMMA RevealNodeKeeps ==
  ASSUME IInv, NEW r \in Requests, RevealNode(r) PROVE IInv'
<1> DEFINE s == snap[r]
           with(i) == [s.nodes EXCEPT ![i] = [@ EXCEPT !.revealed = TRUE]]
<1>1. /\ Sound(s, failed, settled, drawn) /\ s \in Session /\ s.stage \in Stages /\ Types
      /\ s.nodes \in [Ids -> StepNode \cup {NoStep}] /\ Steps(s.nodes) \subseteq 1..drawn
      /\ drawn \in Nat
  BY Remembered DEF RevealNode, IInv
<1>2. PICK i \in Stuck(s) :
        \/ /\ s.stage = "formation"
           /\ \E j \in {drawn + 1} \cap Ids :
                /\ Writes(r, [s EXCEPT !.nodes =
                                [with(i) EXCEPT ![j] = NewStep(j, s.nodes[i].id, 0, "system_generated")]])
                /\ drawn' = j
        \/ Writes(r, [s EXCEPT !.nodes = with(i)]) /\ UNCHANGED drawn
  BY DEF RevealNode
<1> DEFINE n == [s.nodes[i] EXCEPT !.revealed = TRUE]
           h == s.nodes[i].id
           t == with(i)
           u == [s EXCEPT !.nodes = t]
<1>3. /\ i \in Ids /\ i \in 1..drawn /\ i \in Steps(s.nodes) /\ s.nodes[i] \in StepNode
      /\ SoundStep(s.nodes[i], s.stage, failed, settled)
      /\ s.nodes[i].parent \in IdsOf(s.nodes) \cup {None}
      /\ h \in Ids /\ failed[h][s.stage] >= RevealThreshold
  BY <1>2, StuckStep DEF RevealNode
<1>4. n = [s.nodes[i] EXCEPT !.revealed = TRUE] /\ h = s.nodes[i].id
  OBVIOUS
<1>5. t = [s.nodes EXCEPT ![i] = n]
  OBVIOUS
<1>6. u = [s EXCEPT !.nodes = t]
  OBVIOUS
<1> HIDE DEF n, h
<1>7. /\ n \in StepNode /\ n.id = h /\ n.parent = s.nodes[i].parent /\ n.status = s.nodes[i].status
      /\ n.text = s.nodes[i].text /\ n.attempts = s.nodes[i].attempts
  BY <1>3, <1>4 DEF StepNode
<1>8. SoundStep(n, s.stage, failed, settled)
  BY <1>3, <1>4, <1>7 DEF SoundStep
<1>9. Sound([s EXCEPT !.nodes = [s.nodes EXCEPT ![i] = n]], failed, settled, drawn)
  BY <1>1, <1>3, <1>4, <1>7, <1>8, OneStep
<1>10. Sound(u, failed, settled, drawn)
  BY <1>5, <1>6, <1>9
<1> HIDE DEF t
<1>11. t \in [Ids -> StepNode \cup {NoStep}] /\ t[i] = n
  BY <1>1, <1>3, <1>5, <1>7
<1> HIDE DEF u
<1>12. u \in Session /\ u.nodes = t /\ u.stage = s.stage
  BY <1>1, <1>6, <1>11 DEF Session
<1>13. edits' \in Nat /\ typed' \in Nat /\ UNCHANGED <<settled, failed>>
  BY <1>1 DEF RevealNode, Types
<1>14. CASE Writes(r, [s EXCEPT !.nodes = with(i)]) /\ UNCHANGED drawn
  <2>1. Writes(r, u)
    BY <1>14 DEF u, t
  <2>2. drawn' = drawn
    BY <1>14
  <2>. QED BY <1>10, <1>13, <2>1, <2>2, WriteHere
<1>15. ASSUME s.stage = "formation", NEW j \in {drawn + 1} \cap Ids, drawn' = j,
              Writes(r, [s EXCEPT !.nodes = [with(i) EXCEPT ![j] = NewStep(j, h, 0, "system_generated")]])
       PROVE  IInv'
  <2> DEFINE m == NewStep(j, h, 0, "system_generated")
             w == [u EXCEPT !.nodes = [u.nodes EXCEPT ![j] = m]]
             x == [s EXCEPT !.nodes = [with(i) EXCEPT ![j] = m]]
  <2>1. m \in StepNode /\ m.id = j /\ m.parent = h /\ m.status = "system_generated" /\ m.attempts = 0 /\ ~m.revealed
    <3>1. j \in Ids /\ h \in Ids \cup {None} /\ 0 \in Nat
          /\ "system_generated" \in FormationStatuses \cup ImplementationStatuses
      BY <1>3, <1>15 DEF FormationStatuses
    <3>. QED BY <3>1, NewStepTyped
  <2>11. x = [s EXCEPT !.nodes = [t EXCEPT ![j] = m]]
    BY DEF t
  <2>12. w = [u EXCEPT !.nodes = [t EXCEPT ![j] = m]]
    BY <1>12
  <2>13. Writes(r, x)
    BY <1>15
  <2> HIDE DEF m
  <2>2. SoundStep(m, "formation", failed, settled)
    <3>1. failed[j]["formation"] \in Nat /\ m.status \in StatusesOf("formation") /\ m.status \notin Passing
      BY <1>1, <1>15, <2>1, Bounds DEF StatusesOf, FormationStatuses, Passing
    <3>. QED BY <2>1, <3>1, NewSound
  <2>3. h \in IdsOf(u.nodes) /\ j \notin Steps(u.nodes) /\ j \in 1..(drawn + 1)
    <3>1. i \in Steps(t)
      BY <1>3, <1>7, <1>11 DEF Steps
    <3>2. h \in IdsOf(t)
      BY <1>7, <1>11, <3>1 DEF IdsOf
    <3>3. Steps(u.nodes) \subseteq 1..drawn
      BY <1>10 DEF Sound
    <3>. QED BY <1>1, <1>12, <1>15, <3>2, <3>3
  <2>4. Sound(w, failed, settled, drawn + 1)
    <3>1. Sound(u, failed, settled, drawn + 1)
      BY <1>1, <1>10, MoreSteps
    <3>2. j \in Ids /\ SoundStep(m, u.stage, failed, settled)
      BY <1>12, <1>15, <2>2
    <3>. QED BY <2>1, <2>3, <3>1, <3>2, OneStep
  <2>5. x = w
    <3> DEFINE y == [t EXCEPT ![j] = m]
    <3>1. x = [s EXCEPT !.nodes = y] /\ w = [u EXCEPT !.nodes = y]
      BY <2>11, <2>12
    <3> HIDE DEF y, x, w
    <3>. QED BY <1>1, <1>6, <3>1 DEF Session
  <2>6. drawn' \in 0..MaxIds /\ drawn <= drawn' /\ drawn' = drawn + 1
    BY <1>1, <1>15, Bounds DEF Ids
  <2> HIDE DEF x, w
  <2>7. Sound(x, failed, settled, drawn')
    BY <2>4, <2>5, <2>6
  <2>. QED BY <1>13, <2>13, <2>6, <2>7, WriteSame
<1>. QED BY <1>2, <1>4, <1>14, <1>15

(* Steps that pass without a check, and histories that only grow. *)
LEMMA WriteSettles ==
  ASSUME IInv, NEW r \in Requests, NEW s, Writes(r, s), Sound(s, failed, settled', drawn'),
         drawn' \in 0..MaxIds, drawn <= drawn', edits' \in Nat, typed' \in Nat, UNCHANGED failed,
         NEW t \in [Ids -> StepNode \cup {NoStep}], NEW S \in SUBSET Steps(t), Settle(t, S)
  PROVE  IInv'
<1>1. failed \in [Ids -> [Stages -> 0..RevealThreshold]] /\ settled \in SUBSET (Ids \X Nat)
  BY DEF IInv, Types
<1>2. \A i \in Ids : \A g \in Stages : failed[i][g] <= failed'[i][g]
  BY <1>1, DecompositionAssumption
<1>3. \A i \in Steps(t) : t[i].id \in Ids /\ t[i].text \in Nat
  BY StepsTyped
<1>4. settled \subseteq settled' /\ settled' \in SUBSET (Ids \X Nat)
  BY <1>1, <1>3 DEF Settle
<1>5. Sound(s, failed', settled', drawn')
  OBVIOUS
<1>. QED BY <1>1, <1>2, <1>4, <1>5, WriteKeeps

LEMMA ShowAnswerKeeps ==
  ASSUME IInv, NEW r \in Requests, ShowAnswer(r) PROVE IInv'
<1> DEFINE s == snap[r]
<1>1. /\ Sound(s, failed, settled, drawn) /\ s \in Session /\ s.stage \in Stages /\ Types
      /\ s.nodes \in [Ids -> StepNode \cup {NoStep}]
      /\ drawn' = drawn /\ drawn \in Nat /\ drawn \in 0..MaxIds
  BY Remembered DEF ShowAnswer, IInv, Types
<1>2. PICK i \in Stuck(s) :
        LET t == [s.nodes EXCEPT ![i] = [@ EXCEPT !.status = DoneStatus(s), !.revealed = TRUE]]
        IN Writes(r, [s EXCEPT !.nodes = t]) /\ Settle(t, {i})
  BY DEF ShowAnswer
<1> DEFINE n == [s.nodes[i] EXCEPT !.status = DoneStatus(s), !.revealed = TRUE]
           t == [s.nodes EXCEPT ![i] = n]
           u == [s EXCEPT !.nodes = [s.nodes EXCEPT ![i] = n]]
<1>3. /\ i \in Ids /\ i \in 1..drawn /\ i \in Steps(s.nodes) /\ s.nodes[i] \in StepNode
      /\ SoundStep(s.nodes[i], s.stage, failed, settled)
      /\ s.nodes[i].parent \in IdsOf(s.nodes) \cup {None}
      /\ failed[s.nodes[i].id][s.stage] >= RevealThreshold
  BY <1>2, StuckStep DEF ShowAnswer
<1>4. n = [s.nodes[i] EXCEPT !.status = DoneStatus(s), !.revealed = TRUE]
  OBVIOUS
<1>5. Writes(r, u) /\ Settle(t, {i}) /\ t = [s.nodes EXCEPT ![i] = n]
  BY <1>2
<1> HIDE DEF n
<1>6. /\ DoneStatus(s) \in StatusesOf(s.stage)
      /\ s.stage = "formation" => DoneStatus(s) \in Passing
  BY DEF DoneStatus, StatusesOf, FormationStatuses, ImplementationStatuses, Passing
<1>7. /\ n \in StepNode /\ n.id = s.nodes[i].id /\ n.parent = s.nodes[i].parent /\ n.status = DoneStatus(s)
      /\ n.text = s.nodes[i].text /\ n.attempts = s.nodes[i].attempts
  BY <1>3, <1>4, <1>6 DEF StepNode, StatusesOf
<1> HIDE DEF t
<1>8. t \in [Ids -> StepNode \cup {NoStep}] /\ t[i] = n /\ {i} \in SUBSET Steps(t)
  <2>1. t \in [Ids -> StepNode \cup {NoStep}] /\ t[i] = n
    BY <1>1, <1>3, <1>5, <1>7
  <2>2. n.status # "absent"
    BY <1>7 DEF StepNode, FormationStatuses, ImplementationStatuses
  <2>. QED BY <1>3, <2>1, <2>2 DEF Steps
<1>9. settled \subseteq settled' /\ (n.status \in Passing => <<n.id, n.text>> \in settled')
  BY <1>5, <1>8 DEF Settle
<1>10. SoundStep(n, s.stage, failed, settled')
  <2>1. n.status \in StatusesOf(s.stage) /\ (s.stage = "formation" => n.status \in Passing)
    BY <1>6, <1>7
  <2>2. s.stage = "implementation" => <<n.id, n.text>> \in settled'
    BY <1>3, <1>7, <1>9 DEF SoundStep
  <2>. QED BY <1>1, <1>3, <1>7, <1>9, <2>1, <2>2 DEF SoundStep, Stages
<1>11. Sound(s, failed, settled', drawn)
  <2>1. failed \in [Ids -> [Stages -> Nat]]
    BY <1>1, Bounds DEF Types
  <2>2. \A j \in Ids : \A g \in Stages : failed[j][g] <= failed[j][g]
    BY <2>1
  <2>3. drawn <= drawn
    BY <1>1
  <2>. QED BY <1>1, <1>9, <2>1, <2>2, <2>3, SoundStays
<1>12. Sound(u, failed, settled', drawn')
  <2>1. Sound(u, failed, settled', drawn)
    BY <1>3, <1>7, <1>10, <1>11, OneStep
  <2>. QED BY <1>1, <2>1
<1>13. drawn' \in 0..MaxIds /\ drawn <= drawn' /\ edits' \in Nat /\ typed' \in Nat /\ UNCHANGED failed
  BY <1>1 DEF ShowAnswer, Types
<1> HIDE DEF u
<1>. QED BY <1>5, <1>8, <1>12, <1>13, WriteSettles

LEMMA WithStatusShape ==
  ASSUME NEW f \in [Ids -> StepNode \cup {NoStep}], Closed(f),
         NEW st \in FormationStatuses \cup ImplementationStatuses
  PROVE  LET t == WithStatus(f, st)
         IN /\ t \in [Ids -> StepNode \cup {NoStep}] /\ Steps(t) = Steps(f) /\ Closed(t)
            /\ \A i \in Steps(f) : /\ t[i] \in StepNode /\ t[i].status = st
                                   /\ t[i].id = f[i].id /\ t[i].parent = f[i].parent /\ t[i].text = f[i].text
                                   /\ t[i].attempts = f[i].attempts /\ t[i].revealed = f[i].revealed
<1> DEFINE t == WithStatus(f, st)
<1>1. /\ t = [i \in Ids |-> t[i]]
      /\ \A i \in Steps(f) : i \in Ids /\ t[i] = [f[i] EXCEPT !.status = st]
      /\ \A i \in Ids : i \notin Steps(f) => t[i] = NoStep
  BY DEF WithStatus, Steps
<1>2. \A i \in Steps(f) : f[i] \in StepNode
  BY DEF Steps, NoStep
<1> HIDE DEF t
<1>3. ASSUME NEW i \in Steps(f)
      PROVE  /\ t[i] \in StepNode /\ t[i].status = st
             /\ t[i].id = f[i].id /\ t[i].parent = f[i].parent /\ t[i].text = f[i].text
             /\ t[i].attempts = f[i].attempts /\ t[i].revealed = f[i].revealed
  <2>1. t[i] = [f[i] EXCEPT !.status = st] /\ f[i] \in StepNode
    BY <1>1, <1>2
  <2>. QED BY <2>1 DEF StepNode
<1>4. t \in [Ids -> StepNode \cup {NoStep}]
  BY <1>1, <1>3 DEF Steps
<1>5. Steps(t) = Steps(f)
  <2>1. st # "absent" /\ NoStep.status = "absent"
    BY DEF FormationStatuses, ImplementationStatuses, NoStep
  <2>. QED BY <1>1, <1>3, <2>1 DEF Steps
<1>6. Closed(t)
  BY <1>3, <1>5, SameShape
<1>. QED BY <1>3, <1>4, <1>5, <1>6 DEF t

LEMMA AdoptTreeKeeps ==
  ASSUME IInv, NEW r \in Requests, AdoptTree(r) PROVE IInv'
<1> DEFINE s == snap[r]
           tree(f) == [k \in Ids |-> IF k \in Steps(f)
                                     THEN NewStep(f[k].id, f[k].parent, edits + 1, "correct") ELSE NoStep]
<1>1. /\ snap[r] # None /\ s \in Session /\ s.stage = "formation" /\ Types /\ drawn \in 0..MaxIds
      /\ edits + 1 \in Nat
  BY Remembered DEF AdoptTree, IInv, Types
<1>2. PICK n \in Sizes : \E f \in Trees[drawn][n] :
        Writes(r, [s EXCEPT !.nodes = tree(f)]) /\ drawn' = n /\ Settle(tree(f), Steps(tree(f)))
  BY DEF AdoptTree
<1>3. PICK f \in Trees[drawn][n] :
        Writes(r, [s EXCEPT !.nodes = tree(f)]) /\ drawn' = n /\ Settle(tree(f), Steps(tree(f)))
  BY <1>2
<1> DEFINE t == tree(f)
           u == [s EXCEPT !.nodes = t]
<1>4. Writes(r, u) /\ u = [s EXCEPT !.nodes = t] /\ Settle(t, Steps(t))
  BY <1>3
<1>11. n \in Ids /\ n \in 0..MaxIds /\ drawn <= n
  BY SizesBounded DEF IInv
<1>5. /\ f \in [Ids -> StepNode \cup {NoStep}] /\ Closed(f) /\ Steps(f) = (drawn + 1)..n
      /\ \A i \in Steps(f) : i \in Ids /\ f[i].id \in Ids /\ f[i].parent \in Ids \cup {None}
  BY <1>1, <1>11, TreeShape, StepsTyped
<1>12. ASSUME NEW i \in Steps(f)
       PROVE  /\ t[i] \in StepNode /\ t[i].id = f[i].id /\ t[i].parent = f[i].parent
              /\ t[i].status = "correct" /\ t[i].attempts = 0 /\ ~t[i].revealed
  <2> DEFINE h == f[i].id
             q == f[i].parent
             x == edits + 1
             m == [id |-> h, parent |-> q, text |-> x, status |-> "correct", attempts |-> 0, revealed |-> FALSE]
  <2>1. t[i] = NewStep(h, q, x, "correct")
    BY <1>5, <1>12
  <2>2. h \in Ids /\ q \in Ids \cup {None} /\ x \in Nat /\ "correct" \in FormationStatuses \cup ImplementationStatuses
    BY <1>1, <1>5, <1>12 DEF FormationStatuses
  <2> HIDE DEF t, h, q, x
  <2>3. /\ m \in StepNode /\ m.id = h /\ m.parent = q
        /\ m.status = "correct" /\ m.attempts = 0 /\ ~m.revealed
    BY <2>2 DEF StepNode
  <2>4. NewStep(h, q, x, "correct") = m
    BY DEF NewStep
  <2> HIDE DEF m
  <2>. QED BY <2>1, <2>3, <2>4 DEF h, q
<1>13. t = [k \in Ids |-> t[k]] /\ \A i \in Ids : i \notin Steps(f) => t[i] = NoStep
  OBVIOUS
<1> HIDE DEF t, u
<1>6. t \in [Ids -> StepNode \cup {NoStep}] /\ Steps(t) = Steps(f) /\ Closed(t)
  <2>1. t \in [Ids -> StepNode \cup {NoStep}]
    BY <1>12, <1>13
  <2>2. Steps(t) = Steps(f)
    <3>1. NoStep.status = "absent"
      BY DEF NoStep
    <3>. QED BY <1>5, <1>12, <1>13, <3>1 DEF Steps
  <2>. QED BY <1>5, <1>12, <2>1, <2>2, SameShape
<1>7. ASSUME NEW i \in Steps(t) PROVE SoundStep(t[i], s.stage, failed, settled')
  <2> DEFINE m == t[i]
  <2>0. /\ m.id \in Ids /\ m.status = "correct" /\ m.attempts = 0 /\ ~m.revealed
    BY <1>5, <1>6, <1>7, <1>12
  <2>1. failed[m.id]["formation"] \in Nat
    BY <1>1, <2>0, Bounds
  <2>2. m.status \in StatusesOf("formation") /\ m.status \in Passing
    BY <2>0 DEF StatusesOf, FormationStatuses, Passing
  <2>3. <<m.id, m.text>> \in settled'
    BY <1>4, <1>7, <2>2 DEF Settle
  <2> HIDE DEF m
  <2>4. SoundStep(m, "formation", failed, settled')
    BY <2>0, <2>1, <2>2, <2>3, NewSound
  <2>. QED BY <1>1, <2>4 DEF m
<1>8. u \in Session /\ u.nodes = t /\ u.stage = s.stage
  BY <1>1, <1>4, <1>6 DEF Session
<1>10. /\ drawn' = n /\ drawn' \in 0..MaxIds /\ drawn <= drawn' /\ edits' \in Nat /\ typed' \in Nat
       /\ UNCHANGED failed
  BY <1>1, <1>3, <1>11 DEF AdoptTree, Types
<1>9. Sound(u, failed, settled', drawn')
  <2>1. Steps(t) \subseteq 1..n
    BY <1>1, <1>5, <1>6
  <2>2. Sound(u, failed, settled', n)
    BY <1>1, <1>6, <1>7, <1>8, <2>1, OtherTree
  <2>. QED BY <1>10, <2>2
<1>. QED BY <1>4, <1>6, <1>9, <1>10, WriteSettles

LEMMA AdoptCodeKeeps ==
  ASSUME IInv, NEW r \in Requests, AdoptCode(r) PROVE IInv'
<1> DEFINE s == snap[r]
           t == WithStatus(s.nodes, "implemented")
           u == [s EXCEPT !.nodes = t, !.code = typed + 1]
<1>1. /\ Sound(s, failed, settled, drawn) /\ s \in Session /\ s.stage = "implementation" /\ Types /\ typed + 1 \in Nat
      /\ s.nodes \in [Ids -> StepNode \cup {NoStep}] /\ Closed(s.nodes)
      /\ Steps(s.nodes) \subseteq 1..drawn
      /\ \A i \in Steps(s.nodes) : SoundStep(s.nodes[i], s.stage, failed, settled)
  BY Remembered DEF AdoptCode, IInv, Types, Sound
<1>2. Writes(r, u) /\ u = [s EXCEPT !.nodes = t, !.code = typed + 1]
  BY DEF AdoptCode
<1>3. /\ t \in [Ids -> StepNode \cup {NoStep}] /\ Steps(t) = Steps(s.nodes) /\ Closed(t)
      /\ \A i \in Steps(s.nodes) : /\ t[i].status = "implemented" /\ t[i].id = s.nodes[i].id /\ t[i].text = s.nodes[i].text
                                   /\ t[i].attempts = s.nodes[i].attempts
                                   /\ t[i].revealed = s.nodes[i].revealed
  <2>1. "implemented" \in FormationStatuses \cup ImplementationStatuses
    BY DEF ImplementationStatuses
  <2> HIDE DEF t
  <2>. QED BY <1>1, <2>1, WithStatusShape DEF t
<1> HIDE DEF t, u
<1>4. ASSUME NEW i \in Steps(t) PROVE SoundStep(t[i], s.stage, failed, settled)
  <2>1. t[i].status \in StatusesOf("implementation")
    BY <1>3, <1>4 DEF StatusesOf, ImplementationStatuses
  <2>. QED BY <1>1, <1>3, <1>4, <2>1 DEF SoundStep
<1>5. u \in Session /\ u.nodes = t /\ u.stage = s.stage
  BY <1>1, <1>2, <1>3 DEF Session
<1>6. Sound(u, failed, settled, drawn)
  BY <1>1, <1>3, <1>4, <1>5, OtherTree
<1>7. drawn' = drawn /\ edits' \in Nat /\ typed' \in Nat /\ UNCHANGED <<settled, failed>>
  BY <1>1 DEF AdoptCode, Types
<1>. QED BY <1>2, <1>6, <1>7, WriteHere

LEMMA AdvanceStageKeeps ==
  ASSUME IInv, NEW r \in Requests, AdvanceStage(r) PROVE IInv'
<1> DEFINE s == snap[r]
           t == [i \in Ids |-> IF i \in Steps(s.nodes)
                               THEN NewStep(s.nodes[i].id, s.nodes[i].parent, s.nodes[i].text, "to_be_coded") ELSE NoStep]
           u == [s EXCEPT !.stage = "implementation", !.nodes = t]
<1>1. /\ s \in Session /\ s.stage = "formation" /\ Types /\ Closed(s.nodes) /\ Steps(s.nodes) \subseteq 1..drawn
      /\ s.nodes \in [Ids -> StepNode \cup {NoStep}]
      /\ \A i \in Steps(s.nodes) : /\ s.nodes[i] \in StepNode
                                   /\ SoundStep(s.nodes[i], s.stage, failed, settled)
  BY Remembered DEF AdvanceStage, IInv, Sound
<1>2. /\ Writes(r, u) /\ u = [s EXCEPT !.stage = "implementation", !.nodes = t]
      /\ \A i \in Steps(s.nodes) : s.nodes[i].status \in Passing
  BY DEF AdvanceStage
<1>3. ASSUME NEW i \in Steps(s.nodes)
      PROVE  /\ t[i] \in StepNode /\ t[i].id = s.nodes[i].id /\ t[i].parent = s.nodes[i].parent /\ t[i].text = s.nodes[i].text
             /\ t[i].status = "to_be_coded" /\ t[i].attempts = 0 /\ ~t[i].revealed
  <2>1. t[i] = NewStep(s.nodes[i].id, s.nodes[i].parent, s.nodes[i].text, "to_be_coded")
    BY <1>3 DEF Steps
  <2> DEFINE h == s.nodes[i].id
             p == s.nodes[i].parent
             x == s.nodes[i].text
             n == NewStep(h, p, x, "to_be_coded")
  <2>2. /\ h \in Ids /\ p \in Ids \cup {None} /\ x \in Nat
        /\ "to_be_coded" \in FormationStatuses \cup ImplementationStatuses
    BY <1>1, <1>3 DEF StepNode, ImplementationStatuses
  <2> HIDE DEF t, h, p, x
  <2>3. /\ n \in StepNode /\ n.id = h /\ n.parent = p /\ n.text = x
        /\ n.status = "to_be_coded" /\ n.attempts = 0 /\ ~n.revealed
    BY <2>2, NewStepTyped
  <2>. QED BY <2>1, <2>3 DEF h, p, x
<1>4. /\ t = [i \in Ids |-> t[i]]
      /\ \A i \in Ids : i \notin Steps(s.nodes) => t[i] = NoStep
  OBVIOUS
<1> HIDE DEF t, u
<1>5. t \in [Ids -> StepNode \cup {NoStep}]
  BY <1>3, <1>4 DEF Steps
<1>6. Steps(t) = Steps(s.nodes)
  <2>1. NoStep.status = "absent"
    BY DEF NoStep
  <2>. QED BY <1>3, <1>4, <2>1 DEF Steps
<1>7. Closed(t)
  BY <1>1, <1>3, <1>6, SameShape
<1>8. u \in Session /\ u.nodes = t /\ u.stage = "implementation"
  BY <1>1, <1>2, <1>5 DEF Session
<1>9. ASSUME NEW i \in Steps(t) PROVE SoundStep(t[i], u.stage, failed, settled)
  <2>1. failed[t[i].id]["implementation"] \in Nat
    BY <1>1, <1>3, <1>6, <1>9, Bounds DEF StepNode
  <2>2. t[i].status \in StatusesOf("implementation")
    BY <1>3, <1>6, <1>9 DEF StatusesOf, ImplementationStatuses
  <2>3. <<t[i].id, t[i].text>> \in settled
    BY <1>1, <1>2, <1>3, <1>6, <1>9 DEF SoundStep
  <2>4. t[i].attempts = 0 /\ ~t[i].revealed
    BY <1>3, <1>6, <1>9
  <2> DEFINE m == t[i]
  <2> HIDE DEF m
  <2>5. SoundStep(m, "implementation", failed, settled)
    BY <2>1, <2>2, <2>3, <2>4, NewSound DEF m
  <2>. QED BY <1>8, <2>5 DEF m
<1>10. Sound(u, failed, settled, drawn)
  BY <1>1, <1>6, <1>7, <1>8, <1>9 DEF Sound
<1>11. drawn' = drawn /\ edits' \in Nat /\ typed' \in Nat /\ UNCHANGED <<settled, failed>>
  BY <1>1 DEF AdvanceStage, Types
<1>. QED BY <1>2, <1>10, <1>11, WriteHere

(* What a verdict on the code does to a step. *)
LEMMA MatchedStep ==
  ASSUME NEW n \in StepNode, n.status \in ImplementationStatuses,
         NEW verdict \in ImplementationStatuses \cup {None}
  PROVE  LET m == Matched(n, verdict)
         IN /\ m \in StepNode /\ m.status \in ImplementationStatuses
            /\ m.id = n.id /\ m.parent = n.parent /\ m.text = n.text /\ m.revealed = n.revealed
            /\ \/ verdict = "incorrectly_implemented" /\ m.attempts = n.attempts + 1
               \/ m.attempts = 0 \/ m.attempts = n.attempts
<1> DEFINE m == Matched(n, verdict)
           at == CASE verdict = "implemented"             -> 0
                   [] verdict = "incorrectly_implemented" -> n.attempts + 1
                   [] verdict = "to_be_coded"             -> n.attempts
<1>1. CASE verdict = None
  <2>1. m = n
    BY <1>1 DEF Matched
  <2>. QED BY <2>1
<1>2. CASE verdict # None
  <2>1. verdict \in ImplementationStatuses
    BY <1>2
  <2>2. /\ at \in Nat
        /\ (verdict = "incorrectly_implemented" /\ at = n.attempts + 1) \/ at = 0 \/ at = n.attempts
    BY <2>1 DEF ImplementationStatuses, StepNode
  <2>3. m = [n EXCEPT !.status = verdict, !.attempts = at]
    BY <1>2 DEF Matched
  <2> HIDE DEF m, at
  <2>4. /\ m \in StepNode /\ m.status = verdict /\ m.attempts = at
        /\ m.id = n.id /\ m.parent = n.parent /\ m.text = n.text /\ m.revealed = n.revealed
    BY <2>1, <2>2, <2>3 DEF StepNode
  <2>. QED BY <2>1, <2>2, <2>4 DEF m
<1>. QED BY <1>1, <1>2

LEMMA CheckMatchKeeps ==
  ASSUME IInv, NEW r \in Requests, CheckMatch(r) PROVE IInv'
<1> DEFINE s == snap[r]
           tree(v) == [i \in Ids |-> IF i \in Steps(s.nodes) THEN Matched(s.nodes[i], v[s.nodes[i].id]) ELSE NoStep]
<1>1. /\ Sound(s, failed, settled, drawn) /\ s \in Session /\ s.stage = "implementation" /\ Types
      /\ s.nodes \in [Ids -> StepNode \cup {NoStep}] /\ s.matchChecks + 1 \in Nat
      /\ \A i \in Steps(s.nodes) : s.nodes[i] \in StepNode
  BY Remembered DEF CheckMatch, IInv, Session
<1>2. PICK v \in [IdsOf(s.nodes) -> ImplementationStatuses \cup {None}] :
        /\ Writes(r, [s EXCEPT !.matchChecks = @ + 1, !.nodes = tree(v)])
        /\ Fail("implementation", {i \in IdsOf(s.nodes) : v[i] = "incorrectly_implemented"})
  BY DEF CheckMatch
<1> DEFINE t == tree(v)
           u == [s EXCEPT !.matchChecks = @ + 1, !.nodes = t]
           bad == {i \in IdsOf(s.nodes) : v[i] = "incorrectly_implemented"}
<1>3. /\ Writes(r, u) /\ u = [s EXCEPT !.matchChecks = @ + 1, !.nodes = t]
      /\ Fail("implementation", bad)
  BY <1>2
<1>4. /\ t = [i \in Ids |-> t[i]]
      /\ \A i \in Ids : i \notin Steps(s.nodes) => t[i] = NoStep
  OBVIOUS
<1>5. ASSUME NEW i \in Steps(s.nodes)
      PROVE  /\ i \in Ids /\ t[i] \in StepNode /\ t[i].status \in ImplementationStatuses
             /\ t[i].id = s.nodes[i].id /\ t[i].parent = s.nodes[i].parent
             /\ t[i].text = s.nodes[i].text /\ t[i].revealed = s.nodes[i].revealed
             /\ \/ v[s.nodes[i].id] = "incorrectly_implemented" /\ t[i].attempts = s.nodes[i].attempts + 1
                \/ t[i].attempts = 0 \/ t[i].attempts = s.nodes[i].attempts
  <2>1. i \in Ids /\ t[i] = Matched(s.nodes[i], v[s.nodes[i].id])
    BY DEF Steps
  <2>2. s.nodes[i] \in StepNode /\ s.nodes[i].status \in ImplementationStatuses
    BY <1>1 DEF Sound, SoundStep, StatusesOf
  <2>3. v[s.nodes[i].id] \in ImplementationStatuses \cup {None}
    BY <1>2 DEF IdsOf
  <2> HIDE DEF t
  <2>. QED BY <2>1, <2>2, <2>3, MatchedStep
<1>6. \A i \in IdsOf(s.nodes) : v[i] = "incorrectly_implemented" => i \in bad
  OBVIOUS
<1> HIDE DEF t, u, bad
<1>7. t \in [Ids -> StepNode \cup {NoStep}] /\ Steps(t) = Steps(s.nodes)
  <2>1. t \in [Ids -> StepNode \cup {NoStep}]
    BY <1>4, <1>5 DEF Steps
  <2>2. \A i \in Steps(s.nodes) : t[i].status # "absent"
    BY <1>5 DEF ImplementationStatuses
  <2>3. NoStep.status = "absent"
    BY DEF NoStep
  <2>. QED BY <1>4, <2>1, <2>2, <2>3 DEF Steps
<1>8. Closed(t)
  BY <1>1, <1>5, <1>7, SameShape DEF Sound
<1>9. u \in Session /\ u.nodes = t /\ u.stage = s.stage
  BY <1>1, <1>3, <1>7 DEF Session
<1>10. /\ failed' \in [Ids -> [Stages -> 0..RevealThreshold]]
       /\ \A i \in Ids : \A h \in Stages : failed[i][h] <= failed'[i][h]
       /\ \A i \in bad \cap Ids : \/ failed'[i]["implementation"] = failed[i]["implementation"] + 1
                                  \/ failed'[i]["implementation"] >= RevealThreshold
  BY <1>1, <1>3, Bounds, FailCounts
<1>11. settled' = settled /\ settled \in SUBSET (Ids \X Nat)
  BY <1>1 DEF CheckMatch, Types
<1>12. ASSUME NEW i \in Steps(t) PROVE SoundStep(t[i], s.stage, failed', settled')
  <2> DEFINE n == s.nodes[i]
             m == t[i]
             h == n.id
             f == failed[h]["implementation"]
             f2 == failed'[h]["implementation"]
  <2>1. /\ i \in Ids /\ h \in Ids /\ n \in StepNode /\ SoundStep(n, "implementation", failed, settled)
    BY <1>1, <1>7, <1>12 DEF Sound, Steps, StepNode
  <2>2. f \in Nat /\ f2 \in Nat /\ f <= f2 /\ f2 <= RevealThreshold /\ RevealThreshold \in Nat
    <3>1. failed'[h] \in [Stages -> 0..RevealThreshold] /\ f \in Nat /\ RevealThreshold \in Nat
      BY <1>1, <1>10, <2>1, Bounds
    <3>2. f2 \in 0..RevealThreshold /\ f <= f2
      BY <1>10, <2>1, <3>1, Bounds
    <3>. QED BY <3>1, <3>2
  <2>3. /\ m.status \in ImplementationStatuses /\ m.revealed = n.revealed /\ m.text = n.text /\ m.id = h
        /\ \/ v[h] = "incorrectly_implemented" /\ m.attempts = n.attempts + 1
           \/ m.attempts = 0 \/ m.attempts = n.attempts
    BY <1>5, <1>7, <1>12
  <2>4. n.attempts \in Nat /\ (n.attempts <= f \/ f >= RevealThreshold) /\ (n.revealed => f >= RevealThreshold)
    BY <2>1 DEF SoundStep, StepNode
  <2>5. v[h] = "incorrectly_implemented" => f2 = f + 1 \/ f2 >= RevealThreshold
    BY <1>6, <1>7, <1>10, <1>12, <2>1 DEF IdsOf
  <2>6. <<h, n.text>> \in settled'
    BY <1>11, <2>1 DEF SoundStep
  <2> HIDE DEF n, m, f, f2, h
  <2>7. m.attempts <= f2 \/ f2 >= RevealThreshold
    BY <2>2, <2>3, <2>4, <2>5
  <2>8. m.revealed => f2 >= RevealThreshold
    BY <2>2, <2>3, <2>4
  <2>9. m.status \in StatusesOf("implementation")
    BY <2>3 DEF StatusesOf
  <2>10. SoundStep(m, "implementation", failed', settled')
    BY <2>3, <2>6, <2>7, <2>8, <2>9 DEF SoundStep, f2
  <2>. QED BY <1>1, <2>10 DEF m
<1>13. Sound(u, failed', settled', drawn')
  <2>1. Steps(t) \subseteq 1..drawn' /\ drawn' = drawn
    BY <1>1, <1>7 DEF Sound, CheckMatch
  <2>. QED BY <1>1, <1>7, <1>8, <1>9, <1>12, <2>1, OtherTree
<1>14. drawn' \in 0..MaxIds /\ drawn <= drawn' /\ edits' \in Nat /\ typed' \in Nat
  BY <1>1, Bounds DEF CheckMatch, Types
<1>. QED BY <1>3, <1>10, <1>11, <1>13, <1>14, WriteKeeps
-----------------------------------------------------------------------------
(* Steps that leave the session alone. *)
LEMMA QuietKeeps ==
  ASSUME IInv, NEW r \in Requests, Load(r) \/ Complete(r) \/ Refuse(r) \/ UNCHANGED vars PROVE IInv'
<1>1. UNCHANGED <<session, drawn, settled, failed, edits, typed>>
  BY DEF Load, Complete, Refuse, vars
<1>2. session \in Session /\ Types
  BY DEF IInv, Sound
<1>3. /\ \/ snap' = snap
         \/ snap' = [snap EXCEPT ![r] = None]
         \/ snap' = [snap EXCEPT ![r] = session]
      /\ status' \in {"IN_PROGRESS", "COMPLETED"} /\ overlap' \in BOOLEAN /\ loads' \in Nat
  <2>1. CASE Load(r)
    <3>1. (overlap \/ \E q \in Requests : snap[q] # None) \in BOOLEAN
      BY Zenon
    <3>2. overlap' \in BOOLEAN
      BY <2>1, <3>1, Zenon DEF Load
    <3>3. snap' = [snap EXCEPT ![r] = session] /\ status' = status /\ loads' = loads + 1
      BY <2>1 DEF Load
    <3>. QED BY <1>2, <3>2, <3>3 DEF Types
  <2>2. CASE Complete(r) \/ Refuse(r) \/ UNCHANGED vars
    <3>1. overlap' = overlap /\ loads' = loads
      BY <2>2 DEF Complete, Refuse, Ends, vars
    <3>2. overlap' \in BOOLEAN
      BY <1>2, <3>1, Zenon DEF Types
    <3>3. /\ snap' = snap \/ snap' = [snap EXCEPT ![r] = None]
          /\ status' = status \/ status' = "COMPLETED"
      BY <2>2 DEF Complete, Refuse, Ends, vars
    <3>. QED BY <1>2, <3>1, <3>2, <3>3 DEF Types
  <2>. QED BY <2>1, <2>2
<1>4. Types'
  BY <1>1, <1>2, <1>3 DEF Types
<1>5. \A q \in Requests : snap'[q] # None => Sound(snap'[q], failed, settled, drawn)
  BY <1>2, <1>3 DEF IInv, Types
<1>. QED BY <1>1, <1>4, <1>5 DEF IInv

LEMMA InitSound == Init => IInv
<1> SUFFICES ASSUME Init PROVE IInv
  OBVIOUS
<1>1. session.nodes = [i \in Ids |-> NoStep] /\ session.stage = "formation"
  BY DEF Init
<1>2. session \in Session
  BY DEF Init, Session
<1>3. Steps(session.nodes) = {}
  BY <1>1 DEF Steps, NoStep
<1>4. Sound(session, failed, settled, drawn)
  BY <1>2, <1>3 DEF Sound, Closed
<1>5. Types
  <2>1. 0 \in 0..RevealThreshold /\ 0 \in 0..MaxIds
    BY Bounds
  <2>. QED BY <2>1 DEF Init, Types, Stages
<1>6. \A r \in Requests : snap[r] = None
  BY DEF Init
<1>. QED BY <1>4, <1>5, <1>6 DEF IInv

LEMMA StepSound == IInv /\ [Next]_vars => IInv'
<1> SUFFICES ASSUME IInv, [Next]_vars PROVE IInv'
  OBVIOUS
<1>1. CASE UNCHANGED vars
  <2>1. CASE Requests = {}
    BY <1>1, <2>1 DEF IInv, Types, vars
  <2>2. CASE Requests # {}
    BY <1>1, <2>2, QuietKeeps
  <2>. QED BY <2>1, <2>2
<1>2. ASSUME NEW r \in Requests, Load(r) \/ Handler(r) PROVE IInv'
  <2>1. CASE Load(r) \/ Complete(r) \/ Refuse(r)
    BY <2>1, QuietKeeps
  <2>2. CASE InferTree(r) \/ CheckTree(r)
    BY <2>2, InferTreeKeeps, CheckTreeKeeps
  <2>3. CASE AddNode(r) \/ EditNode(r) \/ DeleteNode(r)
    BY <2>3, AddNodeKeeps, EditNodeKeeps, DeleteNodeKeeps
  <2>4. CASE Reorder(r) \/ GetNodeHint(r) \/ CopyToComments(r)
    BY <2>4, ReorderKeeps, SameKeeps
  <2>5. CASE RevealNode(r) \/ ShowAnswer(r)
    BY <2>5, RevealNodeKeeps, ShowAnswerKeeps
  <2>6. CASE AdoptTree(r) \/ AdoptCode(r)
    BY <2>6, AdoptTreeKeeps, AdoptCodeKeeps
  <2>7. CASE AdvanceStage(r) \/ SyncCode(r) \/ CheckMatch(r)
    BY <2>7, AdvanceStageKeeps, SyncCodeKeeps, CheckMatchKeeps
  <2>. QED BY <1>2, <2>1, <2>2, <2>3, <2>4, <2>5, <2>6, <2>7 DEF Handler
<1>. QED BY <1>1, <1>2 DEF Next

(* The stored session and those that requests remember are sound always.   *)
THEOREM Invariance == Spec => []IInv
BY InitSound, StepSound, PTL DEF Spec
-----------------------------------------------------------------------------
(* The session is well typed and a step's status is one of its session's   *)
(* stage, in the row and in what every request remembers of it.            *)
THEOREM TypeCorrect == Spec => []TypeOK
<1>1. IInv => TypeOK
  <2> SUFFICES ASSUME IInv PROVE TypeOK
    OBVIOUS
  <2>1. session \in Session /\ Types
    BY DEF IInv, Sound
  <2>2. ASSUME NEW s \in Versions, NEW i \in Steps(s.nodes) PROVE s.nodes[i].status \in StatusesOf(s.stage)
    <3>1. Sound(s, failed, settled, drawn)
      BY DEF Versions, IInv
    <3>. QED BY <3>1 DEF Sound, SoundStep
  <2>. QED BY <2>1, <2>2 DEF TypeOK, Types, Stages
<1>. QED BY <1>1, Invariance, PTL

(* The parent of every step of the stored tree is a step of the tree,      *)
(* however mutateNode() and the slow handlers overwrite one another.       *)
THEOREM TreeClosedAlways == Spec => []TreeClosed
<1>1. IInv => TreeClosed
  BY DEF IInv, Sound, Closed, TreeClosed
<1>. QED BY <1>1, Invariance, PTL

(* revealNode() and showAnswer() help only with a step that failed enough  *)
(* checks of the stage it is in.                                           *)
THEOREM HelpEarnedAlways == Spec => []HelpEarned
<1>1. IInv => HelpEarned
  BY DEF IInv, Sound, SoundStep, HelpEarned
<1>. QED BY <1>1, Invariance, PTL

(* A step passes only with the text that was judged, adopted or shown.     *)
THEOREM TextJudgedAlways == Spec => []TextJudged
<1>1. IInv => TextJudged
  BY DEF IInv, Sound, SoundStep, TextJudged
<1>. QED BY <1>1, Invariance, PTL
-----------------------------------------------------------------------------
(* While no two requests overlap, the one there is has read the session as *)
(* it is, and with it the code last sent.                                  *)
Calm == ~overlap => /\ session.code = typed
                    /\ \A r, q \in Requests : snap[r] # None /\ snap[q] # None => r = q
                    /\ \A r \in Requests : snap[r] # None => snap[r] = session

(* What a handler does to the code.                                        *)
CodeIn(s, r) == \/ s.code = snap[r].code /\ typed' = typed
                \/ s.code = typed + 1 /\ typed' = typed + 1

(* What it does to the stage and the counts.                               *)
Onward(s, u) == /\ s.stage = u.stage \/ s.stage = "implementation"
                /\ s.formationChecks \in {u.formationChecks, u.formationChecks + 1}
                /\ s.inferTrees \in {u.inferTrees, u.inferTrees + 1}
                /\ s.matchChecks \in {u.matchChecks, u.matchChecks + 1}

Moved(s, r) == CodeIn(s, r) /\ Onward(s, snap[r])

LEMMA WriteCalm ==
  ASSUME IInv, Calm, NEW r \in Requests, NEW s, Writes(r, s), Moved(s, r)
  PROVE  Calm'
<1>1. /\ snap[r] # None /\ snap' = [snap EXCEPT ![r] = None] /\ session' = s /\ overlap' = overlap
      /\ snap \in [Requests -> Session \cup {None}]
  BY DEF Writes, Ends, IInv, Types
<1>2. ASSUME ~overlap
      PROVE  s.code = typed' /\ \A q \in Requests : snap'[q] = None
  <2>1. snap[r].code = typed /\ \A q \in Requests : snap[q] # None => q = r
    BY <1>1, <1>2 DEF Calm
  <2>. QED BY <1>1, <2>1 DEF Moved, CodeIn
<1>. QED BY <1>1, <1>2 DEF Calm

(* The fields that an update of some others leaves alone.                  *)
Alike(s, u) == /\ s.stage = u.stage /\ s.formationChecks = u.formationChecks
               /\ s.inferTrees = u.inferTrees /\ s.matchChecks = u.matchChecks

LEMMA FieldKept ==
  ASSUME NEW s \in Session
  PROVE  /\ \A t : LET v == [s EXCEPT !.nodes = t] IN v.code = s.code /\ Alike(v, s)
         /\ \A t, c : LET v == [s EXCEPT !.nodes = t, !.code = c] IN v.code = c /\ Alike(v, s)
         /\ \A c : LET v == [s EXCEPT !.code = c] IN v.code = c /\ Alike(v, s)
BY DEF Session, Alike

(* Handlers that ask the model.                                            *)
LEMMA AskingCode ==
  ASSUME IInv, NEW r \in Requests, InferTree(r) \/ CheckTree(r) \/ CheckMatch(r)
  PROVE  \E s : Writes(r, s) /\ Moved(s, r)
<1> DEFINE u == snap[r]
<1>1. u \in Session
  BY Remembered DEF InferTree, CheckTree, CheckMatch
<1>2. CASE InferTree(r)
  <2>1. PICK n \in Sizes : \E t \in Inferred(drawn, n) :
          Writes(r, [u EXCEPT !.nodes = t, !.code = typed + 1, !.inferTrees = @ + 1])
    BY <1>2 DEF InferTree
  <2>2. PICK t \in Inferred(drawn, n) :
          Writes(r, [u EXCEPT !.nodes = t, !.code = typed + 1, !.inferTrees = @ + 1])
    BY <2>1
  <2>3. typed' = typed + 1
    BY <1>2 DEF InferTree
  <2> HIDE DEF u
  <2>4. [u EXCEPT !.nodes = t, !.code = typed + 1, !.inferTrees = @ + 1].code = typed + 1
    BY <1>1 DEF Session
  <2>5. Onward([u EXCEPT !.nodes = t, !.code = typed + 1, !.inferTrees = @ + 1], u)
    BY <1>1 DEF Session, Onward
  <2>. QED BY <2>2, <2>3, <2>4, <2>5 DEF Moved, CodeIn, u
<1>3. CASE CheckTree(r)
  <2>1. PICK v \in [IdsOf(u.nodes) -> {"correct", "incorrect", "can_be_divided", None}] :
          Writes(r, [u EXCEPT !.nodes = [i \in Ids |-> IF i \in Steps(u.nodes)
                                                       THEN Judged(u.nodes[i], v[u.nodes[i].id]) ELSE NoStep],
                              !.formationChecks = @ + 1])
    BY <1>3 DEF CheckTree
  <2> DEFINE t == [i \in Ids |-> IF i \in Steps(u.nodes) THEN Judged(u.nodes[i], v[u.nodes[i].id]) ELSE NoStep]
  <2>2. typed' = typed
    BY <1>3 DEF CheckTree
  <2>3. Writes(r, [u EXCEPT !.nodes = t, !.formationChecks = @ + 1])
    BY <2>1
  <2> HIDE DEF u, t
  <2>4. [u EXCEPT !.nodes = t, !.formationChecks = @ + 1].code = u.code
    BY <1>1 DEF Session
  <2>5. Onward([u EXCEPT !.nodes = t, !.formationChecks = @ + 1], u)
    BY <1>1 DEF Session, Onward
  <2>. QED BY <2>2, <2>3, <2>4, <2>5 DEF Moved, CodeIn, u
<1>4. CASE CheckMatch(r)
  <2>1. PICK v \in [IdsOf(u.nodes) -> ImplementationStatuses \cup {None}] :
          Writes(r, [u EXCEPT !.matchChecks = @ + 1,
                              !.nodes = [i \in Ids |-> IF i \in Steps(u.nodes)
                                                       THEN Matched(@[i], v[@[i].id]) ELSE NoStep]])
    BY <1>4 DEF CheckMatch
  <2> DEFINE t == [i \in Ids |-> IF i \in Steps(u.nodes) THEN Matched(u.nodes[i], v[u.nodes[i].id]) ELSE NoStep]
  <2>2. typed' = typed
    BY <1>4 DEF CheckMatch
  <2>3. Writes(r, [u EXCEPT !.matchChecks = @ + 1, !.nodes = t])
    BY <2>1
  <2> HIDE DEF u, t
  <2>4. [u EXCEPT !.matchChecks = @ + 1, !.nodes = t].code = u.code
    BY <1>1 DEF Session
  <2>5. Onward([u EXCEPT !.matchChecks = @ + 1, !.nodes = t], u)
    BY <1>1 DEF Session, Onward
  <2>. QED BY <2>2, <2>3, <2>4, <2>5 DEF Moved, CodeIn, u
<1>. QED BY <1>2, <1>3, <1>4

(* mutateNode().                                                           *)
LEMMA MutatingCode ==
  ASSUME IInv, NEW r \in Requests, AddNode(r) \/ EditNode(r) \/ DeleteNode(r) \/ Reorder(r)
  PROVE  \E s : Writes(r, s) /\ Moved(s, r)
<1> DEFINE u == snap[r]
<1>1. u \in Session /\ typed' = typed
  BY Remembered DEF AddNode, EditNode, DeleteNode, Reorder
<1>2. \E t : Writes(r, [u EXCEPT !.nodes = t])
  <2>1. CASE AddNode(r)
    <3>1. PICK p \in IdsOf(u.nodes) \cup {None}, i \in {drawn + 1} \cap Ids :
            Writes(r, [u EXCEPT !.nodes[i] = NewStep(i, p, 0, "pending")])
      BY <2>1 DEF AddNode
    <3>2. Writes(r, [u EXCEPT !.nodes = [@ EXCEPT ![i] = NewStep(i, p, 0, "pending")]])
      BY <3>1
    <3>. QED BY <3>2
  <2>2. CASE EditNode(r)
    <3>1. PICK i \in Firsts(u.nodes) :
            Writes(r, [u EXCEPT !.nodes[i] = [@ EXCEPT !.text = edits + 1, !.status = "pending"]])
      BY <2>2 DEF EditNode
    <3> DEFINE n == [u.nodes[i] EXCEPT !.text = edits + 1, !.status = "pending"]
    <3>2. Writes(r, [u EXCEPT !.nodes[i] = n])
      BY <3>1
    <3> HIDE DEF n
    <3>3. Writes(r, [u EXCEPT !.nodes = [u.nodes EXCEPT ![i] = n]])
      BY <3>2
    <3>. QED BY <3>3
  <2>3. CASE DeleteNode(r)
    BY <2>3 DEF DeleteNode
  <2>4. CASE Reorder(r)
    <3>1. PICK j, k : Writes(r, [u EXCEPT !.nodes[j] = u.nodes[k]])
      BY <2>4 DEF Reorder
    <3> DEFINE n == u.nodes[k]
    <3>2. Writes(r, [u EXCEPT !.nodes[j] = n])
      BY <3>1
    <3> HIDE DEF n
    <3>3. Writes(r, [u EXCEPT !.nodes = [u.nodes EXCEPT ![j] = n]])
      BY <3>2
    <3>. QED BY <3>3
  <2>. QED BY <2>1, <2>2, <2>3, <2>4
<1> HIDE DEF u
<1>3. \A t : [u EXCEPT !.nodes = t].code = u.code /\ Alike([u EXCEPT !.nodes = t], u)
  BY <1>1, FieldKept
<1>. QED BY <1>1, <1>2, <1>3 DEF Moved, CodeIn, Onward, Alike, u

(* Help, and the answer of a preview.                                      *)
LEMMA HelpingCode ==
  ASSUME IInv, NEW r \in Requests, RevealNode(r) \/ ShowAnswer(r) \/ AdoptTree(r) \/ AdoptCode(r)
  PROVE  \E s : Writes(r, s) /\ Moved(s, r)
<1> DEFINE u == snap[r]
<1>1. u \in Session
  BY Remembered DEF RevealNode, ShowAnswer, AdoptTree, AdoptCode
<1>2. CASE AdoptCode(r)
  <2>1. Writes(r, [u EXCEPT !.nodes = WithStatus(u.nodes, "implemented"), !.code = typed + 1])
        /\ typed' = typed + 1
    BY <1>2 DEF AdoptCode
  <2> HIDE DEF u
  <2>2. \A t : LET v == [u EXCEPT !.nodes = t, !.code = typed + 1]
              IN v.code = typed + 1 /\ Alike(v, u)
    BY <1>1, FieldKept
  <2>. QED BY <2>1, <2>2 DEF Moved, CodeIn, Onward, Alike, u
<1>3. CASE RevealNode(r) \/ ShowAnswer(r) \/ AdoptTree(r)
  <2>1. typed' = typed
    BY <1>3 DEF RevealNode, ShowAnswer, AdoptTree
  <2>2. \E t : Writes(r, [u EXCEPT !.nodes = t])
    BY <1>3 DEF RevealNode, ShowAnswer, AdoptTree
  <2> HIDE DEF u
  <2>3. \A t : [u EXCEPT !.nodes = t].code = u.code /\ Alike([u EXCEPT !.nodes = t], u)
    BY <1>1, FieldKept
  <2>. QED BY <2>1, <2>2, <2>3 DEF Moved, CodeIn, Onward, Alike, u
<1>. QED BY <1>2, <1>3

(* The handlers that change little or nothing, and the next stage.         *)
LEMMA OtherCode ==
  ASSUME IInv, NEW r \in Requests,
         GetNodeHint(r) \/ CopyToComments(r) \/ AdvanceStage(r) \/ SyncCode(r)
  PROVE  \E s : Writes(r, s) /\ Moved(s, r)
<1> DEFINE u == snap[r]
<1>1. u \in Session
  BY Remembered DEF GetNodeHint, CopyToComments, AdvanceStage, SyncCode
<1>2. CASE GetNodeHint(r) \/ CopyToComments(r)
  BY <1>2 DEF GetNodeHint, CopyToComments, Moved, CodeIn, Onward
<1>3. CASE AdvanceStage(r)
  <2>1. \E t : Writes(r, [u EXCEPT !.stage = "implementation", !.nodes = t])
    BY <1>3 DEF AdvanceStage
  <2>2. typed' = typed
    BY <1>3 DEF AdvanceStage
  <2> HIDE DEF u
  <2>3. \A t : LET v == [u EXCEPT !.stage = "implementation", !.nodes = t]
              IN v.code = u.code /\ Onward(v, u)
    BY <1>1 DEF Session, Onward
  <2>. QED BY <2>1, <2>2, <2>3 DEF Moved, CodeIn, Onward, Alike, u
<1>4. CASE SyncCode(r)
  <2>1. Writes(r, [u EXCEPT !.code = typed + 1]) /\ typed' = typed + 1
    BY <1>4 DEF SyncCode
  <2> HIDE DEF u
  <2>2. [u EXCEPT !.code = typed + 1].code = typed + 1 /\ Alike([u EXCEPT !.code = typed + 1], u)
    BY <1>1, FieldKept
  <2>. QED BY <2>1, <2>2 DEF Moved, CodeIn, Onward, Alike, u
<1>. QED BY <1>2, <1>3, <1>4

LEMMA StepCalm == ASSUME IInv, Calm, [Next]_vars PROVE Calm'
<1>1. CASE UNCHANGED vars
  BY <1>1 DEF vars, Calm
<1>2. ASSUME NEW r \in Requests, Load(r) PROVE Calm'
  <2>1. /\ snap' = [snap EXCEPT ![r] = session] /\ UNCHANGED <<session, typed>>
        /\ snap \in [Requests -> Session \cup {None}]
        /\ ~overlap' => ~overlap /\ \A q \in Requests : snap[q] = None
    BY <1>2 DEF Load, IInv, Types
  <2>. QED BY <2>1 DEF Calm
<1>3. ASSUME NEW r \in Requests, Complete(r) \/ Refuse(r) PROVE Calm'
  <2>1. snap' = [snap EXCEPT ![r] = None] /\ UNCHANGED <<session, typed, overlap>>
        /\ snap \in [Requests -> Session \cup {None}]
    BY <1>3 DEF Complete, Refuse, Ends, IInv, Types
  <2>. QED BY <2>1 DEF Calm
<1>4. ASSUME NEW r \in Requests, NEW s, Writes(r, s), Moved(s, r) PROVE Calm'
  BY <1>4, WriteCalm
<1>. QED BY <1>1, <1>2, <1>3, <1>4, AskingCode, MutatingCode, HelpingCode, OtherCode DEF Next, Handler

(* The code is the last one sent, by the editor, an inferred tree or an    *)
(* adopted answer, while no two requests overlap.                          *)
THEOREM CodeKeptAlways == Spec => []CodeKept
<1>1. Init => Calm
  BY DEF Init, Calm
<1>2. IInv /\ Calm /\ [Next]_vars => Calm'
  BY StepCalm
<1>3. Calm => CodeKept
  BY DEF Calm, CodeKept, CodeFresh
<1>. QED BY <1>1, <1>2, <1>3, Invariance, PTL DEF Spec

LEMMA StepOnward ==
  ASSUME IInv, Calm, [Next]_vars, ~overlap'
  PROVE  session' = session \/ Onward(session', session)
<1>1. ASSUME NEW r \in Requests, NEW s, Writes(r, s), Moved(s, r) PROVE Onward(session', session)
  <2>1. snap[r] # None /\ overlap' = overlap /\ session' = s
    BY <1>1 DEF Writes, Ends
  <2>2. snap[r] = session
    BY <2>1 DEF Calm
  <2>. QED BY <1>1, <2>1, <2>2 DEF Moved
<1>2. ASSUME NEW r \in Requests, Load(r) \/ Complete(r) \/ Refuse(r) PROVE session' = session
  BY <1>2 DEF Load, Complete, Refuse
<1>3. CASE UNCHANGED vars
  BY <1>3 DEF vars
<1>. QED BY <1>1, <1>2, <1>3, AskingCode, MutatingCode, HelpingCode, OtherCode DEF Next, Handler

(* While no two requests overlap, the stage that has been reached and the  *)
(* checks and trees that have been counted stay.                           *)
THEOREM NothingUndoneAlways == Spec => NothingUndone
<1>1. Init => IInv /\ Calm
  BY InitSound DEF Init, Calm
<1>2. (IInv /\ Calm) /\ [Next]_vars => (IInv /\ Calm)'
  BY StepSound, StepCalm
<1>3. IInv /\ Calm /\ [Next]_vars =>
        [~overlap' =>
           /\ session.stage = "implementation" => session'.stage = "implementation"
           /\ session.formationChecks <= session'.formationChecks
           /\ session.inferTrees <= session'.inferTrees
           /\ session.matchChecks <= session'.matchChecks]_vars
  <2> SUFFICES ASSUME IInv, Calm, [Next]_vars, ~overlap'
               PROVE  /\ session.stage = "implementation" => session'.stage = "implementation"
                      /\ session.formationChecks <= session'.formationChecks
                      /\ session.inferTrees <= session'.inferTrees
                      /\ session.matchChecks <= session'.matchChecks
    OBVIOUS
  <2>1. /\ session.formationChecks \in Nat
        /\ session.inferTrees \in Nat /\ session.matchChecks \in Nat
    BY DEF IInv, Sound, Session
  <2>. QED BY <2>1, StepOnward DEF Onward
<1>. QED BY <1>1, <1>2, <1>3, PTL DEF Spec, NothingUndone
=============================================================================
