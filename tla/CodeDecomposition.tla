------------------------- MODULE CodeDecomposition -------------------------
(***************************************************************************)
(* A student's guided decomposition of a programming problem: first the    *)
(* tree of steps (stage formation), then the code for it (implementation). *)
(* The whole session is one JSON value of one row.  Every handler reads    *)
(* the row, decides and often asks the model about what it read, and       *)
(* writes the whole value back, so requests that overlap replace each      *)
(* other's work.                                                           *)
(*                                                                         *)
(* A handler is Load followed by one of the actions below or by Refuse.    *)
(* Steps are numbered in the order in which they are made, which is their  *)
(* order in the session's array.  A step's id is its number when the code  *)
(* draws a random one; a tree that the model or the client sends may       *)
(* repeat ids, the client's also earlier ones, and have any parents.       *)
(* A text is 0 until it is edited or adopted and then the number of that   *)
(* edit, and so is the code.  Left out: problem, inputMode, order,         *)
(* feedback, the wording of hints, the lines that codeMapping points to,   *)
(* the comments that copyToComments() puts above the code.                 *)
(***************************************************************************)
EXTENDS Integers, FiniteSets

CONSTANTS MaxIds,    \* bound of the model: steps made in a behaviour
          MaxTreeSize, \* bound of the model: steps of a tree that is inferred or adopted
          Requests,  \* executions of API requests
          None,      \* no step, no snapshot
          MaxTreeDepth, MaxFormationChecks, MaxInferTreeCalls, MaxMatchChecks,
          RevealThreshold,
          MaxRequests  \* bound of the model: requests in a behaviour

ASSUME DecompositionAssumption ==
  /\ None \notin Nat
  /\ RevealThreshold \in Nat \ {0}
  /\ {MaxTreeDepth, MaxFormationChecks, MaxInferTreeCalls, MaxMatchChecks,
      MaxIds, MaxTreeSize, MaxRequests} \subseteq Nat

VARIABLES session,  \* learning_interventions.sessionData
          status,   \* learning_interventions.status
          snap,     \* the session each request has read
          drawn,    \* steps made so far
          settled,  \* history: texts that a check, a shown answer or an adopted tree let pass
          failed,   \* history: checks a step has failed in each stage, up to RevealThreshold
          edits,    \* history: edits of a text and adopted trees so far
          typed,    \* history: versions of the code sent so far
          overlap,  \* history: two requests have overlapped
          loads     \* requests so far

vars == <<session, status, snap, drawn, settled, failed, edits, typed, overlap, loads>>
-----------------------------------------------------------------------------
Ids == 1..MaxIds

FormationStatuses == {"pending", "correct", "incorrect", "can_be_divided", "system_generated"}
ImplementationStatuses == {"to_be_coded", "implemented", "incorrectly_implemented"}
Passing == {"correct", "can_be_divided"}

NoStep == [id |-> None, parent |-> None, text |-> 0, status |-> "absent",
           attempts |-> 0, revealed |-> FALSE]

StepNode == [id       : Ids,
             parent   : Ids \cup {None},
             text     : Nat,
             status   : FormationStatuses \cup ImplementationStatuses,
             attempts : Nat,
             revealed : BOOLEAN]

Session == [stage           : {"formation", "implementation"},
            nodes           : [Ids -> StepNode \cup {NoStep}],
            code            : Nat,
            formationChecks : Nat,
            inferTrees      : Nat,
            matchChecks     : Nat]

NewStep(i, p, x, st) ==
  [id |-> i, parent |-> p, text |-> x, status |-> st, attempts |-> 0, revealed |-> FALSE]

Steps(t) == {k \in Ids : t[k].status # "absent"}

IdsOf(t) == {t[k].id : k \in Steps(t)}

(* The steps that find() and findIndex() come upon: the first of each id.  *)
Firsts(t) == {k \in Steps(t) : \A j \in Steps(t) : t[j].id = t[k].id => k <= j}

WithStatus(t, st) == [k \in Ids |-> IF k \in Steps(t) THEN [t[k] EXCEPT !.status = st] ELSE NoStep]

(* The ids that depthOf() comes by from i: the smallest set with i and     *)
(* every parent.                                                           *)
Path(t, i) == {j \in Ids : \A S \in SUBSET Ids :
                 (i \in S /\ \A k \in Firsts(t) : t[k].id \in S => t[k].parent \in S \cup {None}) => j \in S}

(* It comes to a root, and does so before MaxTreeDepth.  On a cycle it     *)
(* never returns: then the request hangs, and the API with it.             *)
Shallow(t, i) ==
  \/ i = None /\ MaxTreeDepth > 0
  \/ /\ \E k \in Firsts(t) : t[k].id \in Path(t, i) /\ t[k].parent \notin IdsOf(t)
     /\ Cardinality(Path(t, i)) < MaxTreeDepth

(* collectSubtreeIds(): the smallest set with i and every child.           *)
Subtree(t, i) == {j \in Ids : \A S \in SUBSET Ids :
                    (i \in S /\ \A k \in Steps(t) : t[k].parent \in S => t[k].id \in S) => j \in S}

(* The trees of the steps k + 1 to n that may be sent: an id is one of a   *)
(* step made before or the number of the first step that has it, a parent  *)
(* is any id of the tree, since a parent that is not there becomes null.   *)
Trees == [k \in 0..MaxIds |-> [n \in Ids |->
  {t \in [Ids -> [id : Ids, parent : Ids \cup {None}, text : {0}, status : {"pending"},
                  attempts : {0}, revealed : {FALSE}] \cup {NoStep}] :
     /\ Steps(t) = (k + 1)..n
     /\ \A i \in Steps(t) : /\ t[i].id <= i
                            /\ t[i].id > k => t[t[i].id].id = t[i].id
                            /\ t[i].parent \in IdsOf(t) \cup {None}}]]

(* Those of the model, whose temporary ids are replaced by new ones.       *)
Inferred(k, n) == {t \in Trees[k][n] : \A i \in Steps(t) : t[i].id > k}

Sizes == {n \in Ids : drawn < n /\ n <= drawn + MaxTreeSize}

Init ==
  /\ session = [stage |-> "formation", nodes |-> [i \in Ids |-> NoStep], code |-> 0,
                formationChecks |-> 0, inferTrees |-> 0, matchChecks |-> 0]
  /\ status = "IN_PROGRESS"
  /\ snap = [r \in Requests |-> None]
  /\ drawn = 0
  /\ settled = {}
  /\ failed = [i \in Ids |-> [g \in {"formation", "implementation"} |-> 0]]
  /\ edits = 0
  /\ typed = 0
  /\ overlap = FALSE
  /\ loads = 0
-----------------------------------------------------------------------------
(* loadOwnedSession() *)
Load(r) ==
  /\ snap[r] = None
  /\ loads < MaxRequests
  /\ loads' = loads + 1
  /\ snap' = [snap EXCEPT ![r] = session]
  /\ overlap' = (overlap \/ \E q \in Requests : snap[q] # None)
  /\ UNCHANGED <<session, status, drawn, settled, failed, edits, typed>>

Ends(r) == snap[r] # None /\ snap' = [snap EXCEPT ![r] = None] /\ UNCHANGED <<overlap, loads>>

(* The request ends by replacing the session. *)
Writes(r, s) == Ends(r) /\ session' = s /\ UNCHANGED status

(* A guard or the model refuses, or the handler only shows something.      *)
Refuse(r) ==
  /\ Ends(r)
  /\ UNCHANGED <<session, status, drawn, settled, failed, edits, typed>>

Settle(t, S) == settled' = settled \cup {<<t[k].id, t[k].text>> : k \in {j \in S : t[j].status \in Passing}}

Fail(g, S) == failed' = [i \in Ids |->
  IF i \in S /\ failed[i][g] < RevealThreshold THEN [failed[i] EXCEPT ![g] = @ + 1] ELSE failed[i]]

InferTree(r) ==
  LET s == snap[r]
  IN /\ snap[r] # None /\ s.stage = "formation" /\ s.inferTrees < MaxInferTreeCalls
     /\ \E n \in Sizes : \E t \in Inferred(drawn, n) :
          /\ Writes(r, [s EXCEPT !.nodes = t, !.code = typed + 1, !.inferTrees = @ + 1])
          /\ drawn' = n
     /\ typed' = typed + 1
     /\ UNCHANGED <<settled, failed, edits>>

(* The model judges some of the steps; one that stays incorrect has failed *)
(* once more, and one that passes starts anew.                             *)
Judged(n, verdict) ==
  LET st == IF verdict = None THEN n.status ELSE verdict
  IN [n EXCEPT !.status = st,
               !.attempts = IF st \in Passing THEN 0 ELSE IF st = "incorrect" THEN @ + 1 ELSE @]

CheckTree(r) ==
  LET s == snap[r]
  IN /\ snap[r] # None /\ s.stage = "formation" /\ Steps(s.nodes) # {}
     /\ s.formationChecks < MaxFormationChecks
     /\ \E v \in [IdsOf(s.nodes) -> {"correct", "incorrect", "can_be_divided", None}] :
          LET t == [k \in Ids |-> IF k \in Steps(s.nodes) THEN Judged(s.nodes[k], v[s.nodes[k].id]) ELSE NoStep]
          IN /\ Writes(r, [s EXCEPT !.nodes = t, !.formationChecks = @ + 1])
             /\ Settle(t, Steps(t))
             /\ Fail("formation", {t[k].id : k \in {j \in Ids : t[j].status = "incorrect"}})
     /\ UNCHANGED <<drawn, edits, typed>>
-----------------------------------------------------------------------------
(* mutateNode() *)
AddNode(r) ==
  LET s == snap[r]
  IN /\ snap[r] # None /\ s.stage = "formation"
     /\ \E p \in IdsOf(s.nodes) \cup {None}, i \in {drawn + 1} \cap Ids :
          /\ Shallow(s.nodes, p)
          /\ Writes(r, [s EXCEPT !.nodes[i] = NewStep(i, p, 0, "pending")])
          /\ drawn' = i
     /\ UNCHANGED <<settled, failed, edits, typed>>

(* Mutant: an edited step keeps its verdict. *)
EditKeepsStatus(r) ==
  LET s == snap[r]
  IN /\ snap[r] # None /\ s.stage = "formation"
     /\ \E i \in Firsts(s.nodes) : Writes(r, [s EXCEPT !.nodes[i].text = edits + 1])
     /\ edits' = edits + 1
     /\ UNCHANGED <<drawn, settled, failed, typed>>

EditNode(r) ==
  LET s == snap[r]
  IN /\ snap[r] # None /\ s.stage = "formation"
     /\ \E i \in Firsts(s.nodes) :
          Writes(r, [s EXCEPT !.nodes[i] = [@ EXCEPT !.text = edits + 1, !.status = "pending"]])
     /\ edits' = edits + 1
     /\ UNCHANGED <<drawn, settled, failed, typed>>

(* Mutant: the substeps stay. *)
DeleteOnlyNode(r) ==
  LET s == snap[r]
  IN /\ snap[r] # None /\ s.stage = "formation"
     /\ \E i \in IdsOf(s.nodes) :
          Writes(r, [s EXCEPT !.nodes = [k \in Ids |-> IF @[k].id = i THEN NoStep ELSE @[k]]])
     /\ UNCHANGED <<drawn, settled, failed, edits, typed>>

DeleteNode(r) ==
  LET s == snap[r]
  IN /\ snap[r] # None /\ s.stage = "formation"
     /\ \E i \in IdsOf(s.nodes) :
          Writes(r, [s EXCEPT !.nodes = [k \in Ids |-> IF @[k].id \in Subtree(s.nodes, i) THEN NoStep ELSE @[k]]])
     /\ UNCHANGED <<drawn, settled, failed, edits, typed>>

(* A step changes places with a sibling.  Both are written back where      *)
(* findIndex() finds their ids, so that a sibling whose id an earlier step *)
(* has too overwrites that step.                                           *)
Reorder(r) ==
  LET s == snap[r]
  IN /\ snap[r] # None /\ s.stage = "formation"
     /\ \E i, j \in Firsts(s.nodes), k \in Steps(s.nodes) :
          /\ s.nodes[k].parent = s.nodes[i].parent /\ s.nodes[k].id = s.nodes[j].id
          /\ Writes(r, [s EXCEPT !.nodes[j] = s.nodes[k]])
     /\ UNCHANGED <<drawn, settled, failed, edits, typed>>

(* A first hint and copyToComments() write back what they read, but for    *)
(* what is left out here.                                                  *)
GetNodeHint(r) ==
  /\ snap[r] # None /\ Steps(snap[r].nodes) # {}
  /\ Writes(r, snap[r])
  /\ UNCHANGED <<drawn, settled, failed, edits, typed>>

CopyToComments(r) ==
  /\ snap[r] # None /\ snap[r].stage = "implementation"
  /\ Writes(r, snap[r])
  /\ UNCHANGED <<drawn, settled, failed, edits, typed>>
-----------------------------------------------------------------------------
(* Help with a step that has failed RevealThreshold checks.                *)
DoneStatus(s) == IF s.stage = "formation" THEN "correct" ELSE "implemented"

Stuck(s) == {k \in Firsts(s.nodes) : /\ s.nodes[k].status # DoneStatus(s)
                                     /\ s.nodes[k].attempts >= RevealThreshold}

RevealNode(r) ==
  LET s == snap[r]
  IN /\ snap[r] # None
     /\ \E i \in Stuck(s) :
          LET t == [s.nodes EXCEPT ![i] = [@ EXCEPT !.revealed = TRUE]]
          IN /\ ~s.nodes[i].revealed
             /\ \/ /\ s.stage = "formation"
                   /\ Shallow(s.nodes, s.nodes[i].id)
                   /\ \E j \in {drawn + 1} \cap Ids :
                        /\ Writes(r, [s EXCEPT !.nodes =
                                        [t EXCEPT ![j] = NewStep(j, s.nodes[i].id, 0, "system_generated")]])
                        /\ drawn' = j
                \/ /\ s.stage = "implementation"
                   /\ Writes(r, [s EXCEPT !.nodes = t])
                   /\ UNCHANGED drawn
     /\ UNCHANGED <<settled, failed, edits, typed>>

ShowAnswer(r) ==
  LET s == snap[r]
  IN /\ snap[r] # None
     /\ \E i \in Stuck(s) :
          LET t == [s.nodes EXCEPT ![i] = [@ EXCEPT !.status = DoneStatus(s), !.revealed = TRUE]]
          IN Writes(r, [s EXCEPT !.nodes = t]) /\ Settle(t, {i})
     /\ UNCHANGED <<drawn, failed, edits, typed>>

(* adoptSolution(): the tree or the code of a preview, as the client sends *)
(* it.                                                                     *)
AdoptTree(r) ==
  LET s == snap[r]
  IN /\ snap[r] # None /\ s.stage = "formation"
     /\ \E n \in Sizes : \E f \in Trees[drawn][n] :
          LET t == [k \in Ids |-> IF k \in Steps(f)
                                  THEN NewStep(f[k].id, f[k].parent, edits + 1, "correct") ELSE NoStep]
          IN /\ Writes(r, [s EXCEPT !.nodes = t])
             /\ drawn' = n
             /\ Settle(t, Steps(t))
     /\ edits' = edits + 1
     /\ UNCHANGED <<failed, typed>>

(* Mutant: the steps are marked, the code is not stored. *)
AdoptMarksOnly(r) ==
  LET s == snap[r]
  IN /\ snap[r] # None /\ s.stage = "implementation"
     /\ Writes(r, [s EXCEPT !.nodes = WithStatus(@, "implemented")])
     /\ typed' = typed + 1
     /\ UNCHANGED <<drawn, settled, failed, edits>>

AdoptCode(r) ==
  LET s == snap[r]
  IN /\ snap[r] # None /\ s.stage = "implementation"
     /\ Writes(r, [s EXCEPT !.nodes = WithStatus(@, "implemented"), !.code = typed + 1])
     /\ typed' = typed + 1
     /\ UNCHANGED <<drawn, settled, failed, edits>>
-----------------------------------------------------------------------------
(* Mutants: the verdicts, or the failed attempts, of the first stage stay. *)
AdvanceKeepsStatus(r) ==
  LET s == snap[r]
  IN /\ snap[r] # None /\ s.stage = "formation" /\ Steps(s.nodes) # {}
     /\ \A i \in Steps(s.nodes) : s.nodes[i].status \in Passing
     /\ Writes(r, [s EXCEPT !.stage = "implementation"])
     /\ UNCHANGED <<drawn, settled, failed, edits, typed>>

AdvanceKeepsAttempts(r) ==
  LET s == snap[r]
  IN /\ snap[r] # None /\ s.stage = "formation" /\ Steps(s.nodes) # {}
     /\ \A i \in Steps(s.nodes) : s.nodes[i].status \in Passing
     /\ Writes(r, [s EXCEPT !.stage = "implementation",
                            !.nodes = WithStatus(@, "to_be_coded")])
     /\ UNCHANGED <<drawn, settled, failed, edits, typed>>

AdvanceStage(r) ==
  LET s == snap[r]
  IN /\ snap[r] # None /\ s.stage = "formation" /\ Steps(s.nodes) # {}
     /\ \A i \in Steps(s.nodes) : s.nodes[i].status \in Passing
     /\ Writes(r, [s EXCEPT !.stage = "implementation",
                            !.nodes = [k \in Ids |-> IF k \in Steps(s.nodes)
                                                     THEN NewStep(@[k].id, @[k].parent, @[k].text, "to_be_coded")
                                                     ELSE NoStep]])
     /\ UNCHANGED <<drawn, settled, failed, edits, typed>>

SyncCode(r) ==
  /\ snap[r] # None
  /\ Writes(r, [snap[r] EXCEPT !.code = typed + 1])
  /\ typed' = typed + 1
  /\ UNCHANGED <<drawn, settled, failed, edits>>

Matched(n, verdict) ==
  IF verdict = None THEN n
  ELSE [n EXCEPT !.status = verdict,
                 !.attempts = CASE verdict = "implemented"             -> 0
                                [] verdict = "incorrectly_implemented" -> @ + 1
                                [] verdict = "to_be_coded"             -> @]

CheckMatch(r) ==
  LET s == snap[r]
  IN /\ snap[r] # None /\ s.stage = "implementation" /\ s.matchChecks < MaxMatchChecks
     /\ \E v \in [IdsOf(s.nodes) -> ImplementationStatuses \cup {None}] :
          /\ Writes(r, [s EXCEPT !.matchChecks = @ + 1,
                                 !.nodes = [k \in Ids |-> IF k \in Steps(s.nodes)
                                                          THEN Matched(@[k], v[@[k].id]) ELSE NoStep]])
          /\ Fail("implementation", {i \in IdsOf(s.nodes) : v[i] = "incorrectly_implemented"})
     /\ UNCHANGED <<drawn, settled, edits, typed>>

(* completeSession() writes the status alone. *)
Complete(r) ==
  /\ Ends(r)
  /\ status' = "COMPLETED"
  /\ UNCHANGED <<session, drawn, settled, failed, edits, typed>>

Handler(r) ==
  \/ InferTree(r) \/ CheckTree(r)
  \/ AddNode(r) \/ EditNode(r) \/ DeleteNode(r) \/ Reorder(r)
  \/ GetNodeHint(r) \/ RevealNode(r) \/ ShowAnswer(r)
  \/ AdoptTree(r) \/ AdoptCode(r)
  \/ AdvanceStage(r) \/ CopyToComments(r) \/ SyncCode(r) \/ CheckMatch(r)
  \/ Complete(r) \/ Refuse(r)

Next == \E r \in Requests : Load(r) \/ Handler(r)

Spec == Init /\ [][Next]_vars
-----------------------------------------------------------------------------
(* The row as it is stored, or as a request remembers it. *)
Versions == {session} \cup {snap[r] : r \in {q \in Requests : snap[q] # None}}

StatusesOf(stage) == IF stage = "formation" THEN FormationStatuses ELSE ImplementationStatuses

(* Types; a step's status is one of its session's stage.                   *)
TypeOK ==
  /\ session \in Session
  /\ status \in {"IN_PROGRESS", "COMPLETED"}
  /\ snap \in [Requests -> Session \cup {None}]
  /\ drawn \in 0..MaxIds
  /\ settled \in SUBSET (Ids \X Nat)
  /\ failed \in [Ids -> [{"formation", "implementation"} -> 0..RevealThreshold]]
  /\ edits \in Nat
  /\ typed \in Nat
  /\ overlap \in BOOLEAN
  /\ loads \in Nat
  /\ \A s \in Versions : \A i \in Steps(s.nodes) : s.nodes[i].status \in StatusesOf(s.stage)

(* However requests overlap, and whatever tree the model or the client has *)
(* sent, the parent of a step is there: deleting a step takes along all    *)
(* that hang below it.                                                     *)
TreeClosed == \A k \in Steps(session.nodes) :
  session.nodes[k].parent \in IdsOf(session.nodes) \cup {None}

(* Something is revealed about a step only after it has failed             *)
(* RevealThreshold checks of this very stage: "a stage-1 hint or attempt   *)
(* count must not leak into stage-2 gating" (service, 1164-1167).          *)
HelpEarned == \A k \in Steps(session.nodes) :
  session.nodes[k].revealed => failed[session.nodes[k].id][session.stage] >= RevealThreshold

(* A step that passes, and every step of the implementation stage, carries *)
(* the text that was judged, adopted or given up on, even when it was      *)
(* edited while the model judged it.                                       *)
TextJudged == \A k \in Steps(session.nodes) :
  \/ session.stage = "implementation"
  \/ session.nodes[k].status \in Passing
  => <<session.nodes[k].id, session.nodes[k].text>> \in settled

(* "check-match/session resume always see the student's current code"      *)
(* (dto/submit-code.dto.ts:1-3), which a handler that writes back the      *)
(* session it has read breaks when a sync overlaps it.                     *)
CodeFresh == session.code = typed

(* The code is the last one sent while no two requests overlap.            *)
CodeKept == ~overlap => CodeFresh

(* While no two requests overlap, a session that has been advanced stays   *)
(* advanced, and its counts of checks and trees, which bound what the      *)
(* model is asked, never shrink.                                           *)
NothingUndone == [][~overlap' =>
  /\ session.stage = "implementation" => session'.stage = "implementation"
  /\ session.formationChecks <= session'.formationChecks
  /\ session.inferTrees <= session'.inferTrees
  /\ session.matchChecks <= session'.matchChecks]_vars
=============================================================================
