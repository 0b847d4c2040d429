------------------------ MODULE PreGeneration_proofs ------------------------
(***************************************************************************)
(* What a tick that marks its exercise in time guarantees: no exercise is  *)
(* generated twice at a time, resets are honoured, and the table behaves   *)
(* as JobLifecycle promises.  For any number of ticks, queueing requests   *)
(* and exercises, with failing calls, crashes and deletion.                *)
(***************************************************************************)
EXTENDS PreGeneration, WellFoundedInduction, TLAPS

(* What a tick holds is still as it left it: pending once found, being     *)
(* generated once marked, unless the document has gone; and no exercise it *)
(* holds has been reset.                                                   *)
Marks == \A t, u \in Ticks : tick[t].pc = "mark" /\ tick[u].pc = "mark" => t = u

Found == \A t \in Ticks : tick[t].pc = "mark" => row[tick[t].ex].status \in {"pending", "gone"}

Marked == \A t \in Ticks : Busy(t) => row[tick[t].ex].status \in {"generating", "gone"}

InTime == \A t \in Ticks : ~tick[t].late

Inv == TypeOK /\ Marks /\ Found /\ Marked /\ InTime /\ GeneratedAlone /\ Honoured

LEMMA RestType == /\ Resting \in TickState
                  /\ Resting.pc = "idle" /\ Resting.ex = None /\ ~Resting.late
  BY DEF Resting, TickState, TickPcs

LEMMA HeldKey ==
  ASSUME TypeOK, NEW t \in Ticks, tick[t].pc # "idle"
  PROVE  tick[t].ex \in Keys
  BY DEF TypeOK, TickState

LEMMA InitInv == Init => Inv
  <1> SUFFICES ASSUME Init PROVE Inv
    OBVIOUS
  <1>1. TypeOK
    <2>1. row \in [Keys -> Row]
      BY DEF Init, Row
    <2>2. order \in Seq(Keys) /\ cfg \in SUBSET Keys
      BY DEF Init
    <2>3. tick \in [Ticks -> TickState] /\ \A t \in Ticks : tick[t] = Resting
      BY RestType DEF Init
    <2>4. Free \in QueuerState
      BY DEF Free, QueuerState, QueuerPcs
    <2> QED BY <2>1, <2>2, <2>3, <2>4, RestType DEF Init, TypeOK
  <1>2. \A t \in Ticks : tick[t] = Resting
    BY DEF Init
  <1>3. \A k \in Keys : row[k].status = "absent"
    BY DEF Init
  <1> QED BY <1>1, <1>2, <1>3, RestType
          DEF Inv, Marks, Found, Marked, InTime, GeneratedAlone, Honoured, Busy

(* A tick that goes from one point of its work to another.                 *)
LEMMA TickMoves ==
  ASSUME Inv, NEW t \in Ticks, NEW pc \in TickPcs \ {"idle", "mark"}, Busy(t),
         TickGoto(t, pc), UNCHANGED <<row, order, cfg, text, indexed, deleted, queuer>>
  PROVE  Inv'
  BY DEF Inv, TypeOK, TickState, TickPcs, TickGoto, Busy, Marks, Found, Marked, InTime,
         GeneratedAlone, Honoured

(* A tick that ends.                                                       *)
LEMMA TickRests ==
  ASSUME Inv, NEW t \in Ticks, Rest(t), UNCHANGED <<row, order, cfg, text, indexed, deleted, queuer>>
  PROVE  Inv'
  BY RestType DEF Inv, TypeOK, Rest, Busy, Marks, Found, Marked, InTime, GeneratedAlone, Honoured

LEMMA FindInv ==
  ASSUME Patient, Inv, NEW t \in Ticks, TickFind(t)
  PROVE  Inv'
  <1>1. PICK k \in Keys :
          /\ OldestPending(k)
          /\ tick' = [tick EXCEPT ![t] = [pc |-> "mark", ex |-> k, late |-> FALSE]]
    BY DEF TickFind, Holding
  <1>2. row[k].status = "pending"
    BY <1>1 DEF OldestPending
  <1>3. \A u \in Ticks : tick[u].pc # "mark"
    BY DEF TickFind
  <1>4. UNCHANGED <<row, order, cfg, text, indexed, deleted, queuer>>
    BY DEF TickFind
  <1>5. /\ tick'[t].pc = "mark" /\ tick'[t].ex = k /\ ~tick'[t].late
        /\ \A u \in Ticks \ {t} : tick'[u] = tick[u]
    BY <1>1 DEF Inv, TypeOK
  <1>6. TypeOK'
    <2>1. [pc |-> "mark", ex |-> k, late |-> FALSE] \in TickState
      BY DEF TickState, TickPcs
    <2>2. tick' \in [Ticks -> TickState]
      BY <1>1, <2>1 DEF Inv, TypeOK
    <2>3. \A u \in Ticks : tick'[u].ex = None <=> tick'[u].pc = "idle"
      BY <1>5, PreGenerationAssumption DEF Inv, TypeOK
    <2> QED BY <1>4, <2>2, <2>3 DEF Inv, TypeOK
  <1>7. \A u \in Ticks : Busy(u)' => u # t /\ Busy(u)
    BY <1>5 DEF Busy
  <1>8. Marks' /\ Found'
    BY <1>2, <1>3, <1>4, <1>5 DEF Marks, Found
  <1>9. Marked' /\ InTime' /\ GeneratedAlone'
    BY <1>4, <1>5, <1>7 DEF Inv, Marked, InTime, GeneratedAlone
  <1> QED BY <1>4, <1>6, <1>8, <1>9 DEF Inv, Honoured

LEMMA MarkInv ==
  ASSUME Inv, NEW t \in Ticks, TickMark(t)
  PROVE  Inv'
  <1>1. CASE row[tick[t].ex].status = "gone"
    <2>1. Rest(t) /\ UNCHANGED <<row, order, cfg, text, indexed, deleted, queuer>>
      BY <1>1 DEF TickMark
    <2> QED BY <2>1, TickRests
  <1>2. CASE row[tick[t].ex].status # "gone"
    <2> DEFINE k == tick[t].ex
    <2>1. /\ tick[t].pc = "mark"
          /\ row' = [row EXCEPT ![k].status = "generating"]
          /\ tick' = [tick EXCEPT ![t].pc = "text"]
          /\ UNCHANGED <<order, cfg, text, indexed, deleted, queuer>>
      BY <1>2 DEF TickMark, SetStatus, TickGoto
    <2>2. k \in Keys /\ row[k].status = "pending"
      BY <1>2, <2>1, HeldKey DEF Inv, Found
    <2>3. \A u \in Ticks : Busy(u) => tick[u].ex # k
      BY <2>2 DEF Inv, Marked
    <2>4. \A u \in Ticks : tick[u].pc = "mark" => u = t
      BY <2>1 DEF Inv, Marks
    <2>5. TypeOK'
      BY <2>1 DEF Inv, TypeOK, Row, TickState, TickPcs
    <2>6. /\ tick'[t].pc = "text" /\ tick'[t].ex = k /\ ~tick'[t].late
          /\ \A u \in Ticks \ {t} : tick'[u] = tick[u]
          /\ row'[k].status = "generating"
          /\ \A j \in Keys \ {k} : row'[j] = row[j]
      BY <2>1, <2>2 DEF Inv, TypeOK, Row, TickState, InTime
    <2>7. \A u \in Ticks : Busy(u)' => u = t \/ (Busy(u) /\ tick[u].ex \in Keys \ {k})
      BY <2>3, <2>6, HeldKey DEF Inv, Busy
    <2> HIDE DEF k
    <2>8. Marks' /\ Found' /\ InTime'
      BY <2>4, <2>6 DEF Inv, Marks, Found, InTime
    <2>9. Marked'
      BY <2>6, <2>7 DEF Inv, Marked
    <2>10. GeneratedAlone'
      BY <2>6, <2>7 DEF Inv, GeneratedAlone
    <2>11. Honoured'
      BY <2>6 DEF Inv, Honoured
    <2> QED BY <2>5, <2>8, <2>9, <2>10, <2>11 DEF Inv
  <1> QED BY <1>1, <1>2

LEMMA WriteInv ==
  ASSUME Inv, NEW t \in Ticks, NEW pc \in {"done", "blank", "error"},
         NEW status \in {"done", "error"}, TickWrite(t, pc, status)
  PROVE  Inv'
  <1> DEFINE k == tick[t].ex
  <1>1. Busy(t) /\ k \in Keys /\ row[k].status = "generating"
    BY HeldKey DEF TickWrite, Busy, Inv, Marked
  <1>2. ~tick[t].late
    BY DEF Inv, InTime
  <1>3. PICK c \in {"empty", "fresh", "late"} :
          /\ row' = [row EXCEPT ![k] = [status |-> status, content |-> c]]
          /\ status = "done" => c = "fresh"
    BY <1>1, <1>2 DEF TickWrite, Inv, TypeOK, Row
  <1>4. /\ tick' = [tick EXCEPT ![t] = Resting]
        /\ UNCHANGED <<order, cfg, text, indexed, deleted, queuer>>
    BY DEF TickWrite, Rest
  <1>5. \A u \in Ticks \ {t} : /\ Busy(u) => tick[u].ex # k
                               /\ tick[u].pc = "mark" => tick[u].ex # k
    BY <1>1 DEF Inv, GeneratedAlone, Found
  <1> QED BY <1>1, <1>3, <1>4, <1>5, RestType
          DEF Inv, TypeOK, Row, Busy, Marks, Found, Marked, InTime, GeneratedAlone, Honoured

LEMMA TickInv ==
  ASSUME Patient, Inv, NEW t \in Ticks, TickStep(t)
  PROVE  Inv'
  <1>1. CASE TickText(t) \/ TickDoc(t) \/ TickLlm(t)
    <2>1. PICK pc \in TickPcs \ {"idle", "mark"} : TickGoto(t, pc)
      BY <1>1 DEF TickText, TickDoc, TickLlm, TickPcs
    <2>2. Busy(t)
      BY <1>1 DEF TickText, TickDoc, TickLlm, Busy
    <2> QED BY <1>1, <2>1, <2>2, TickMoves DEF TickText, TickDoc, TickLlm
  <1>2. CASE TickDone(t) \/ TickBlank(t) \/ TickError(t)
    BY <1>2, WriteInv DEF TickDone, TickBlank, TickError
  <1>3. CASE TickFails(t)
    <2>1. CASE tick[t].pc \in {"mark", "error"}
      BY <1>3, <2>1, TickRests DEF TickFails
    <2>2. CASE tick[t].pc \notin {"mark", "error"}
      <3>1. Busy(t) /\ TickGoto(t, "error")
        BY <1>3, <2>2 DEF TickFails, Busy
      <3> QED BY <1>3, <3>1, TickMoves DEF TickFails, TickPcs
    <2> QED BY <2>1, <2>2
  <1> QED BY <1>1, <1>2, <1>3, FindInv, MarkInv DEF TickStep

(* A reset leaves alone what a tick has found or marked.                   *)
LEMMA ResetInv ==
  ASSUME Inv, Reset, UNCHANGED <<order, cfg, text, indexed, deleted>>,
         queuer' \in [Queuers -> QueuerState]
  PROVE  Inv'
  <1> DEFINE S == {k \in Keys : row[k].status \in {"done", "error"}}
  <1>1. \A t \in Ticks : tick[t].ex \notin S
    <2> SUFFICES ASSUME NEW t \in Ticks, tick[t].ex \in S PROVE FALSE
      OBVIOUS
    <2>1. tick[t].pc # "idle"
      BY PreGenerationAssumption DEF Inv, TypeOK
    <2> QED BY <2>1 DEF Inv, Found, Marked, Busy
  <1>2. tick' = tick
    BY <1>1 DEF Reset, Inv, TypeOK
  <1>3. /\ \A k \in Keys \ S : row'[k] = row[k]
        /\ \A k \in S : row'[k] = [status |-> "pending", content |-> "empty"]
        /\ row' \in [Keys -> Row]
    BY DEF Reset, Inv, TypeOK, Row
  <1>4. TypeOK'
    BY <1>2, <1>3 DEF Inv, TypeOK
  <1>5. Marks' /\ InTime' /\ GeneratedAlone'
    BY <1>2 DEF Inv, Busy, Marks, InTime, GeneratedAlone
  <1>6. \A t \in Ticks : tick[t].pc # "idle" => row'[tick[t].ex] = row[tick[t].ex]
    BY <1>1, <1>3, HeldKey DEF Inv
  <1>7. Found' /\ Marked'
    BY <1>2, <1>6 DEF Inv, Busy, Found, Marked
  <1>8. Honoured'
    BY <1>3 DEF Inv, Honoured
  <1> QED BY <1>4, <1>5, <1>7, <1>8 DEF Inv

LEMMA QueuerType ==
  ASSUME TypeOK, NEW q \in Queuers
  PROVE  /\ queuer[q].todo \in SUBSET Keys /\ queuer[q].next \in {"idle", "item"}
         /\ \A pc \in QueuerPcs : QueuerGoto(q, pc) => queuer' \in [Queuers -> QueuerState]
         /\ \A pc \in QueuerPcs, todo \in SUBSET Keys, next \in {"idle", "item"} :
              QueuerSet(q, pc, todo, next) => queuer' \in [Queuers -> QueuerState]
  BY DEF TypeOK, QueuerState, QueuerGoto, QueuerSet

(* A step that leaves ticks and exercises alone.                           *)
LEMMA RowsKept ==
  ASSUME Inv, UNCHANGED <<row, tick>>, TypeOK'
  PROVE  Inv'
  BY DEF Inv, Busy, Marks, Found, Marked, InTime, GeneratedAlone, Honoured

LEMMA QueueNextInv ==
  ASSUME Inv, NEW q \in Queuers, QueueNext(q)
  PROVE  Inv'
  <1>1. queuer' \in [Queuers -> QueuerState]
    BY QueuerType DEF Inv, TypeOK, QueueNext, QueuerState, QueuerSet, QueuerPcs
  <1>2. UNCHANGED <<cfg, text, indexed, deleted, tick>>
    BY DEF QueueNext
  <1>3. CASE UNCHANGED <<row, order>>
    BY <1>1, <1>2, <1>3, RowsKept DEF Inv, TypeOK
  <1>4. CASE \E k \in Keys : /\ row[k].status = "absent"
                             /\ SetStatus(k, "pending")
                             /\ order' = Append(order, k)
    <2>1. PICK k \in Keys : /\ row[k].status = "absent"
                           /\ row' = [row EXCEPT ![k].status = "pending"]
                           /\ order' = Append(order, k)
      BY <1>4 DEF SetStatus
    <2>2. TypeOK'
      BY <1>1, <1>2, <2>1 DEF Inv, TypeOK, Row
    <2>3. row'[k].status = "pending" /\ \A j \in Keys \ {k} : row'[j] = row[j]
      BY <2>1 DEF Inv, TypeOK, Row
    <2>4. \A t \in Ticks : tick[t].pc = "mark" \/ Busy(t) => tick[t].ex \in Keys \ {k}
      BY <2>1, HeldKey DEF Inv, Busy, Found, Marked
    <2> QED BY <1>2, <2>2, <2>3, <2>4
            DEF Inv, Busy, Marks, Found, Marked, InTime, GeneratedAlone, Honoured
  <1> QED BY <1>3, <1>4, QueuerType DEF QueueNext, Inv

LEMMA QueuerInv ==
  ASSUME Inv, NEW q \in Queuers,
         QueuerStep(q) \/ Backfill(q) \/ Request(q) \/ QueuerFails(q)
  PROVE  Inv'
  <1> USE QueuerType DEF QueuerPcs
  <1>1. TypeOK
    BY DEF Inv
  <1>2. ASSUME queuer' \in [Queuers -> QueuerState], UNCHANGED <<row, order, tick>>,
               cfg' \in SUBSET Keys, text' \in BOOLEAN, indexed' \in BOOLEAN,
               deleted' \in BOOLEAN
        PROVE  Inv'
    BY <1>1, <1>2, RowsKept DEF TypeOK
  <1>3. CASE Documents(q) \/ RegenerateConfig(q) \/ ItemConfig(q) \/ Backfill(q)
    <2>1. queuer' \in [Queuers -> QueuerState]
      BY <1>1, <1>3 DEF Documents, RegenerateConfig, ItemConfig, Backfill, TypeOK
    <2> QED BY <1>1, <1>2, <1>3, <2>1
            DEF Documents, RegenerateConfig, ItemConfig, Backfill, TypeOK
  <1>4. CASE ItemDeleteChunks(q) \/ ItemCreateChunks(q) \/ ItemIndexed(q) \/ QueueModuleItem(q)
    <2>1. queuer' \in [Queuers -> QueuerState]
      BY <1>1, <1>4 DEF ItemDeleteChunks, ItemCreateChunks, ItemIndexed, QueueModuleItem
    <2> QED BY <1>1, <1>2, <1>4, <2>1
            DEF ItemDeleteChunks, ItemCreateChunks, ItemIndexed, QueueModuleItem, TypeOK
  <1>5. ASSUME NEW c \in Configs, UpdateConfig(q, c) PROVE Inv'
    <2>1. c \in SUBSET Keys
      BY PreGenerationAssumption
    <2>2. queuer' \in [Queuers -> QueuerState]
      BY <1>1, <1>5, <2>1 DEF UpdateConfig
    <2> QED BY <1>1, <1>2, <1>5, <2>1, <2>2 DEF UpdateConfig, TypeOK
  <1>6. CASE QueuerFails(q)
    <2>1. Free \in QueuerState
      BY DEF Free, QueuerState
    <2> QED BY <1>1, <1>2, <1>6, <2>1 DEF QueuerFails, TypeOK
  <1>7. CASE ItemReset(q)
    BY <1>1, <1>7, ResetInv DEF ItemReset
  <1>8. CASE RegenerateCourse(q)
    <2>1. queuer' \in [Queuers -> QueuerState]
      BY <1>1, <1>8 DEF RegenerateCourse
    <2> QED BY <1>1, <1>2, <1>8, <2>1, ResetInv DEF RegenerateCourse, TypeOK
  <1> QED BY <1>3, <1>4, <1>5, <1>6, <1>7, <1>8, QueueNextInv DEF QueuerStep, Request

LEMMA DeleteInv == ASSUME Inv, DeleteDocument PROVE Inv'
  <1>1. TypeOK'
    BY DEF DeleteDocument, Inv, TypeOK, Row
  <1> QED BY <1>1, HeldKey
          DEF DeleteDocument, Inv, Busy, Marks, Found, Marked, InTime, GeneratedAlone, Honoured

LEMMA CrashInv == ASSUME Inv, Crash PROVE Inv'
  <1>1. Free \in QueuerState
    BY DEF Free, QueuerState, QueuerPcs
  <1>2. TypeOK'
    BY <1>1, RestType DEF Crash, Inv, TypeOK
  <1>3. \A t \in Ticks : tick'[t] = Resting
    BY DEF Crash
  <1> QED BY <1>2, <1>3, RestType
          DEF Crash, Inv, Busy, Marks, Found, Marked, InTime, GeneratedAlone, Honoured

LEMMA NextInv == ASSUME Patient, Inv, [Next]_vars PROVE Inv'
  <1>1. CASE RegenerateDocument
    BY <1>1, ResetInv DEF RegenerateDocument, Inv, TypeOK
  <1>2. CASE UNCHANGED vars
    BY <1>2, RowsKept DEF vars, Inv, TypeOK
  <1> QED BY <1>1, <1>2, TickInv, QueuerInv, DeleteInv, CrashInv DEF Next

LEMMA InvAlways == Patient /\ Spec => []Inv
  <1> SUFFICES ASSUME Patient PROVE Spec => []Inv
    OBVIOUS
  <1>1. Inv /\ [Next]_vars => Inv'
    BY NextInv
  <1> QED BY <1>1, InitInv, PTL DEF Spec

(* When a tick marks its exercise before the next one looks, two ticks     *)
(* never generate one exercise.                                            *)
THEOREM GeneratedAloneAlways == Patient /\ Spec => []GeneratedAlone
  BY InvAlways, PTL DEF Inv

(* Under the same condition a reset is honoured: what is done was          *)
(* generated after the last reset.                                         *)
THEOREM HonouredAlways == Patient /\ Spec => []Honoured
  BY InvAlways, PTL DEF Inv

-----------------------------------------------------------------------------
(* The refinement of JobLifecycle: what it sees of the table and the ticks *)
State  == [k \in Keys |-> JobState(row[k].status)]
Holder == [t \in Ticks |-> IF Busy(t) THEN tick[t].ex ELSE None]

JLNext == [JL!Next]_<<State, Holder>>

LEMMA HolderFact ==
  ASSUME Inv
  PROVE  /\ \A t \in Ticks : Holder[t] # None <=> Busy(t)
         /\ \A t \in Ticks : Busy(t) => Holder[t] = tick[t].ex /\ tick[t].ex \in Keys
  BY HeldKey, PreGenerationAssumption DEF Inv, Busy, Holder

LEMMA Stutters ==
  ASSUME UNCHANGED row, \A t \in Ticks : Busy(t)' = Busy(t) /\ (Busy(t) => tick'[t].ex = tick[t].ex)
  PROVE  JLNext
  <1>1. State' = State
    BY DEF State
  <1>2. Holder' = Holder
    BY DEF Holder
  <1> QED BY <1>1, <1>2 DEF JLNext

LEMMA Abandons ==
  ASSUME NEW W \in SUBSET Ticks, UNCHANGED row,
         \A t \in W : ~Busy(t)', \A t \in Ticks \ W : tick'[t] = tick[t]
  PROVE  JLNext
  <1>1. State' = State
    BY DEF State
  <1>2. Holder' = [t \in Ticks |-> IF t \in W THEN None ELSE Holder[t]]
    BY DEF Holder, Busy
  <1>3. JL!Abandon(W)
    BY <1>1, <1>2 DEF JL!Abandon, State, Holder
  <1> QED BY <1>3 DEF JLNext, JL!Next

LEMMA Claims ==
  ASSUME Inv, NEW t \in Ticks, TickMark(t)
  PROVE  JLNext
  <1>1. PICK k \in Keys : k = tick[t].ex
    BY HeldKey DEF TickMark, Inv
  <1>2. CASE row[k].status = "gone"
    <2>1. /\ UNCHANGED row /\ tick[t].pc = "mark" /\ ~Busy(t)'
          /\ \A u \in Ticks \ {t} : tick'[u] = tick[u]
      BY <1>1, <1>2 DEF TickMark, Rest, Inv, TypeOK, Busy, Resting
    <2> QED BY <2>1, Stutters DEF Busy
  <1>3. CASE row[k].status # "gone"
    <2>1. /\ tick[t].pc = "mark"
          /\ row' = [row EXCEPT ![k].status = "generating"]
          /\ tick' = [tick EXCEPT ![t].pc = "text"]
      BY <1>1, <1>3 DEF TickMark, SetStatus, TickGoto
    <2>2. row[k].status = "pending"
      BY <1>1, <1>3, <2>1 DEF Inv, Found
    <2>3. State[k] = "waiting" /\ Holder[t] = None
      BY <2>1, <2>2 DEF State, JobState, Holder, Busy
    <2>4. State' = [State EXCEPT ![k] = "running"]
      BY <2>1, <2>2 DEF State, JobState, Inv, TypeOK, Row
    <2>5. Holder' = [Holder EXCEPT ![t] = k]
      BY <1>1, <2>1 DEF Holder, Busy, Inv, TypeOK, TickState
    <2>6. JL!Claim(t, k)
      BY <2>3, <2>4, <2>5 DEF JL!Claim, State, Holder
    <2> QED BY <2>6 DEF JLNext, JL!Next
  <1> QED BY <1>2, <1>3

LEMMA Settling ==
  ASSUME Inv, NEW t \in Ticks, NEW pc \in {"done", "blank", "error"},
         NEW status \in {"done", "error"}, TickWrite(t, pc, status)
  PROVE  JLNext
  <1> DEFINE k == tick[t].ex
  <1>1. Busy(t) /\ k \in Keys /\ row[k].status = "generating" /\ Holder[t] = k /\ k # None
    BY HolderFact, HeldKey, PreGenerationAssumption DEF TickWrite, Busy, Inv, Marked
  <1>2. /\ \A j \in Keys \ {k} : row'[j].status = row[j].status
        /\ row'[k].status = status
    BY <1>1 DEF TickWrite, Inv, TypeOK
  <1>3. tick' = [tick EXCEPT ![t] = Resting]
    BY DEF TickWrite, Rest
  <1>4. State[k] = "running"
    BY <1>1 DEF State, JobState
  <1>5. State' = [State EXCEPT ![k] = JobState(status)]
    BY <1>1, <1>2 DEF State, JobState
  <1>6. Holder' = [Holder EXCEPT ![t] = None]
    BY <1>3, RestType DEF Holder, Busy, Inv, TypeOK
  <1>7. JobState(status) \in JL!Settled
    BY DEF JobState, JL!Settled
  <1>8. JL!Settle(t, JobState(status))
    BY <1>1, <1>4, <1>5, <1>6 DEF JL!Settle, State, Holder
  <1> QED BY <1>7, <1>8 DEF JLNext, JL!Next

LEMMA PutsBack ==
  ASSUME Inv, Reset
  PROVE  JLNext
  <1> DEFINE S == {k \in Keys : row[k].status \in {"done", "error"}}
  <1>1. \A k \in S : State[k] \in JL!Settled
    BY DEF State, JobState, JL!Settled
  <1>2. State' = [k \in Keys |-> IF k \in S THEN "waiting" ELSE State[k]]
    BY DEF State, JobState, Reset, Inv, TypeOK
  <1>3. \A t \in Ticks : tick'[t].pc = tick[t].pc /\ tick'[t].ex = tick[t].ex
    BY DEF Reset, Inv, TypeOK, TickState
  <1>4. Holder' = Holder
    BY <1>3 DEF Holder, Busy
  <1>5. JL!PutBack(S)
    BY <1>1, <1>2, <1>4 DEF JL!PutBack, State, Holder
  <1> QED BY <1>5 DEF JLNext, JL!Next

LEMMA Submits ==
  ASSUME Inv, NEW q \in Queuers, QueueNext(q)
  PROVE  JLNext
  <1>1. CASE UNCHANGED row
    BY <1>1, Stutters DEF QueueNext, Busy
  <1>2. CASE \E k \in Keys : row[k].status = "absent" /\ SetStatus(k, "pending")
    <2>1. PICK k \in Keys : row[k].status = "absent" /\ row' = [row EXCEPT ![k].status = "pending"]
      BY <1>2 DEF SetStatus
    <2>2. State[k] = "absent" /\ State' = [State EXCEPT ![k] = "waiting"]
      BY <2>1 DEF State, JobState, Inv, TypeOK, Row
    <2>3. Holder' = Holder
      BY DEF QueueNext, Holder, Busy
    <2>4. JL!Submit(k)
      BY <2>2, <2>3 DEF JL!Submit, State, Holder
    <2> QED BY <2>4 DEF JLNext, JL!Next
  <1> QED BY <1>1, <1>2, QueuerType DEF QueueNext, Inv

LEMMA Removes ==
  ASSUME DeleteDocument
  PROVE  JLNext
  <1>1. State' = [k \in Keys |-> IF k \in Keys THEN "gone" ELSE State[k]]
    BY DEF State, JobState, DeleteDocument
  <1>2. Holder' = [t \in Ticks |-> IF t \in {} THEN None ELSE Holder[t]]
    BY DEF DeleteDocument, Holder, Busy
  <1>3. JL!Remove(Keys, {})
    BY <1>1, <1>2 DEF JL!Remove, State, Holder
  <1> QED BY <1>3 DEF JLNext, JL!Next

LEMMA TickRefines ==
  ASSUME Inv, NEW t \in Ticks, TickStep(t)
  PROVE  JLNext
  <1>1. CASE TickFind(t)
    <2>1. /\ tick[t].pc = "idle" /\ tick'[t].pc = "mark"
          /\ \A u \in Ticks \ {t} : tick'[u] = tick[u]
      BY <1>1 DEF TickFind, Holding, Inv, TypeOK
    <2> QED BY <1>1, <2>1, Stutters DEF TickFind, Busy
  <1>2. ASSUME NEW pc \in TickPcs \ {"idle", "mark"}, Busy(t), TickGoto(t, pc), UNCHANGED row
        PROVE  JLNext
    <2>1. /\ tick'[t].pc = pc /\ tick'[t].ex = tick[t].ex
          /\ \A u \in Ticks \ {t} : tick'[u] = tick[u]
      BY <1>2 DEF TickGoto, Inv, TypeOK, TickState
    <2> QED BY <1>2, <2>1, Stutters DEF Busy
  <1>3. CASE TickText(t) \/ TickDoc(t) \/ TickLlm(t)
    BY <1>2, <1>3 DEF TickText, TickDoc, TickLlm, TickPcs, Busy
  <1>4. CASE TickDone(t) \/ TickBlank(t) \/ TickError(t)
    BY <1>4, Settling DEF TickDone, TickBlank, TickError
  <1>5. CASE TickFails(t)
    <2>1. CASE tick[t].pc \in {"mark", "error"}
      <3>1. ~Busy(t)' /\ \A u \in Ticks \ {t} : tick'[u] = tick[u]
        BY <1>5, <2>1, RestType DEF TickFails, Rest, Inv, TypeOK, Busy
      <3>2. {t} \in SUBSET Ticks /\ \A u \in {t} : ~Busy(u)'
        BY <3>1 DEF Busy
      <3> QED BY <1>5, <3>1, <3>2, Abandons DEF TickFails
    <2>2. CASE tick[t].pc \notin {"mark", "error"}
      BY <1>2, <1>5, <2>2 DEF TickFails, TickPcs, Busy
    <2> QED BY <2>1, <2>2
  <1> QED BY <1>1, <1>3, <1>4, <1>5, Claims DEF TickStep

LEMMA QueuerRefines ==
  ASSUME Inv, NEW q \in Queuers,
         QueuerStep(q) \/ Backfill(q) \/ Request(q) \/ QueuerFails(q)
  PROVE  JLNext
  <1>1. CASE UNCHANGED <<row, tick>>
    BY <1>1, Stutters DEF Busy
  <1>2. CASE Reset
    BY <1>2, PutsBack
  <1>3. CASE QueueNext(q)
    BY <1>3, Submits
  <1> QED BY <1>1, <1>2, <1>3
          DEF QueuerStep, Request, Documents, RegenerateConfig, ItemDeleteChunks,
              ItemCreateChunks, ItemIndexed, ItemConfig, ItemReset, Backfill, UpdateConfig,
              RegenerateCourse, QueueModuleItem, QueuerFails

LEMMA NextRefines ==
  ASSUME Inv, [Next]_vars
  PROVE  JLNext
  <1>1. CASE RegenerateDocument
    BY <1>1, PutsBack DEF RegenerateDocument
  <1>2. CASE Crash
    BY <1>2, Abandons, RestType DEF Crash, Busy
  <1>3. CASE UNCHANGED vars
    BY <1>3, Stutters DEF vars, Busy
  <1> QED BY <1>1, <1>2, <1>3, TickRefines, QueuerRefines, Removes DEF Next

(* The table of exercises and the ticks are a job table: every step is a   *)
(* step of JobLifecycle or changes nothing it sees.                        *)
THEOREM Refinement == Patient /\ Spec => UsesJobLifecycle
  <1> SUFFICES ASSUME Patient PROVE Spec => UsesJobLifecycle
    OBVIOUS
  <1>1. Init => JL!Init
    BY RestType DEF Init, JL!Init, JobState, Busy
  <1>2. Inv /\ [Next]_vars => [JL!Next]_JL!vars
    BY NextRefines DEF JLNext, JL!vars, State, Holder
  <1> QED BY <1>1, <1>2, InvAlways, PTL DEF Spec, UsesJobLifecycle, JL!Spec
(* Only the tick that marked an exercise ends its generation, or the       *)
(* document is deleted under it: no reset and no other tick takes over an  *)
(* exercise that is being generated, and only a settled one is reset.      *)
THEOREM ExercisesEndByTick == Patient /\ Spec => JL!OnlyHolderEnds
  BY Refinement, JL!OnlyHolderEndsAlways DEF UsesJobLifecycle
-----------------------------------------------------------------------------
(* What needs no condition on the ticks.                                   *)
LEMMA TickTypes ==
  ASSUME TypeOK, NEW t \in Ticks, TickStep(t)
  PROVE  TypeOK'
  <1> USE DEF TypeOK
  <1>1. /\ UNCHANGED <<order, cfg, text, indexed, deleted, queuer>>
        /\ \A u \in Ticks \ {t} : tick'[u] = tick[u]
    BY DEF TickStep, TickFind, TickMark, TickText, TickDoc, TickLlm, TickDone, TickBlank, TickError,
           TickWrite, TickFails, TickGoto, Rest
  <1>2. ASSUME Rest(t)
        PROVE  /\ tick' \in [Ticks -> TickState]
               /\ \A u \in Ticks : tick'[u].ex = None <=> tick'[u].pc = "idle"
    BY <1>2, RestType DEF Rest
  <1>3. ASSUME NEW pc \in TickPcs \ {"idle"}, tick[t].pc # "idle", TickGoto(t, pc)
        PROVE  /\ tick' \in [Ticks -> TickState]
               /\ \A u \in Ticks : tick'[u].ex = None <=> tick'[u].pc = "idle"
    BY <1>3 DEF TickGoto, TickState
  <1>4. CASE TickFind(t)
    <2>1. PICK k \in Keys : tick' = [tick EXCEPT ![t] = Holding(k)]
      BY <1>4 DEF TickFind
    <2>2. Holding(k) \in TickState /\ Holding(k).ex = k /\ Holding(k).pc = "mark" /\ k # None
      BY PreGenerationAssumption DEF Holding, TickState, TickPcs
    <2> QED BY <1>1, <1>4, <2>1, <2>2 DEF TickFind
  <1>5. CASE TickMark(t)
    <2>1. row' \in [Keys -> Row]
      BY <1>5 DEF TickMark, SetStatus, Row
    <2> QED BY <1>1, <1>2, <1>3, <1>5, <2>1 DEF TickMark, TickPcs
  <1>6. CASE TickText(t) \/ TickDoc(t) \/ TickLlm(t)
    BY <1>1, <1>3, <1>6 DEF TickText, TickDoc, TickLlm, TickPcs
  <1>7. ASSUME NEW pc \in {"done", "blank", "error"}, NEW status \in {"done", "error"},
               TickWrite(t, pc, status)
        PROVE  TypeOK'
    <2>1. row' \in [Keys -> Row]
      BY <1>7 DEF TickWrite, Row
    <2> QED BY <1>1, <1>2, <1>7, <2>1 DEF TickWrite
  <1>8. CASE TickFails(t)
    BY <1>1, <1>2, <1>3, <1>8 DEF TickFails, TickPcs
  <1> QED BY <1>4, <1>5, <1>6, <1>7, <1>8 DEF TickStep, TickDone, TickBlank, TickError

LEMMA ResetTypes ==
  ASSUME TypeOK, Reset
  PROVE  /\ row' \in [Keys -> Row] /\ tick' \in [Ticks -> TickState]
         /\ \A t \in Ticks : tick'[t].pc = tick[t].pc /\ tick'[t].ex = tick[t].ex
  <1>1. row' \in [Keys -> Row]
    BY DEF TypeOK, Reset, Row
  <1>2. PICK S \in SUBSET Keys :
          tick' = [t \in Ticks |-> IF tick[t].ex \in S THEN [tick[t] EXCEPT !.late = TRUE]
                                  ELSE tick[t]]
    BY DEF Reset
  <1>3. \A t \in Ticks : tick[t] \in TickState
    BY DEF TypeOK
  <1> QED BY <1>1, <1>2, <1>3 DEF TickState

LEMMA QueuerTypes ==
  ASSUME TypeOK, NEW q \in Queuers, QueuerStep(q) \/ Backfill(q) \/ Request(q) \/ QueuerFails(q)
  PROVE  TypeOK'
  <1> USE DEF QueuerPcs
  <1>1. queuer' \in [Queuers -> QueuerState]
    <2>1. ASSUME NEW c \in Configs PROVE c \in SUBSET Keys
      BY PreGenerationAssumption
    <2>2. Free \in QueuerState
      BY DEF Free, QueuerState
    <2>3. CASE QueueNext(q)
      <3>1. queuer[q].todo \in SUBSET Keys /\ queuer[q].next \in {"idle", "item"}
        BY QueuerType
      <3>2. CASE \E k : queuer' = [queuer EXCEPT ![q].todo = @ \ {k}]
        BY <3>1, <3>2 DEF TypeOK, QueuerState
      <3>3. CASE \E next \in {"idle", "item"} : QueuerSet(q, next, {}, "idle")
        BY <3>3, QueuerType
      <3> QED BY <2>3, <3>1, <3>2, <3>3 DEF QueueNext
    <2>4. CASE QueuerFails(q)
      BY <2>2, <2>4 DEF QueuerFails, TypeOK
    <2>5. CASE Documents(q) \/ RegenerateConfig(q) \/ ItemConfig(q) \/ Backfill(q)
      BY <2>5, QueuerType DEF Documents, RegenerateConfig, ItemConfig, Backfill, TypeOK
    <2>6. CASE ItemDeleteChunks(q) \/ ItemCreateChunks(q) \/ ItemIndexed(q) \/ ItemReset(q)
      BY <2>6, QueuerType DEF ItemDeleteChunks, ItemCreateChunks, ItemIndexed, ItemReset
    <2>7. CASE Request(q)
      BY <2>1, <2>7, QueuerType DEF Request, UpdateConfig, RegenerateCourse, QueueModuleItem
    <2> QED BY <2>3, <2>4, <2>5, <2>6, <2>7 DEF QueuerStep
  <1>2. cfg' \in SUBSET Keys /\ text' \in BOOLEAN /\ indexed' \in BOOLEAN /\ deleted' \in BOOLEAN
    BY PreGenerationAssumption
       DEF QueuerStep, Request, Documents, QueueNext, RegenerateConfig, ItemDeleteChunks,
           ItemCreateChunks, ItemIndexed, ItemConfig, ItemReset, Backfill, UpdateConfig,
           RegenerateCourse, QueueModuleItem, QueuerFails, TypeOK
  <1>3. /\ row' \in [Keys -> Row] /\ tick' \in [Ticks -> TickState]
        /\ \A t \in Ticks : tick'[t].pc = tick[t].pc /\ tick'[t].ex = tick[t].ex
    <2>1. CASE UNCHANGED <<row, tick>>
      BY <2>1 DEF TypeOK
    <2>2. CASE QueueNext(q)
      <3>1. UNCHANGED tick /\ (UNCHANGED row \/ \E k \in queuer[q].todo : SetStatus(k, "pending"))
        BY <2>2 DEF QueueNext
      <3>2. ASSUME NEW k \in Keys, SetStatus(k, "pending") PROVE row' \in [Keys -> Row]
        BY <3>2 DEF SetStatus, TypeOK, Row
      <3>3. queuer[q].todo \in SUBSET Keys
        BY QueuerType
      <3> QED BY <3>1, <3>2, <3>3 DEF TypeOK
    <2>3. CASE Reset
      BY <2>3, ResetTypes
    <2> QED BY <2>1, <2>2, <2>3
            DEF QueuerStep, Request, Documents, RegenerateConfig, ItemDeleteChunks,
                ItemCreateChunks, ItemIndexed, ItemConfig, ItemReset, Backfill, UpdateConfig,
                RegenerateCourse, QueueModuleItem, QueuerFails
  <1>4. order' \in Seq(Keys)
    <2>1. CASE QueueNext(q)
      <3>1. queuer[q].todo \in SUBSET Keys
        BY QueuerType
      <3> QED BY <2>1, <3>1 DEF QueueNext, TypeOK
    <2> QED BY <2>1
            DEF QueuerStep, Request, Documents, RegenerateConfig, ItemDeleteChunks,
                ItemCreateChunks, ItemIndexed, ItemConfig, ItemReset, Backfill, UpdateConfig,
                RegenerateCourse, QueueModuleItem, QueuerFails, TypeOK
  <1> QED BY <1>1, <1>2, <1>3, <1>4 DEF TypeOK

LEMMA TypeNext == ASSUME TypeOK, [Next]_vars PROVE TypeOK'
  <1>1. CASE RegenerateDocument
    BY <1>1, ResetTypes DEF RegenerateDocument, TypeOK
  <1>2. CASE DeleteDocument
    BY <1>2 DEF DeleteDocument, TypeOK, Row
  <1>3. CASE Crash
    <2>1. Free \in QueuerState
      BY DEF Free, QueuerState, QueuerPcs
    <2> QED BY <1>3, <2>1, RestType DEF Crash, TypeOK
  <1>4. CASE UNCHANGED vars
    BY <1>4 DEF vars, TypeOK
  <1> QED BY <1>1, <1>2, <1>3, <1>4, TickTypes, QueuerTypes DEF Next

(* The table, the ticks and the queue keep their types, whether or not two *)
(* ticks find the same exercise.                                           *)
THEOREM TypeCorrect == Spec => []TypeOK
  <1>1. Init => TypeOK
    BY InitInv DEF Inv
  <1>2. TypeOK /\ [Next]_vars => TypeOK'
    BY TypeNext
  <1> QED BY <1>1, <1>2, PTL DEF Spec
-----------------------------------------------------------------------------
LEMMA GoneStays ==
  ASSUME TypeOK, [Next]_vars, NEW k \in Keys, row[k].status = "gone"
  PROVE  row'[k].status = "gone"
  <1> DEFINE Goal == row'[k].status = "gone"
  <1>1. ASSUME UNCHANGED row PROVE Goal
    BY <1>1
  <1>2. ASSUME Reset PROVE Goal
    BY <1>2 DEF Reset
  <1>3. ASSUME NEW t \in Ticks, TickStep(t) PROVE Goal
    BY <1>3 DEF TickStep, TickFind, TickMark, TickText, TickDoc, TickLlm, TickDone, TickBlank,
           TickError, TickWrite, TickFails, SetStatus, TypeOK
  <1>4. ASSUME NEW q \in Queuers, QueueNext(q) PROVE Goal
    BY <1>4 DEF QueueNext, SetStatus, TypeOK
  <1>5. ASSUME DeleteDocument PROVE Goal
    BY <1>5 DEF DeleteDocument
  <1> HIDE DEF Goal
  <1>6. ASSUME NEW q \in Queuers, QueuerStep(q) \/ Backfill(q) \/ Request(q) \/ QueuerFails(q)
        PROVE  Goal
    BY <1>1, <1>2, <1>4, <1>6
       DEF QueuerStep, Request, Documents, RegenerateConfig, ItemDeleteChunks,
           ItemCreateChunks, ItemIndexed, ItemConfig, ItemReset, Backfill, UpdateConfig,
           RegenerateCourse, QueueModuleItem, QueuerFails
  <1>7. Goal
    BY <1>1, <1>2, <1>3, <1>5, <1>6 DEF Next, RegenerateDocument, Crash, vars
  <1> QED BY <1>7 DEF Goal

(* The order of the queue.  A row that exists is in it, and a tick holds   *)
(* one that exists or existed.                                             *)
Queued(k) == \E i \in DOMAIN order : order[i] = k

OrderInv == /\ \A i, j \in DOMAIN order : order[i] = order[j] => i = j
            /\ \A k \in Keys : row[k].status = "absent" => ~Queued(k)
            /\ \A k \in Keys : row[k].status \notin {"absent", "gone"} => Queued(k)
            /\ \A t \in Ticks : tick[t].pc # "idle" => row[tick[t].ex].status # "absent"

(* What a step does to the order: one row that was absent is added, or     *)
(* nothing, and then no row appears.                                       *)
LEMMA OrderSteps ==
  ASSUME TypeOK, OrderInv, [Next]_vars
  PROVE  \/ \E k \in Keys : /\ row[k].status = "absent"
                            /\ SetStatus(k, "pending")
                            /\ order' = Append(order, k)
         \/ /\ UNCHANGED order
            /\ \A k \in Keys : \/ row'[k].status = row[k].status
                               \/ row'[k].status = "gone"
                               \/ row[k].status # "absent" /\ row'[k].status # "absent"
  <1> DEFINE Adds == \E k \in Keys : /\ row[k].status = "absent"
                                     /\ SetStatus(k, "pending")
                                     /\ order' = Append(order, k)
             Keeps == /\ UNCHANGED order
                      /\ \A k \in Keys : \/ row'[k].status = row[k].status
                                         \/ row'[k].status = "gone"
                                         \/ row[k].status # "absent" /\ row'[k].status # "absent"
  <1>1. ASSUME UNCHANGED <<row, order>> PROVE Keeps
    BY <1>1
  <1>2. ASSUME Reset, UNCHANGED order PROVE Keeps
    BY <1>2 DEF Reset
  <1>3. ASSUME NEW t \in Ticks, TickMark(t) \/ TickDone(t) \/ TickBlank(t) \/ TickError(t)
        PROVE  Keeps
    <2>1. tick[t].ex \in Keys /\ row[tick[t].ex].status # "absent"
      BY <1>3, HeldKey DEF TickMark, TickDone, TickBlank, TickError, TickWrite, OrderInv
    <2>2. ASSUME NEW s \in {"generating", "done", "error"}, NEW c,
                 \/ SetStatus(tick[t].ex, s)
                 \/ row' = [row EXCEPT ![tick[t].ex] = [status |-> s, content |-> c]]
          PROVE  /\ \A k \in Keys : k = tick[t].ex \/ row'[k].status = row[k].status
                 /\ row'[tick[t].ex].status = s
      BY <2>1, <2>2 DEF SetStatus, TypeOK, Row
    <2>3. CASE TickMark(t)
      BY <2>1, <2>2, <2>3 DEF TickMark
    <2>4. ASSUME NEW pc, NEW s \in {"done", "error"}, TickWrite(t, pc, s) PROVE Keeps
      <3>1. UNCHANGED order /\ \E c : row' = [row EXCEPT ![tick[t].ex] = [status |-> s, content |-> c]]
        BY <2>4 DEF TickWrite
      <3> QED BY <2>1, <2>2, <3>1
    <2> HIDE DEF Keeps
    <2> QED BY <1>3, <2>3, <2>4 DEF TickDone, TickBlank, TickError
  <1>4. ASSUME NEW q \in Queuers, QueueNext(q) PROVE Adds \/ Keeps
    <2>1. CASE UNCHANGED <<row, order>>
      BY <1>1, <2>1
    <2> HIDE DEF Keeps
    <2> QED BY <1>4, <2>1, QueuerType DEF QueueNext
  <1>5. ASSUME DeleteDocument PROVE Keeps
    BY <1>5 DEF DeleteDocument
  <1> HIDE DEF Adds, Keeps
  <1>6. ASSUME NEW t \in Ticks, TickStep(t) PROVE Keeps
    BY <1>1, <1>3, <1>6 DEF TickStep, TickFind, TickText, TickDoc, TickLlm, TickFails
  <1>7. ASSUME NEW q \in Queuers, QueuerStep(q) \/ Backfill(q) \/ Request(q) \/ QueuerFails(q)
        PROVE  Adds \/ Keeps
    <2>1. CASE UNCHANGED <<row, order>>
      BY <1>1, <2>1
    <2>2. CASE Reset /\ UNCHANGED order
      BY <1>2, <2>2
    <2> QED BY <1>4, <1>7, <2>1, <2>2
            DEF QueuerStep, Request, Documents, RegenerateConfig, ItemDeleteChunks,
                ItemCreateChunks, ItemIndexed, ItemConfig, ItemReset, Backfill, UpdateConfig,
                RegenerateCourse, QueueModuleItem, QueuerFails
  <1>8. ASSUME RegenerateDocument \/ Crash \/ UNCHANGED vars PROVE Keeps
    BY <1>1, <1>2, <1>8 DEF RegenerateDocument, Crash, vars
  <1>9. Adds \/ Keeps
    BY <1>5, <1>6, <1>7, <1>8 DEF Next
  <1> QED BY <1>9 DEF Adds, Keeps

LEMMA HeldNext ==
  ASSUME TypeOK, OrderInv, [Next]_vars, NEW t \in Ticks, tick'[t].pc # "idle"
  PROVE  /\ tick'[t].ex \in Keys
         /\ row[tick'[t].ex].status # "absent"
  <1> DEFINE Same == tick[t].pc # "idle" /\ tick'[t].ex = tick[t].ex
             Finds == \E k \in Keys : tick'[t] = Holding(k) /\ row[k].status = "pending"
  <1>1. ASSUME tick'[t] = tick[t] PROVE Same
    BY <1>1
  <1>2. ASSUME NEW u \in Ticks, TickStep(u), u # t PROVE tick'[t] = tick[t]
    BY <1>2 DEF TickStep, TickFind, TickMark, TickText, TickDoc, TickLlm, TickDone, TickBlank,
           TickError, TickWrite, TickFails, TickGoto, Rest, TypeOK
  <1>3. ASSUME TickFind(t) PROVE Finds
    BY <1>3 DEF TickFind, OldestPending, TypeOK
  <1>4. ASSUME TickStep(t), ~TickFind(t) PROVE Same
    <2>1. ~Rest(t)
      BY RestType DEF Rest, TypeOK
    <2>2. \E pc : tick[t].pc # "idle" /\ TickGoto(t, pc)
      BY <1>4, <2>1 DEF TickStep, TickMark, TickText, TickDoc, TickLlm, TickDone, TickBlank,
             TickError, TickWrite, TickFails
    <2> QED BY <2>2 DEF TickGoto, TypeOK, TickState
  <1>5. ASSUME Reset PROVE Same
    BY <1>5, ResetTypes
  <1>6. ASSUME NEW q \in Queuers, QueuerStep(q) \/ Backfill(q) \/ Request(q) \/ QueuerFails(q)
        PROVE  UNCHANGED tick \/ Reset
    BY <1>6 DEF QueuerStep, Request, Documents, RegenerateConfig, ItemDeleteChunks,
           ItemCreateChunks, ItemIndexed, ItemConfig, ItemReset, Backfill, UpdateConfig,
           RegenerateCourse, QueueModuleItem, QueuerFails, QueueNext
  <1>7. ASSUME Crash PROVE FALSE
    BY <1>7, RestType DEF Crash
  <1>8. ASSUME RegenerateDocument \/ DeleteDocument \/ UNCHANGED vars PROVE UNCHANGED tick \/ Reset
    BY <1>8 DEF RegenerateDocument, DeleteDocument, vars
  <1> HIDE DEF Same, Finds
  <1>9. CASE Same
    BY <1>9, HeldKey DEF Same, OrderInv
  <1>10. CASE Finds
    <2>1. PICK k \in Keys : tick'[t] = Holding(k) /\ row[k].status = "pending"
      BY <1>10 DEF Finds
    <2>2. tick'[t].ex = k
      BY <2>1 DEF Holding
    <2> QED BY <2>1, <2>2
  <1>11. Same \/ Finds
    BY <1>1, <1>2, <1>3, <1>4, <1>5, <1>6, <1>7, <1>8 DEF Next
  <1> QED BY <1>9, <1>10, <1>11

LEMMA OrderNext == ASSUME TypeOK, OrderInv, [Next]_vars PROVE OrderInv'
  <1>1. CASE /\ UNCHANGED order
             /\ \A k \in Keys : \/ row'[k].status = row[k].status
                                \/ row'[k].status = "gone"
                                \/ row[k].status # "absent" /\ row'[k].status # "absent"
    <2>1. \A k \in Keys : Queued(k)' <=> Queued(k)
      BY <1>1 DEF Queued
    <2>2. ASSUME NEW k \in Keys, row'[k].status \notin {"absent", "gone"} PROVE Queued(k)
      <3>1. CASE row[k].status = "gone"
        <4>1. row'[k].status = "gone"
          BY <3>1, GoneStays
        <4> QED BY <2>2, <4>1
      <3>2. CASE row[k].status # "gone"
        BY <1>1, <2>2, <3>2 DEF OrderInv
      <3> QED BY <3>1, <3>2
    <2>3. ASSUME NEW k \in Keys, row'[k].status = "absent" PROVE ~Queued(k)
      BY <1>1, <2>3 DEF OrderInv
    <2>4. ASSUME NEW t \in Ticks, tick'[t].pc # "idle" PROVE row'[tick'[t].ex].status # "absent"
      BY <1>1, <2>4, HeldNext
    <2> QED BY <1>1, <2>1, <2>2, <2>3, <2>4 DEF OrderInv
  <1>2. ASSUME NEW k \in Keys, row[k].status = "absent", SetStatus(k, "pending"),
               order' = Append(order, k)
        PROVE  OrderInv'
    <2>1. /\ order \in Seq(Keys) /\ DOMAIN order' = 1 .. Len(order) + 1
          /\ order'[Len(order) + 1] = k
          /\ \A i \in DOMAIN order : i \in DOMAIN order' /\ order'[i] = order[i] /\ order[i] # k
      BY <1>2 DEF TypeOK, OrderInv, Queued
    <2>2. \A j \in Keys : j # k => row'[j] = row[j] /\ (Queued(j)' <=> Queued(j))
      BY <1>2, <2>1 DEF SetStatus, TypeOK, Queued
    <2>3. row'[k].status = "pending" /\ Queued(k)'
      BY <1>2, <2>1 DEF SetStatus, TypeOK, Row, Queued
    <2>4. \A i, j \in DOMAIN order' : order'[i] = order'[j] => i = j
      BY <2>1 DEF OrderInv
    <2>5. ASSUME NEW t \in Ticks, tick'[t].pc # "idle" PROVE row'[tick'[t].ex].status # "absent"
      BY <2>2, <2>3, <2>5, HeldNext
    <2> QED BY <2>2, <2>3, <2>4, <2>5 DEF OrderInv
  <1> QED BY <1>1, <1>2, OrderSteps

LEMMA LeastIndex ==
  ASSUME NEW S \in SUBSET Nat, S # {}
  PROVE  \E i \in S : \A j \in S : i <= j
  <1>1. IsWellFoundedOn(OpToRel(<, Nat), Nat)
    BY NatLessThanWellFounded
  <1>2. PICK i \in S : \A j \in S : ~(<<j, i>> \in OpToRel(<, Nat))
    BY <1>1, WFMin
  <1>3. \A j \in S : ~(j < i)
    BY <1>2 DEF OpToRel
  <1> QED BY <1>3

LEMMA OldestFound ==
  ASSUME TypeOK, OrderInv, NEW k \in Keys, row[k].status = "pending"
  PROVE  \E j \in Keys : OldestPending(j)
  <1> DEFINE S == {i \in DOMAIN order : row[order[i]].status = "pending"}
  <1>1. S # {} /\ S \in SUBSET Nat
    BY DEF OrderInv, Queued, TypeOK
  <1>2. PICK i \in S : \A j \in S : i <= j
    BY <1>1, LeastIndex
  <1>3. i \in DOMAIN order /\ order[i] \in Keys /\ row[order[i]].status = "pending"
    BY <1>2 DEF TypeOK
  <1>4. ASSUME NEW j \in 1 .. i - 1 PROVE row[order[j]].status # "pending"
    <2>1. j \in DOMAIN order /\ ~(i <= j)
      BY <1>3 DEF TypeOK
    <2> QED BY <1>2, <2>1
  <1> QED BY <1>3, <1>4 DEF OldestPending

(* An exercise is queued once, and no failure, crash or reset hides the    *)
(* pending ones from the ticks.                                            *)
THEOREM QueueServesAlways == Spec => []QueueServes
  <1>1. Init => OrderInv
    BY RestType DEF Init, OrderInv, Queued
  <1>2. TypeOK /\ OrderInv /\ [Next]_vars => OrderInv'
    BY OrderNext
  <1>3. TypeOK /\ OrderInv => QueueServes
    BY OldestFound DEF OrderInv, QueueServes
  <1> QED BY <1>1, <1>2, <1>3, TypeCorrect, PTL DEF Spec
-----------------------------------------------------------------------------
(* While no call fails and nothing crashes, a tick that has marked its     *)
(* exercise stays with it until it writes the outcome or the row is gone.  *)
HeldFor(k) == \E t \in Ticks : Busy(t) /\ tick[t].ex = k

LEMMA BusyOn ==
  ASSUME Faults = {}, TypeOK, [Next]_vars, NEW t \in Ticks, Busy(t)
  PROVE  \/ Busy(t)' /\ tick'[t].ex = tick[t].ex
         \/ row'[tick[t].ex].status \in {"done", "error", "gone"}
  <1> DEFINE Stays == Busy(t)' /\ tick'[t].ex = tick[t].ex
             Goal == Stays \/ row'[tick[t].ex].status \in {"done", "error", "gone"}
  <1>1. ASSUME tick'[t].pc = tick[t].pc, tick'[t].ex = tick[t].ex PROVE Stays
    BY <1>1 DEF Busy
  <1>2. ASSUME NEW u \in Ticks, TickStep(u), u # t PROVE tick'[t] = tick[t]
    BY <1>2 DEF TickStep, TickFind, TickMark, TickText, TickDoc, TickLlm, TickDone, TickBlank,
           TickError, TickWrite, TickFails, TickGoto, Rest, TypeOK
  <1>3. ASSUME NEW pc, pc \notin {"idle", "mark"}, TickGoto(t, pc) PROVE Stays
    BY <1>3 DEF TickGoto, Busy, TypeOK, TickState
  <1>4. ASSUME NEW pc, NEW status \in {"done", "error"}, TickWrite(t, pc, status) PROVE Goal
    <2>1. tick[t].ex \in Keys
      BY HeldKey DEF Busy
    <2>2. \E c : row' = [row EXCEPT ![tick[t].ex] = [status |-> status, content |-> c]]
      BY <1>4 DEF TickWrite
    <2> QED BY <2>1, <2>2 DEF TypeOK
  <1>5. ASSUME TickFails(t) PROVE Goal
    <2>1. row[tick[t].ex].status = "gone" /\ UNCHANGED row
      BY <1>5 DEF TickFails
    <2> QED BY <2>1
  <1>6. ASSUME TickStep(t) PROVE Goal
    <2>1. ~TickFind(t) /\ ~TickMark(t)
      BY DEF TickFind, TickMark, Busy
    <2>2. CASE TickText(t) \/ TickDoc(t) \/ TickLlm(t)
      BY <1>3, <2>2 DEF TickText, TickDoc, TickLlm
    <2>3. CASE TickDone(t) \/ TickBlank(t) \/ TickError(t)
      BY <1>4, <2>3 DEF TickDone, TickBlank, TickError
    <2> HIDE DEF Goal
    <2> QED BY <1>5, <1>6, <2>1, <2>2, <2>3 DEF TickStep
  <1>7. ASSUME Reset PROVE Stays
    BY <1>1, <1>7, ResetTypes
  <1>8. ASSUME NEW q \in Queuers, QueuerStep(q) \/ Backfill(q) \/ Request(q) \/ QueuerFails(q)
        PROVE  UNCHANGED tick \/ Reset
    BY <1>8 DEF QueuerStep, Request, Documents, RegenerateConfig, ItemDeleteChunks,
           ItemCreateChunks, ItemIndexed, ItemConfig, ItemReset, Backfill, UpdateConfig,
           RegenerateCourse, QueueModuleItem, QueuerFails, QueueNext
  <1>9. ASSUME Crash PROVE FALSE
    BY <1>9 DEF Crash
  <1>10. ASSUME RegenerateDocument \/ DeleteDocument \/ UNCHANGED vars PROVE UNCHANGED tick \/ Reset
    BY <1>10 DEF RegenerateDocument, DeleteDocument, vars
  <1>11. Stays => Goal
    OBVIOUS
  <1> HIDE DEF Stays, Goal
  <1>12. Goal
    BY <1>1, <1>2, <1>6, <1>7, <1>8, <1>9, <1>10, <1>11 DEF Next
  <1> QED BY <1>12 DEF Goal, Stays

(* Only the tick that holds an exercise marks it as being generated.       *)
LEMMA GeneratingFrom ==
  ASSUME TypeOK, [Next]_vars, NEW k \in Keys, row'[k].status = "generating"
  PROVE  row[k].status = "generating" \/ HeldFor(k)'
  <1> DEFINE Was == row[k].status = "generating"
             Goal == Was \/ HeldFor(k)'
  <1>1. ASSUME UNCHANGED row PROVE Was
    BY <1>1
  <1>2. ASSUME Reset PROVE Was
    BY <1>2 DEF Reset
  <1>3. ASSUME NEW q \in Queuers, QueueNext(q) PROVE Was
    BY <1>3 DEF QueueNext, SetStatus, TypeOK, Row
  <1>4. ASSUME NEW t \in Ticks, TickMark(t) PROVE Goal
    <2>1. CASE row[tick[t].ex].status = "gone"
      BY <1>1, <1>4, <2>1 DEF TickMark
    <2>2. CASE SetStatus(tick[t].ex, "generating") /\ TickGoto(t, "text")
      <3>1. CASE tick[t].ex = k
        <4>1. tick'[t].pc = "text" /\ tick'[t].ex = k
          BY <2>2, <3>1 DEF TickGoto, TypeOK, TickState
        <4> QED BY <4>1 DEF HeldFor, Busy
      <3>2. CASE tick[t].ex # k
        BY <2>2, <3>2 DEF SetStatus, TypeOK
      <3> QED BY <3>1, <3>2
    <2> QED BY <1>4, <2>1, <2>2 DEF TickMark
  <1>5. ASSUME NEW t \in Ticks, NEW pc, NEW status \in {"done", "error"}, TickWrite(t, pc, status)
        PROVE  Was
    <2>1. \E c : row' = [row EXCEPT ![tick[t].ex] = [status |-> status, content |-> c]]
      BY <1>5 DEF TickWrite
    <2> QED BY <2>1 DEF TypeOK
  <1>6. ASSUME DeleteDocument PROVE FALSE
    BY <1>6 DEF DeleteDocument
  <1>7. Was => Goal
    OBVIOUS
  <1> HIDE DEF Was, Goal
  <1>8. ASSUME NEW t \in Ticks, TickStep(t) PROVE Goal
    BY <1>1, <1>4, <1>5, <1>7, <1>8
       DEF TickStep, TickFind, TickText, TickDoc, TickLlm, TickDone, TickBlank, TickError, TickFails
  <1>9. ASSUME NEW q \in Queuers, QueuerStep(q) \/ Backfill(q) \/ Request(q) \/ QueuerFails(q)
        PROVE  Was
    BY <1>1, <1>2, <1>3, <1>9
       DEF QueuerStep, Request, Documents, RegenerateConfig, ItemDeleteChunks,
           ItemCreateChunks, ItemIndexed, ItemConfig, ItemReset, Backfill, UpdateConfig,
           RegenerateCourse, QueueModuleItem, QueuerFails
  <1>10. Goal
    BY <1>1, <1>2, <1>6, <1>7, <1>8, <1>9 DEF Next, RegenerateDocument, Crash, vars
  <1> QED BY <1>10 DEF Goal, Was

(* While calls succeed and nothing crashes, no exercise is left behind in  *)
(* generating, also when two ticks find the same one.                      *)
THEOREM GeneratingHeldAlways == Faults = {} /\ Spec => []GeneratingHeld
  <1> SUFFICES ASSUME Faults = {} PROVE Spec => []GeneratingHeld
    OBVIOUS
  <1>1. Init => GeneratingHeld
    BY DEF Init, GeneratingHeld
  <1>2. ASSUME TypeOK, GeneratingHeld, [Next]_vars PROVE GeneratingHeld'
    <2> SUFFICES ASSUME NEW k \in Keys, row'[k].status = "generating" PROVE HeldFor(k)'
      BY DEF GeneratingHeld, HeldFor
    <2>1. ASSUME NEW t \in Ticks, Busy(t), tick[t].ex = k PROVE HeldFor(k)'
      <3>1. \/ Busy(t)' /\ tick'[t].ex = k
            \/ row'[k].status \in {"done", "error", "gone"}
        BY <1>2, <2>1, BusyOn
      <3> QED BY <3>1 DEF HeldFor
    <2> QED BY <1>2, <2>1, GeneratingFrom DEF GeneratingHeld
  <1>3. TypeOK /\ GeneratingHeld /\ [Next]_vars => GeneratingHeld'
    BY <1>2
  <1> QED BY <1>1, <1>3, TypeCorrect, PTL DEF Spec
=============================================================================
