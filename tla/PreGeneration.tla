--------------------------- MODULE PreGeneration ---------------------------
(***************************************************************************)
(* The pre-generation of exercises for the pages of a course document: the *)
(* table pre_generated_exercises, the timer that processes one pending     *)
(* exercise every 5 s, the backfill and the teacher's requests.            *)
(*                                                                         *)
(* A key stands for (page, strategy, set), in the order in which           *)
(* queueDocument visits them.  One document: the exercises of two share    *)
(* only the order in which they are processed.                             *)
(***************************************************************************)
EXTENDS Integers, Sequences, FiniteSets

CONSTANTS Keys,      \* exercises of the document, as numbers
          Blank,     \* those of pages without text
          Configs,   \* what a configuration asks for; {} is mode 'none'
          Ticks,     \* executions of processNextPending()
          Queuers,   \* executions of the backfill and of teacher requests
          None,      \* no exercise
          Patient,   \* TRUE: a tick marks its exercise before the next looks
          Faults     \* subset of {"db", "crash"}

ASSUME PreGenerationAssumption ==
  /\ Keys \subseteq Nat
  /\ Blank \subseteq Keys
  /\ Configs \subseteq SUBSET Keys
  /\ None \notin Keys
  /\ Patient \in BOOLEAN
  /\ Faults \subseteq {"db", "crash"}

VARIABLES row,      \* pre_generated_exercises
          order,    \* its keys in createdAt order
          cfg,      \* what pre_generation_configs asks for
          text,     \* document_chunks holds the document's text
          indexed,  \* source_documents.indexedAt is set
          deleted,  \* the document has been deleted
          tick,     \* local state of each tick
          queuer    \* local state of each queuer

vars == <<row, order, cfg, text, indexed, deleted, tick, queuer>>
-----------------------------------------------------------------------------
(* content: "late" is content whose generation began before the row was    *)
(* last reset.                                                             *)
Row == [status  : {"absent", "pending", "generating", "done", "error", "gone"},
        content : {"empty", "fresh", "late"}]

(* late: the exercise has been reset since the tick began to generate.     *)
TickPcs   == {"idle", "mark", "text", "doc", "llm", "done", "blank", "error"}
TickState == [pc : TickPcs, ex : Keys \cup {None}, late : BOOLEAN]

(* next: what the request goes on with once it has queued the document.    *)
QueuerPcs   == {"idle", "docs", "queue", "config", "chunks", "index",
                "item", "item_config", "item_reset"}
QueuerState == [pc : QueuerPcs, todo : SUBSET Keys, next : {"idle", "item"}]

Resting    == [pc |-> "idle", ex |-> None, late |-> FALSE]
Holding(k) == [pc |-> "mark", ex |-> k, late |-> FALSE]
Free       == [pc |-> "idle", todo |-> {}, next |-> "idle"]

Init ==
  /\ row = [k \in Keys |-> [status |-> "absent", content |-> "empty"]]
  /\ order = <<>>
  /\ cfg = {}
  /\ indexed \in BOOLEAN
  /\ text = indexed
  /\ deleted = FALSE
  /\ tick = [t \in Ticks |-> Resting]
  /\ queuer = [q \in Queuers |-> Free]
-----------------------------------------------------------------------------
(* The worker: processNextPending() *)

TickGoto(t, pc) == tick' = [tick EXCEPT ![t].pc = pc]

Rest(t) == tick' = [tick EXCEPT ![t] = Resting]

SetStatus(k, status) == row' = [row EXCEPT ![k].status = status]

OldestPending(k) ==
  \E i \in DOMAIN order : /\ order[i] = k
                          /\ row[k].status = "pending"
                          /\ \A j \in 1 .. i - 1 : row[order[j]].status # "pending"

(* Mutant: exercises being generated are found again. *)
TickFindAgain(t) ==
  /\ tick[t].pc = "idle"
  /\ Patient => \A u \in Ticks : tick[u].pc # "mark"
  /\ \E k \in Keys : /\ row[k].status \in {"pending", "generating"}
                     /\ tick' = [tick EXCEPT ![t] = Holding(k)]
  /\ UNCHANGED <<row, order, cfg, text, indexed, deleted, queuer>>

(* findFirst where status is 'pending', oldest first.                      *)
TickFind(t) ==
  /\ tick[t].pc = "idle"
  /\ Patient => \A u \in Ticks : tick[u].pc # "mark"
  /\ \E k \in Keys : /\ OldestPending(k)
                     /\ tick' = [tick EXCEPT ![t] = Holding(k)]
  /\ UNCHANGED <<row, order, cfg, text, indexed, deleted, queuer>>

(* The update by id that marks it, whatever its status has become; a row   *)
(* that has been deleted makes it throw, outside the try.                  *)
TickMark(t) ==
  LET k == tick[t].ex
  IN /\ tick[t].pc = "mark"
     /\ \/ /\ row[k].status # "gone"
           /\ SetStatus(k, "generating")
           /\ TickGoto(t, "text")
        \/ /\ row[k].status = "gone"
           /\ Rest(t)
           /\ UNCHANGED row
     /\ UNCHANGED <<order, cfg, text, indexed, deleted, queuer>>

(* getPageText() *)
TickText(t) ==
  /\ tick[t].pc = "text"
  /\ TickGoto(t, IF text /\ tick[t].ex \notin Blank THEN "doc" ELSE "blank")
  /\ UNCHANGED <<row, order, cfg, text, indexed, deleted, queuer>>

TickDoc(t) ==
  /\ tick[t].pc = "doc"
  /\ TickGoto(t, IF deleted THEN "error" ELSE "llm")
  /\ UNCHANGED <<row, order, cfg, text, indexed, deleted, queuer>>

(* preGeneratePage(): the language model answers, or it throws.            *)
TickLlm(t) ==
  /\ tick[t].pc = "llm"
  /\ TickGoto(t, "done") \/ TickGoto(t, "error")
  /\ UNCHANGED <<row, order, cfg, text, indexed, deleted, queuer>>

(* Mutant: an exercise of a page without text is left as it is. *)
TickWriteSilent(t, pc, status) ==
  /\ tick[t].pc = pc
  /\ row[tick[t].ex].status # "gone"
  /\ IF pc = "blank" THEN UNCHANGED row
     ELSE row' = [row EXCEPT ![tick[t].ex] =
                    [status  |-> status,
                     content |-> IF status = "error" THEN @.content
                                 ELSE IF tick[t].late THEN "late" ELSE "fresh"]]
  /\ Rest(t)
  /\ UNCHANGED <<order, cfg, text, indexed, deleted, queuer>>

(* The update by id with the outcome. *)
TickWrite(t, pc, status) ==
  /\ tick[t].pc = pc
  /\ row[tick[t].ex].status # "gone"
  /\ row' = [row EXCEPT ![tick[t].ex] =
               [status  |-> status,
                content |-> IF status = "error" THEN @.content
                            ELSE IF tick[t].late THEN "late" ELSE "fresh"]]
  /\ Rest(t)
  /\ UNCHANGED <<order, cfg, text, indexed, deleted, queuer>>

(* Mutant: a status nobody looks for. *)
TickErrorFailed(t) == TickWrite(t, "error", "failed")

TickDone(t)  == TickWrite(t, "done", "done")
TickBlank(t) == TickWrite(t, "blank", "error")
TickError(t) == TickWrite(t, "error", "error")

(* An awaited call throws: outside the try the tick ends, inside it the    *)
(* error is written next, and when that throws as well the tick ends.      *)
TickFails(t) ==
  /\ tick[t].pc # "idle"
  /\ \/ "db" \in Faults
     \/ tick[t].pc \in {"done", "blank", "error"} /\ row[tick[t].ex].status = "gone"
  /\ IF tick[t].pc \in {"mark", "error"} THEN Rest(t) ELSE TickGoto(t, "error")
  /\ UNCHANGED <<row, order, cfg, text, indexed, deleted, queuer>>
-----------------------------------------------------------------------------
(* Queueing *)

QueuerSet(q, pc, todo, next) ==
  queuer' = [queuer EXCEPT ![q] = [pc |-> pc, todo |-> todo, next |-> next]]

QueuerGoto(q, pc) == queuer' = [queuer EXCEPT ![q].pc = pc]

(* Mutant: exercises being generated are reset as well. *)
ResetAll ==
  LET S == {k \in Keys : row[k].status \in {"done", "error", "generating"}}
  IN /\ row' = [k \in Keys |-> IF k \in S THEN [status |-> "pending", content |-> "empty"]
                               ELSE row[k]]
     /\ tick' = [t \in Ticks |-> IF tick[t].ex \in S THEN [tick[t] EXCEPT !.late = TRUE]
                                 ELSE tick[t]]

(* updateMany where status is 'done' or 'error'.                           *)
Reset ==
  LET S == {k \in Keys : row[k].status \in {"done", "error"}}
  IN /\ row' = [k \in Keys |-> IF k \in S THEN [status |-> "pending", content |-> "empty"]
                               ELSE row[k]]
     /\ tick' = [t \in Ticks |-> IF tick[t].ex \in S THEN [tick[t] EXCEPT !.late = TRUE]
                                 ELSE tick[t]]

(* runBackfill(): the configurations, then their documents. *)
Backfill(q) ==
  /\ queuer[q].pc = "idle"
  /\ cfg # {}
  /\ QueuerSet(q, "docs", cfg, "idle")
  /\ UNCHANGED <<row, order, cfg, text, indexed, deleted, tick>>

(* updateConfig(): queues the course's documents and does not await it.    *)
UpdateConfig(q, c) ==
  /\ queuer[q].pc = "idle"
  /\ cfg' = c
  /\ QueuerSet(q, IF c = {} THEN "idle" ELSE "docs", c, "idle")
  /\ UNCHANGED <<row, order, text, indexed, deleted, tick>>

(* queueDocumentsForCourse(): the document counts only once it is indexed. *)
Documents(q) ==
  /\ queuer[q].pc = "docs"
  /\ QueuerGoto(q, IF indexed /\ ~deleted THEN "queue" ELSE queuer[q].next)
  /\ UNCHANGED <<row, order, cfg, text, indexed, deleted, tick>>

(* Mutant: the loop ends at an exercise that exists. *)
QueueNextStops(q) ==
  LET todo == queuer[q].todo
  IN /\ queuer[q].pc = "queue"
     /\ \/ /\ todo = {} \/ \E k \in todo : row[k].status # "absent"
           /\ QueuerSet(q, queuer[q].next, {}, "idle")
           /\ UNCHANGED <<row, order>>
        \/ \E k \in todo :
             /\ \A j \in todo : k <= j
             /\ row[k].status = "absent"
             /\ SetStatus(k, "pending")
             /\ order' = Append(order, k)
             /\ queuer' = [queuer EXCEPT ![q].todo = @ \ {k}]
     /\ UNCHANGED <<cfg, text, indexed, deleted, tick>>

(* queueDocument(): one upsert per exercise, which leaves a row that       *)
(* exists alone; without the document its insertion throws.                *)
QueueNext(q) ==
  LET todo == queuer[q].todo
  IN /\ queuer[q].pc = "queue"
     /\ \/ /\ todo = {} \/ deleted
           /\ QueuerSet(q, IF deleted THEN "idle" ELSE queuer[q].next, {}, "idle")
           /\ UNCHANGED <<row, order>>
        \/ \E k \in todo :
             /\ ~deleted
             /\ \A j \in todo : k <= j
             /\ IF row[k].status = "absent"
                THEN SetStatus(k, "pending") /\ order' = Append(order, k)
                ELSE UNCHANGED <<row, order>>
             /\ queuer' = [queuer EXCEPT ![q].todo = @ \ {k}]
     /\ UNCHANGED <<cfg, text, indexed, deleted, tick>>

(* regenerateDocument() *)
RegenerateDocument ==
  /\ Reset
  /\ UNCHANGED <<order, cfg, text, indexed, deleted, queuer>>

(* regenerateCourse(): resets the indexed document, then queues it, then   *)
(* goes on with the PDFs of module items, which this one may be.           *)
RegenerateCourse(q) ==
  /\ queuer[q].pc = "idle"
  /\ IF indexed /\ ~deleted THEN Reset ELSE UNCHANGED <<row, tick>>
  /\ \E next \in {"idle", "item"} : QueuerSet(q, "config", {}, next)
  /\ UNCHANGED <<order, cfg, text, indexed, deleted>>

RegenerateConfig(q) ==
  /\ queuer[q].pc = "config"
  /\ QueuerSet(q, IF cfg = {} THEN queuer[q].next ELSE "docs", cfg, queuer[q].next)
  /\ UNCHANGED <<row, order, cfg, text, indexed, deleted, tick>>

(* queueModuleItemPregen(): indexModuleItemPdf() first.                    *)
QueueModuleItem(q) ==
  /\ queuer[q].pc = "idle"
  /\ ~deleted
  /\ QueuerSet(q, "item", {}, "idle")
  /\ UNCHANGED <<row, order, cfg, text, indexed, deleted, tick>>

ItemDeleteChunks(q) ==
  /\ queuer[q].pc = "item"
  /\ text' = FALSE
  /\ QueuerSet(q, "chunks", {}, "idle")
  /\ UNCHANGED <<row, order, cfg, indexed, deleted, tick>>

(* (documentId, chunkIndex) is unique: a second insertion throws, and so   *)
(* does one into a document that has been deleted.  A PDF without text is  *)
(* indexed without chunks.                                                 *)
ItemCreateChunks(q) ==
  /\ queuer[q].pc = "chunks"
  /\ \/ /\ text' = (text \/ ~deleted)
        /\ QueuerGoto(q, IF text \/ deleted THEN "idle" ELSE "index")
     \/ UNCHANGED text /\ QueuerGoto(q, "index")
  /\ UNCHANGED <<row, order, cfg, indexed, deleted, tick>>

ItemIndexed(q) ==
  /\ queuer[q].pc = "index"
  /\ indexed' = ~deleted
  /\ QueuerGoto(q, IF deleted THEN "idle" ELSE "item_config")
  /\ UNCHANGED <<row, order, cfg, text, deleted, tick>>

(* Mode 'none' counts as 'all'. *)
ItemConfig(q) ==
  /\ queuer[q].pc = "item_config"
  /\ QueuerSet(q, "item_reset", IF cfg = {} THEN Keys ELSE cfg, "idle")
  /\ UNCHANGED <<row, order, cfg, text, indexed, deleted, tick>>

ItemReset(q) ==
  /\ queuer[q].pc = "item_reset"
  /\ Reset
  /\ QueuerGoto(q, "queue")
  /\ UNCHANGED <<order, cfg, text, indexed, deleted>>

(* An awaited call throws.  updateConfig() does not handle the rejection   *)
(* of what it queues: it ends the API (Crash).                             *)
QueuerFails(q) ==
  /\ "db" \in Faults
  /\ queuer[q].pc # "idle"
  /\ queuer' = [queuer EXCEPT ![q] = Free]
  /\ UNCHANGED <<row, order, cfg, text, indexed, deleted, tick>>

(* The document is deleted, and its chunks and exercises with it.          *)
DeleteDocument ==
  /\ ~deleted
  /\ deleted' = TRUE
  /\ text' = FALSE
  /\ indexed' = FALSE
  /\ row' = [k \in Keys |-> [status |-> "gone", content |-> "empty"]]
  /\ UNCHANGED <<order, cfg, tick, queuer>>

(* The API dies, maybe of that rejection, and is restarted. *)
Crash ==
  /\ \/ "crash" \in Faults
     \/ "db" \in Faults /\ \E q \in Queuers : queuer[q].pc \in {"docs", "queue"}
  /\ tick' = [t \in Ticks |-> Resting]
  /\ queuer' = [q \in Queuers |-> Free]
  /\ UNCHANGED <<row, order, cfg, text, indexed, deleted>>
-----------------------------------------------------------------------------
TickStep(t) == \/ TickFind(t) \/ TickMark(t) \/ TickText(t) \/ TickDoc(t) \/ TickLlm(t)
               \/ TickDone(t) \/ TickBlank(t) \/ TickError(t) \/ TickFails(t)

QueuerStep(q) == \/ Documents(q) \/ QueueNext(q) \/ RegenerateConfig(q)
                 \/ ItemDeleteChunks(q) \/ ItemCreateChunks(q) \/ ItemIndexed(q)
                 \/ ItemConfig(q) \/ ItemReset(q)

Request(q) == \/ \E c \in Configs : UpdateConfig(q, c)
              \/ RegenerateCourse(q) \/ QueueModuleItem(q)

Next == \/ \E t \in Ticks : TickStep(t)
        \/ \E q \in Queuers : QueuerStep(q) \/ Backfill(q) \/ Request(q) \/ QueuerFails(q)
        \/ RegenerateDocument \/ DeleteDocument \/ Crash

Spec == Init /\ [][Next]_vars

(* setInterval keeps calling both functions and every call answers.        *)
FairSpec == /\ Spec
            /\ \A t \in Ticks : WF_vars(TickStep(t))
            /\ \A q \in Queuers : WF_vars(QueuerStep(q) \/ Backfill(q))
-----------------------------------------------------------------------------
(* The types of the table and of what each execution remembers.            *)
TypeOK == /\ row \in [Keys -> Row]
          /\ order \in Seq(Keys)
          /\ cfg \in SUBSET Keys
          /\ text \in BOOLEAN /\ indexed \in BOOLEAN /\ deleted \in BOOLEAN
          /\ tick \in [Ticks -> TickState]
          /\ \A t \in Ticks : tick[t].ex = None <=> tick[t].pc = "idle"
          /\ queuer \in [Queuers -> QueuerState]

Busy(t) == tick[t].pc \notin {"idle", "mark"}

(* "Mark as generating to prevent double-processing"                       *)
(* (pre-generation.service.ts:172): no two ticks generate one exercise.    *)
GeneratedAlone == \A t, u \in Ticks :
                    Busy(t) /\ Busy(u) /\ tick[t].ex = tick[u].ex => t = u

(* A teacher's reset is honoured: what a student is served was generated   *)
(* after the row was last reset.                                           *)
Honoured == \A k \in Keys : row[k].status = "done" => row[k].content = "fresh"

(* An exercise's createdAt stays when it is reset, so that teachers who    *)
(* reset for ever could keep the oldest ones pending.                      *)
SomeReset == \E k \in Keys : /\ row[k].status \in {"done", "error"}
                             /\ row'[k].status = "pending"

(* Without faults, and once the resets end, every pending exercise ends    *)
(* done or in error, or goes with its document.                            *)
Settles == <>[][~SomeReset]_vars => \A k \in Keys :
  row[k].status = "pending" ~> row[k].status \in {"done", "error", "gone"}

(* Without faults nothing stays in generating unattended, also when two    *)
(* ticks find the same exercise: the safety half of Settles.               *)
GeneratingHeld == \A k \in Keys :
  row[k].status = "generating" => \E t \in Ticks : Busy(t) /\ tick[t].ex = k

(* An exercise is queued once, and whatever failed or crashed, a tick that *)
(* looks for pending exercises finds the oldest while there is one.        *)
QueueServes ==
  /\ \A i, j \in DOMAIN order : order[i] = order[j] => i = j
  /\ \A k \in Keys : row[k].status = "pending" => \E j \in Keys : OldestPending(j)

(* Without faults a configuration that stays is filled in: every exercise  *)
(* it asks for is queued once the document is indexed and kept.            *)
Filled == \A k \in Keys :
  (<>[](k \in cfg /\ indexed /\ ~deleted)) => <>(row[k].status # "absent")

JobState(status) ==
  CASE status = "pending"    -> "waiting"
    [] status = "generating" -> "running"
    [] status = "error"      -> "failed"
    [] OTHER                 -> status

JL == INSTANCE JobLifecycle WITH
        Jobs    <- Keys,
        Workers <- Ticks,
        state   <- [k \in Keys |-> JobState(row[k].status)],
        holder  <- [t \in Ticks |-> IF Busy(t) THEN tick[t].ex ELSE None]

(* Ticks that mark in time make of the table a job table.                  *)
UsesJobLifecycle == JL!Spec
=============================================================================
