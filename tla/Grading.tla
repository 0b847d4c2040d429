------------------------------ MODULE Grading ------------------------------
(***************************************************************************)
(* The grading pipeline of the tutor: a student's attempt from its         *)
(* creation to its grade, the event_queue table, the Python grading worker *)
(* and the poller that tells the student.                                  *)
(*                                                                         *)
(* Each API request is a NestJS handler.  Between two database calls it    *)
(* awaits, so one action is one database call together with the code up to *)
(* the next one.  A worker step is one transaction of app/db.py.           *)
(*                                                                         *)
(* An answer stands for the points its content earns, so that no text has  *)
(* to be compared: for an mcq the right options it selects less the wrong  *)
(* ones, of which there may be more than the question has, as nobody asks  *)
(* whether an option is selected twice.  The kinds of question are the     *)
(* ones submit() and the grader tell apart:                                *)
(*   "mcq"    graded by the API at once                                    *)
(*   "ai"     STRUCTURED, createdBy 'ai', with an answerKey                *)
(*   "stray"  such a question of no course                                 *)
(*   "keyed"  open, rubricJson.answer_key is a list                        *)
(*   "plain"  open, without an answer key                                  *)
(***************************************************************************)
EXTENDS Integers, Sequences, FiniteSets

CONSTANTS Attempts,   \* ids of attempts
          Requests,   \* API requests on attempts; each is made at most once
          Workers,    \* event loops of the Python worker
          Ticks,      \* executions of GradeCompletedPoller.poll()
          MaxScore,   \* maxScore of every question, a point for each right option
          MaxChosen,  \* bound of the model: right options an mcq answer has more than wrong ones
          None,       \* null
          Serial,     \* TRUE: clients wait for each response
          Faults      \* subset of {"db", "crash"}

Scores  == Nat
Answers == Int
Kinds   == {"mcq", "ai", "stray", "keyed", "plain"}

ASSUME GradingAssumption ==
  /\ MaxScore \in Nat \ {0}
  /\ MaxChosen \in Nat
  /\ None \notin Int
  /\ Serial \in BOOLEAN
  /\ Faults \subseteq {"db", "crash"}
  /\ Workers \cap Ticks = {}

VARIABLES attempt,  \* attempts: [Attempts -> row]
          results,  \* grading_results of each attempt, in created_at order
          queue,    \* event_queue, in created_at order
          req,      \* local state of each request
          wk,       \* local state of each worker
          tick,     \* local state of each poller execution
          sent      \* grade_completed messages emitted, as queue indices

vars == <<attempt, results, queue, req, wk, tick, sent>>
-----------------------------------------------------------------------------
AttemptRow == [status : {"absent", "in_progress", "submitted", "grading", "graded"},
               kind   : Kinds,
               answer : Answers \cup {None},
               score  : Scores \cup {None}]

(* 'placeholder' is the row of triggerAiGrading, whose aiFeedbackJson says *)
(* pending_ai_grading.                                                     *)
Result == [score : Scores, by : {"auto", "manual", "placeholder"}]

(* value is textResponse in a grade_submission payload and the score in a  *)
(* grade_completed one; student tells whether studentId is filled in.      *)
Event == [topic   : {"grade_submission", "grade_completed"},
          status  : {"pending", "processing", "processed", "failed"},
          src     : {"api", "worker"},
          attempt : Attempts,
          student : BOOLEAN,
          value   : Answers \cup {None},
          by      : {"student", "auto", "manual"}]

AiTry == {"ai_result", "ai_return", "ai_publish"}
AiPcs == AiTry \cup {"ai_mark", "ai_fallback"}
ReqPcs == {"new", "update", "submit", "publish", "mcq_result", "mcq_status",
           "mcq_publish", "man_result", "man_status", "man_publish", "done", "left"} \cup AiPcs

(* dto is the answer in the request's body, seen the one the handler read, *)
(* score the teacher's score; "left" is the end of a request whose         *)
(* triggerAiGrading found no answer, or no course, and returned.           *)
RequestState == [pc : ReqPcs, on : Attempts \cup {None}, dto : Answers \cup {None},
                 seen : Answers \cup {None}, score : Scores \cup {None}]

WorkerPcs == {"idle", "mark", "result", "graded", "publish", "ack", "nack"}
TickPcs   == {"idle", "handle", "ack", "nack"}

NewRequest == [pc |-> "new", on |-> None, dto |-> None, seen |-> None, score |-> None]
Idle       == [pc |-> "idle", ev |-> 0]

Init ==
  /\ attempt \in [Attempts -> [status : {"absent"}, kind : Kinds,
                               answer : {None}, score : {None}]]
  /\ results = [a \in Attempts |-> <<>>]
  /\ queue   = <<>>
  /\ req     = [r \in Requests |-> NewRequest]
  /\ wk      = [w \in Workers |-> Idle]
  /\ tick    = [t \in Ticks |-> Idle]
  /\ sent    = <<>>
-----------------------------------------------------------------------------
(* The event_queue table *)

Submission(a, student, answer) ==
  [topic |-> "grade_submission", status |-> "pending", src |-> "api",
   attempt |-> a, student |-> student, value |-> answer, by |-> "student"]

Completion(a, src, student, score, by) ==
  [topic |-> "grade_completed", status |-> "pending", src |-> src,
   attempt |-> a, student |-> student, value |-> score, by |-> by]

Publish(e) == queue' = Append(queue, e)

(* Mutant: a row left in processing is claimed again. *)
OldestUnsettled(topic, i) ==
  /\ queue[i].topic = topic
  /\ queue[i].status \in {"pending", "processing"}

(* Mutant: nothing is claimed behind an unsettled row. *)
OldestInTurn(topic, i) ==
  /\ queue[i].topic = topic
  /\ queue[i].status = "pending"
  /\ \A j \in 1 .. i - 1 : queue[j].status \in {"processed", "failed"}

(* ORDER BY created_at LIMIT 1: the API and the worker stamp created_at    *)
(* with their own clocks, so only rows of one of them are ordered.  FOR    *)
(* UPDATE SKIP LOCKED passes over a row that another claim has locked, and *)
(* that claim may still fail.                                              *)
Oldest(topic, i) ==
  /\ queue[i].topic = topic
  /\ queue[i].status = "pending"
  /\ Faults # {} \/ \A j \in 1 .. i - 1 : \/ queue[j].status # "pending"
                                          \/ queue[j].topic # topic
                                          \/ queue[j].src # queue[i].src

Mark(i, status) == queue' = [queue EXCEPT ![i].status = status]
-----------------------------------------------------------------------------
(* Requests *)

Goto(r, pc) == req' = [req EXCEPT ![r].pc = pc]

SetStatus(a, status) == attempt' = [attempt EXCEPT ![a].status = status]

AddResult(a, score, by) ==
  results' = [results EXCEPT ![a] = Append(@, [score |-> score, by |-> by])]

(* triggerAiGrading is not awaited: its request has been answered.         *)
InFlight(r) == req[r].pc \notin {"new", "done", "left"} \cup AiPcs

MayStart(r) == /\ req[r].pc = "new"
               /\ Serial => \A q \in Requests : ~InFlight(q)

(* dto.textResponse ?? attempt.textResponse *)
Given(r) == IF req[r].dto # None THEN req[r].dto ELSE req[r].seen

(* Mutant: more wrong options than right ones count below zero. *)
McqScoreUnclamped(answer) == IF answer = None THEN 0 ELSE answer

(* "minimum 0", and no maximum: a right option that is selected twice      *)
(* counts twice.                                                           *)
McqScore(answer) == IF answer = None \/ answer < 0 THEN 0 ELSE answer

(* POST /attempts: one insert. *)
Create(a) ==
  /\ attempt[a].status = "absent"
  /\ SetStatus(a, "in_progress")
  /\ UNCHANGED <<results, queue, req, wk, tick, sent>>

(* Mutant: the status is not checked. *)
UpdateReadUnguarded(r, a, d) ==
  /\ MayStart(r)
  /\ attempt[a].status # "absent"
  /\ req' = [req EXCEPT ![r] = [NewRequest EXCEPT !.pc = "update", !.on = a, !.dto = d]]
  /\ UNCHANGED <<attempt, results, queue, wk, tick, sent>>

(* update(): read the row and check it ... *)
UpdateRead(r, a, d) ==
  /\ MayStart(r)
  /\ attempt[a].status = "in_progress"
  /\ req' = [req EXCEPT ![r] = [NewRequest EXCEPT !.pc = "update", !.on = a, !.dto = d]]
  /\ UNCHANGED <<attempt, results, queue, wk, tick, sent>>

(* ... then write it, whatever its status has become. *)
UpdateWrite(r) ==
  /\ req[r].pc = "update"
  /\ attempt' = [attempt EXCEPT ![req[r].on].answer = req[r].dto]
  /\ Goto(r, "done")
  /\ UNCHANGED <<results, queue, wk, tick, sent>>

(* Mutant: a submitted attempt may be submitted again. *)
SubmitReadAgain(r, a, d) ==
  /\ MayStart(r)
  /\ attempt[a].status \in {"in_progress", "submitted"}
  /\ req' = [req EXCEPT ![r] = [NewRequest EXCEPT !.pc = "submit", !.on = a,
                                !.dto = d, !.seen = attempt[a].answer]]
  /\ UNCHANGED <<attempt, results, queue, wk, tick, sent>>

SubmitRead(r, a, d) ==
  /\ MayStart(r)
  /\ attempt[a].status = "in_progress"
  /\ req' = [req EXCEPT ![r] = [NewRequest EXCEPT !.pc = "submit", !.on = a,
                                !.dto = d, !.seen = attempt[a].answer]]
  /\ UNCHANGED <<attempt, results, queue, wk, tick, sent>>

(* Where submit() goes once the attempt is marked submitted.               *)
Route(r) ==
  CASE attempt[req[r].on].kind = "mcq" -> "mcq_result"
    [] attempt[req[r].on].kind = "ai" ->
         IF Given(r) = None THEN "left" ELSE "ai_mark"
    [] attempt[req[r].on].kind = "stray" -> "left"
    [] OTHER -> "publish"

(* Mutant: the body replaces the stored answer even when it has none. *)
SubmitWriteBody(r) ==
  /\ req[r].pc = "submit"
  /\ attempt' = [attempt EXCEPT ![req[r].on].status = "submitted",
                                ![req[r].on].answer = req[r].dto]
  /\ Goto(r, Route(r))
  /\ UNCHANGED <<results, queue, wk, tick, sent>>

(* An MCQ's selection is written only when the body has one.               *)
SubmitWrite(r) ==
  LET a == req[r].on
      keep == attempt[a].kind = "mcq" /\ req[r].dto = None
  IN /\ req[r].pc = "submit"
     /\ attempt' = [attempt EXCEPT ![a].status = "submitted",
                                   ![a].answer = IF keep THEN @ ELSE Given(r)]
     /\ Goto(r, Route(r))
     /\ UNCHANGED <<results, queue, wk, tick, sent>>

(* Mutant: the event is forgotten. *)
SubmitPublishNothing(r) ==
  /\ req[r].pc = "publish"
  /\ Goto(r, "done")
  /\ UNCHANGED <<attempt, results, queue, wk, tick, sent>>

SubmitPublish(r) ==
  /\ req[r].pc = "publish"
  /\ Publish(Submission(req[r].on, TRUE, Given(r)))
  /\ Goto(r, "done")
  /\ UNCHANGED <<attempt, results, wk, tick, sent>>

(* Mutant: the stored answer is scored, not the submitted one. *)
McqResultStale(r) ==
  /\ req[r].pc = "mcq_result"
  /\ AddResult(req[r].on, McqScore(req[r].seen), "auto")
  /\ Goto(r, "mcq_status")
  /\ UNCHANGED <<attempt, queue, wk, tick, sent>>

(* autoGradeMCQ(): result, then attempt, then event without a student id.  *)
McqResult(r) ==
  /\ req[r].pc = "mcq_result"
  /\ AddResult(req[r].on, McqScore(Given(r)), "auto")
  /\ Goto(r, "mcq_status")
  /\ UNCHANGED <<attempt, queue, wk, tick, sent>>

McqStatus(r) ==
  /\ req[r].pc = "mcq_status"
  /\ attempt' = [attempt EXCEPT ![req[r].on].status = "graded",
                                ![req[r].on].score = McqScore(Given(r))]
  /\ Goto(r, "mcq_publish")
  /\ UNCHANGED <<results, queue, wk, tick, sent>>

McqPublish(r) ==
  /\ req[r].pc = "mcq_publish"
  /\ Publish(Completion(req[r].on, "api", FALSE, McqScore(Given(r)), "auto"))
  /\ Goto(r, "done")
  /\ UNCHANGED <<attempt, results, wk, tick, sent>>

(* triggerAiGrading(), which runs after the response has been sent.        *)
AiMark(r) ==
  /\ req[r].pc = "ai_mark"
  /\ SetStatus(req[r].on, "grading")
  /\ Goto(r, "ai_result")
  /\ UNCHANGED <<results, queue, wk, tick, sent>>

AiResult(r) ==
  /\ req[r].pc = "ai_result"
  /\ AddResult(req[r].on, 0, "placeholder")
  /\ Goto(r, "ai_return")
  /\ UNCHANGED <<attempt, queue, wk, tick, sent>>

AiReturn(r) ==
  /\ req[r].pc = "ai_return"
  /\ attempt' = [attempt EXCEPT ![req[r].on].status = "submitted",
                                ![req[r].on].score = 0]
  /\ Goto(r, "ai_publish")
  /\ UNCHANGED <<results, queue, wk, tick, sent>>

AiPublish(r) ==
  /\ req[r].pc = "ai_publish"
  /\ Publish(Submission(req[r].on, FALSE, Given(r)))
  /\ Goto(r, "done")
  /\ UNCHANGED <<attempt, results, wk, tick, sent>>

AiFallback(r) ==
  /\ req[r].pc = "ai_fallback"
  /\ SetStatus(req[r].on, "submitted")
  /\ Goto(r, "done")
  /\ UNCHANGED <<results, queue, wk, tick, sent>>

(* Mutant: the event is published before the result is stored. *)
ManualReadEarly(r, a, score) ==
  /\ MayStart(r)
  /\ attempt[a].status \notin {"absent", "in_progress"}
  /\ req' = [req EXCEPT ![r] = [NewRequest EXCEPT !.pc = "man_publish", !.on = a,
                                                  !.score = score]]
  /\ UNCHANGED <<attempt, results, queue, wk, tick, sent>>

(* manualGrade(): the status is read once, at the start.                   *)
ManualRead(r, a, score) ==
  /\ MayStart(r)
  /\ attempt[a].status \notin {"absent", "in_progress"}
  /\ req' = [req EXCEPT ![r] = [NewRequest EXCEPT !.pc = "man_result", !.on = a,
                                                  !.score = score]]
  /\ UNCHANGED <<attempt, results, queue, wk, tick, sent>>

ManualResult(r) ==
  /\ req[r].pc = "man_result"
  /\ AddResult(req[r].on, req[r].score, "manual")
  /\ Goto(r, "man_status")
  /\ UNCHANGED <<attempt, queue, wk, tick, sent>>

ManualStatus(r) ==
  /\ req[r].pc = "man_status"
  /\ attempt' = [attempt EXCEPT ![req[r].on].status = "graded",
                                ![req[r].on].score = req[r].score]
  /\ Goto(r, "man_publish")
  /\ UNCHANGED <<results, queue, wk, tick, sent>>

ManualPublish(r) ==
  /\ req[r].pc = "man_publish"
  /\ Publish(Completion(req[r].on, "api", TRUE, req[r].score, "manual"))
  /\ Goto(r, "done")
  /\ UNCHANGED <<attempt, results, wk, tick, sent>>

(* The database call the request waits for throws: triggerAiGrading falls  *)
(* back, every other handler ends (autoGradeMCQ ignores a failed publish,  *)
(* the others answer with an error).                                       *)
RequestFails(r) ==
  /\ "db" \in Faults
  /\ req[r].pc \notin {"new", "done", "left"}
  /\ Goto(r, IF req[r].pc \in AiTry THEN "ai_fallback" ELSE "done")
  /\ UNCHANGED <<attempt, results, queue, wk, tick, sent>>
-----------------------------------------------------------------------------
(* The grading worker: _poll_loop and process_grading_event *)

WorkerGoto(w, pc) == wk' = [wk EXCEPT ![w].pc = pc]

(* grade_attempt(): only an answer key gives points.                       *)
WorkerScore(e) ==
  IF attempt[e.attempt].kind = "keyed" /\ e.value = MaxScore THEN MaxScore ELSE 0

Job(w) == queue[wk[w].ev]

WorkerPoll(w) ==
  /\ wk[w].pc = "idle"
  /\ \E i \in DOMAIN queue :
       /\ Oldest("grade_submission", i)
       /\ Mark(i, "processing")
       /\ wk' = [wk EXCEPT ![w] = [pc |-> "mark", ev |-> i]]
  /\ UNCHANGED <<attempt, results, req, tick, sent>>

(* Mutant: the attempt is graded before its result exists. *)
WorkerMarkGraded(w) ==
  /\ wk[w].pc = "mark"
  /\ SetStatus(Job(w).attempt, "graded")
  /\ WorkerGoto(w, "result")
  /\ UNCHANGED <<results, queue, req, tick, sent>>

WorkerMark(w) ==
  /\ wk[w].pc = "mark"
  /\ SetStatus(Job(w).attempt, "grading")
  /\ WorkerGoto(w, "result")
  /\ UNCHANGED <<results, queue, req, tick, sent>>

WorkerResult(w) ==
  /\ wk[w].pc = "result"
  /\ AddResult(Job(w).attempt, WorkerScore(Job(w)), "auto")
  /\ WorkerGoto(w, "graded")
  /\ UNCHANGED <<attempt, queue, req, tick, sent>>

(* Mutant: the event is acknowledged without a completion. *)
WorkerGradedSilently(w) ==
  /\ wk[w].pc = "graded"
  /\ SetStatus(Job(w).attempt, "graded")
  /\ WorkerGoto(w, "ack")
  /\ UNCHANGED <<results, queue, req, tick, sent>>

(* current_score is left alone.  update_mastery_after_grading, which comes *)
(* next, reads a table that no longer exists; its exception is swallowed.  *)
WorkerGraded(w) ==
  /\ wk[w].pc = "graded"
  /\ SetStatus(Job(w).attempt, "graded")
  /\ WorkerGoto(w, "publish")
  /\ UNCHANGED <<results, queue, req, tick, sent>>

WorkerPublish(w) ==
  /\ wk[w].pc = "publish"
  /\ Publish(Completion(Job(w).attempt, "worker", Job(w).student,
                        WorkerScore(Job(w)), "auto"))
  /\ WorkerGoto(w, "ack")
  /\ UNCHANGED <<attempt, results, req, tick, sent>>

WorkerAck(w) ==
  /\ wk[w].pc = "ack"
  /\ Mark(wk[w].ev, "processed")
  /\ wk' = [wk EXCEPT ![w] = Idle]
  /\ UNCHANGED <<attempt, results, req, tick, sent>>

(* Mutant: a failed event is put back. *)
WorkerNackRetry(w) ==
  /\ wk[w].pc = "nack"
  /\ Mark(wk[w].ev, "pending")
  /\ wk' = [wk EXCEPT ![w] = Idle]
  /\ UNCHANGED <<attempt, results, req, tick, sent>>

WorkerNack(w) ==
  /\ wk[w].pc = "nack"
  /\ Mark(wk[w].ev, "failed")
  /\ wk' = [wk EXCEPT ![w] = Idle]
  /\ UNCHANGED <<attempt, results, req, tick, sent>>

(* A transaction throws: mark_failed comes next, and when that throws too, *)
(* the loop goes on and the event stays in processing.                     *)
WorkerFails(w) ==
  /\ "db" \in Faults
  /\ wk[w].pc # "idle"
  /\ wk' = [wk EXCEPT ![w] = IF @.pc = "nack" THEN Idle ELSE [@ EXCEPT !.pc = "nack"]]
  /\ UNCHANGED <<attempt, results, queue, req, tick, sent>>
-----------------------------------------------------------------------------
(* GradeCompletedPoller.poll() through EventBusService.pollAndProcess() *)

TickClaim(t) ==
  /\ tick[t].pc = "idle"
  /\ \E i \in DOMAIN queue :
       /\ Oldest("grade_completed", i)
       /\ Mark(i, "processing")
       /\ tick' = [tick EXCEPT ![t] = [pc |-> "handle", ev |-> i]]
  /\ UNCHANGED <<attempt, results, req, wk, sent>>

(* Mutant: the event is acknowledged without a message. *)
TickHandleSilently(t) ==
  /\ tick[t].pc = "handle"
  /\ tick' = [tick EXCEPT ![t].pc = "ack"]
  /\ UNCHANGED <<attempt, results, queue, req, wk, sent>>

(* GradeCompletedPayloadSchema.parse throws on an empty studentId;         *)
(* otherwise the message is emitted to the student's room.                 *)
TickHandle(t) ==
  /\ tick[t].pc = "handle"
  /\ \/ /\ queue[tick[t].ev].student
        /\ sent' = Append(sent, tick[t].ev)
        /\ tick' = [tick EXCEPT ![t].pc = "ack"]
     \/ /\ ~queue[tick[t].ev].student
        /\ tick' = [tick EXCEPT ![t].pc = "nack"]
        /\ UNCHANGED sent
  /\ UNCHANGED <<attempt, results, queue, req, wk>>

TickAck(t) ==
  /\ tick[t].pc = "ack"
  /\ Mark(tick[t].ev, "processed")
  /\ tick' = [tick EXCEPT ![t] = Idle]
  /\ UNCHANGED <<attempt, results, req, wk, sent>>

TickNack(t) ==
  /\ tick[t].pc = "nack"
  /\ Mark(tick[t].ev, "failed")
  /\ tick' = [tick EXCEPT ![t] = Idle]
  /\ UNCHANGED <<attempt, results, req, wk, sent>>

(* The update to processed is inside the try: when it throws, the event is *)
(* marked failed although its message has been emitted.                    *)
TickFails(t) ==
  /\ "db" \in Faults
  /\ tick[t].pc \in {"ack", "nack"}
  /\ tick' = [tick EXCEPT ![t] = IF @.pc = "nack" THEN Idle ELSE [@ EXCEPT !.pc = "nack"]]
  /\ UNCHANGED <<attempt, results, queue, req, wk, sent>>
-----------------------------------------------------------------------------
(* A process dies and is restarted; what it held in memory is gone.        *)
ApiCrash ==
  /\ "crash" \in Faults
  /\ req' = [r \in Requests |->
               IF req[r].pc \in {"new", "left"} THEN req[r] ELSE [req[r] EXCEPT !.pc = "done"]]
  /\ tick' = [t \in Ticks |-> Idle]
  /\ UNCHANGED <<attempt, results, queue, wk, sent>>

WorkerCrash(w) ==
  /\ "crash" \in Faults
  /\ wk' = [wk EXCEPT ![w] = Idle]
  /\ UNCHANGED <<attempt, results, queue, req, tick, sent>>
-----------------------------------------------------------------------------
AnswersTo(kind) == (IF kind = "mcq" THEN -1 .. MaxChosen ELSE 0 .. MaxScore) \cup {None}

(* A teacher's score is checked against maxScore, an answer's is not.      *)
Arrive(r) == \E a \in Attempts :
               \/ \E d \in AnswersTo(attempt[a].kind) : UpdateRead(r, a, d) \/ SubmitRead(r, a, d)
               \/ \E s \in 0 .. MaxScore : ManualRead(r, a, s)

Proceed(r) == \/ UpdateWrite(r) \/ SubmitWrite(r) \/ SubmitPublish(r)
              \/ McqResult(r) \/ McqStatus(r) \/ McqPublish(r)
              \/ AiMark(r) \/ AiResult(r) \/ AiReturn(r) \/ AiPublish(r) \/ AiFallback(r)
              \/ ManualResult(r) \/ ManualStatus(r) \/ ManualPublish(r)

WorkerStep(w) == \/ WorkerPoll(w) \/ WorkerMark(w) \/ WorkerResult(w) \/ WorkerGraded(w)
                 \/ WorkerPublish(w) \/ WorkerAck(w) \/ WorkerNack(w)

TickStep(t) == TickClaim(t) \/ TickHandle(t) \/ TickAck(t) \/ TickNack(t)

Next == \/ \E a \in Attempts : Create(a)
        \/ \E r \in Requests : Arrive(r) \/ Proceed(r) \/ RequestFails(r)
        \/ \E w \in Workers : WorkerStep(w) \/ WorkerFails(w) \/ WorkerCrash(w)
        \/ \E t \in Ticks : TickStep(t) \/ TickFails(t)
        \/ ApiCrash

Spec == Init /\ [][Next]_vars

(* Node resolves every pending await, the worker's thread keeps polling    *)
(* and setInterval keeps calling poll().                                   *)
Fairness == /\ \A r \in Requests : WF_vars(Proceed(r))
            /\ \A w \in Workers : WF_vars(WorkerStep(w))
            /\ \A t \in Ticks : WF_vars(TickStep(t))

FairSpec == Spec /\ Fairness
-----------------------------------------------------------------------------
(* The types of the tables, and of what each execution remembers: the      *)
(* attempt or the row of event_queue it works on exists, and no score that *)
(* is stored or published is negative.                                     *)
AttemptTypeOK == attempt \in [Attempts -> AttemptRow]

ResultsTypeOK == results \in [Attempts -> Seq(Result)]

QueueTypeOK == queue \in Seq(Event)

ReqTypeOK == /\ req \in [Requests -> RequestState]
             /\ \A r \in Requests : req[r].pc # "new" => req[r].on \in Attempts
             /\ \A r \in Requests :
                  req[r].pc \in {"man_result", "man_status", "man_publish"}
                    => req[r].score \in Scores

WorkerTypeOK == /\ wk \in [Workers -> [pc : WorkerPcs, ev : Nat]]
                /\ \A w \in Workers : wk[w].pc # "idle" => wk[w].ev \in DOMAIN queue

TickTypeOK == /\ tick \in [Ticks -> [pc : TickPcs, ev : Nat]]
              /\ \A t \in Ticks : tick[t].pc # "idle" => tick[t].ev \in DOMAIN queue

TypeOK == /\ AttemptTypeOK /\ ResultsTypeOK /\ QueueTypeOK
          /\ ReqTypeOK /\ WorkerTypeOK /\ TickTypeOK
          /\ sent \in Seq(Nat)

ResultsOf(a) == {results[a][n] : n \in DOMAIN results[a]}

(* A graded attempt has a result that a grader gave it: the placeholder of *)
(* triggerAiGrading does not count.  Every grader inserts its row before   *)
(* it sets the status, and three of them may be at work on one attempt.    *)
GradedBacked == \A a \in Attempts : attempt[a].status = "graded" =>
                  \E res \in ResultsOf(a) : res.by # "placeholder"

(* The score an attempt shows is that of one of its results, whichever     *)
(* writes of autoGradeMCQ, triggerAiGrading and manualGrade interleaved.   *)
ScoreBacked == \A a \in Attempts : attempt[a].score # None =>
                 \E res \in ResultsOf(a) : res.score = attempt[a].score

Recorded(a, score, by) == \E res \in ResultsOf(a) : res.score = score /\ res.by = by

(* What an execution is about to write to the attempt, or to publish, is   *)
(* already recorded: the strengthening that makes the three inductive.     *)
RememberedBacked ==
  /\ \A r \in Requests :
       /\ req[r].pc \in {"mcq_status", "mcq_publish"}
            => Recorded(req[r].on, McqScore(Given(r)), "auto")
       /\ req[r].pc \in {"man_status", "man_publish"}
            => Recorded(req[r].on, req[r].score, "manual")
       /\ req[r].pc = "ai_return" => Recorded(req[r].on, 0, "placeholder")
  /\ \A w \in Workers : wk[w].pc \in {"graded", "publish"}
                          => Recorded(Job(w).attempt, WorkerScore(Job(w)), "auto")

(* What a student is told is on record: the score of a grade_completed     *)
(* event is that of a stored result by the same grader.                    *)
CompletionBacked == \A i \in DOMAIN queue : queue[i].topic = "grade_completed" =>
                      Recorded(queue[i].attempt, queue[i].value, queue[i].by)

(* A student is told of a completion once: overlapping poll() calls,       *)
(* failed acknowledgements and restarts never emit its message again.      *)
ToldOnce == \A m, n \in DOMAIN sent : sent[m] = sent[n] => m = n

(* processed means done: the message of a processed completion has been    *)
(* emitted, and the completions the worker published are at least as many  *)
(* as the submissions it settled as processed.                             *)
ProcessedMeansDone ==
  LET Settled(a) == {i \in DOMAIN queue : /\ queue[i].topic = "grade_submission"
                                          /\ queue[i].status = "processed"
                                          /\ queue[i].attempt = a}
      Told(a) == {i \in DOMAIN queue : /\ queue[i].topic = "grade_completed"
                                       /\ queue[i].src = "worker"
                                       /\ queue[i].attempt = a}
  IN /\ \A i \in DOMAIN queue :
          queue[i].topic = "grade_completed" /\ queue[i].status = "processed"
            => \E m \in DOMAIN sent : sent[m] = i
     /\ \A a \in Attempts : Cardinality(Settled(a)) <= Cardinality(Told(a))

(* An attempt is submitted once: "Attempt has already been submitted"      *)
(* (attempts.service.ts:270-274), so one grading event at most.            *)
SubmittedOnce == \A i, j \in DOMAIN queue :
  /\ queue[i].topic = "grade_submission" /\ queue[j].topic = "grade_submission"
  /\ queue[i].attempt = queue[j].attempt
  => i = j

(* "Can only update in-progress attempts" (attempts.service.ts:238-240):   *)
(* the stored answer of a submitted attempt never changes.                 *)
AnswerKept == [][\A a \in Attempts :
                   attempt[a].status \notin {"absent", "in_progress"}
                     => attempt'[a].answer = attempt[a].answer]_vars

(* The answer an open attempt is graded on is the one it keeps.            *)
GradedOnStoredAnswer == \A i \in DOMAIN queue :
  queue[i].topic = "grade_submission" => queue[i].value = attempt[queue[i].attempt].answer

AutoResults(a) == {n \in DOMAIN results[a] : results[a][n].by = "auto"}

(* The points the API or the worker gives for the stored answer.           *)
AutoScore(a) ==
  IF attempt[a].kind = "mcq" THEN McqScore(attempt[a].answer)
  ELSE IF attempt[a].kind = "keyed" /\ attempt[a].answer = MaxScore THEN MaxScore ELSE 0

(* End to end: an attempt gets one automatic grade at most, by the API or  *)
(* by the worker, and it is the grade of the answer that the attempt       *)
(* stores.                                                                 *)
GradeOfAnswer == \A a \in Attempts : \A m, n \in AutoResults(a) :
  m = n /\ results[a][n].score = AutoScore(a)

(* "will be filled by event handler" (attempts.service.ts:415): a          *)
(* completion published without a student id is accepted by its handler,   *)
(* so none is settled as failed while no database call fails.              *)
CompletionsAccepted == \A i \in DOMAIN queue :
  queue[i].topic = "grade_completed" => queue[i].status # "failed"

(* An attempt with an AI question and no answer, or of no course, is left  *)
(* to the teacher (attempts.service.ts:433).                               *)
LeftToTeacher(a) == \E r \in Requests : req[r].on = a /\ req[r].pc = "left"

(* Who will grade an attempt, or see to it that somebody does: a request   *)
(* between the status it wrote and its event or its grade, an event that   *)
(* waits, a worker that has not graded yet.                                *)
Attending(a) ==
  \/ \E r \in Requests : /\ req[r].on = a
                         /\ req[r].pc \in AiTry \cup {"publish", "ai_mark", "mcq_result", "mcq_status"}
  \/ \E i \in DOMAIN queue : /\ queue[i].topic = "grade_submission"
                             /\ queue[i].status = "pending"
                             /\ queue[i].attempt = a
  \/ \E w \in Workers : wk[w].pc \in {"mark", "result", "graded"} /\ Job(w).attempt = a

(* Nobody forgets an attempt: whatever writes of its status overlap, one   *)
(* that shows submitted or grading is being attended to, or is left to     *)
(* the teacher.  It needs every database call to succeed.                  *)
Attended == \A a \in Attempts : attempt[a].status \in {"submitted", "grading"} =>
              Attending(a) \/ LeftToTeacher(a)

(* A completion that names its student is waiting, or in the hands of a    *)
(* poll() call that is about to emit it, or has been emitted.              *)
Underway == \A i \in DOMAIN queue :
  queue[i].topic = "grade_completed" /\ queue[i].student =>
    \/ queue[i].status = "pending"
    \/ \E t \in Ticks : tick[t].pc = "handle" /\ tick[t].ev = i
    \/ \E m \in DOMAIN sent : sent[m] = i

(* What is settled as failed although no call fails is a completion of an  *)
(* mcq or of an AI question, which are published without a student id.     *)
OnlyNamelessFail == \A i \in DOMAIN queue : queue[i].status = "failed" =>
  /\ queue[i].topic = "grade_completed" /\ ~queue[i].student
  /\ attempt[queue[i].attempt].kind \in {"mcq", "ai"}

(* Without faults every submitted attempt is graded in the end and stays   *)
(* so, whoever graded it and however often it was submitted.               *)
GradedInTheEnd == \A a \in Attempts :
  attempt[a].status = "submitted" ~> [](attempt[a].status = "graded" \/ LeftToTeacher(a))

Pending(n) == n \in DOMAIN queue /\ queue[n].status = "pending"

(* Every pending event is claimed in the end, even when processes crash    *)
(* and database calls fail: a lost event blocks none behind it.            *)
EventsClaimed == \A n \in 1 .. 2 * Cardinality(Requests) : Pending(n) ~> ~Pending(n)

(* A pending event never waits for one that was lost: the oldest pending   *)
(* one of its topic can be claimed.                                        *)
NeverBlocked == \A n \in DOMAIN queue : Pending(n) =>
  \E i \in 1 .. n : Oldest(queue[n].topic, i)

(* Without faults, the student learns of every completion that names them. *)
StudentTold == \A n \in 1 .. 2 * Cardinality(Requests) :
  (n \in DOMAIN queue /\ queue[n].topic = "grade_completed" /\ queue[n].student)
    ~> \E m \in DOMAIN sent : sent[m] = n

(* The table as its users see it: what is left of an event once its        *)
(* payload is forgotten, and who handles which.                            *)
RowView == [i \in DOMAIN queue |-> [topic  |-> queue[i].topic,
                                    src    |-> queue[i].src,
                                    status |-> queue[i].status]]

Holds == [c \in Workers \cup Ticks |->
            LET s == IF c \in Workers THEN wk[c] ELSE tick[c]
            IN IF s.pc = "idle" THEN 0 ELSE s.ev]

EQ == INSTANCE EventQueue WITH
        Topics     <- {"grade_submission", "grade_completed"},
        Publishers <- {"api", "worker"},
        Consumers  <- Workers \cup Ticks,
        Skips      <- Faults # {},
        row        <- RowView,
        holds      <- Holds

(* The grading pipeline uses the table as EventQueue promises: a row is    *)
(* claimed while it is pending, oldest first if nothing fails, held by one *)
(* execution and settled at most once.                                     *)
UsesEventQueue == EQ!Spec

(* No grading event is handled by two workers, and no completion by two    *)
(* overlapping poll() calls: SKIP LOCKED claims a row for one of them.     *)
HandledAlone == EQ!HeldAlone
=============================================================================
