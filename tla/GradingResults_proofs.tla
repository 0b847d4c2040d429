----------------------- MODULE GradingResults_proofs -----------------------
(***************************************************************************)
(* What the attempts table and the students show is backed by rows of      *)
(* grading_results, a student is told of a completion once, and an event   *)
(* settled as processed has been done: for any number of requests, workers *)
(* and poller executions, with faults.  What Serial adds: one submission   *)
(* of an attempt, with the answer that stays stored, and one automatic     *)
(* grade of it.                                                            *)
(***************************************************************************)
EXTENDS Grading_proofs, FiniteSetTheorems, WellFoundedInduction

(* What no step changes: the payload of an event and the kind of a         *)
(* question; and results are only added.                                   *)
SamePayload(i) == /\ i \in DOMAIN queue'
                  /\ queue'[i].topic = queue[i].topic
                  /\ queue'[i].src = queue[i].src
                  /\ queue'[i].attempt = queue[i].attempt
                  /\ queue'[i].student = queue[i].student
                  /\ queue'[i].value = queue[i].value
                  /\ queue'[i].by = queue[i].by

LEMMA PublishKeeps ==
  ASSUME TypeOK, NEW e, Publish(e), NEW i \in DOMAIN queue
  PROVE  SamePayload(i) /\ queue'[i].status = queue[i].status
  BY DEF TypeOK, QueueTypeOK, Publish, SamePayload

LEMMA MarkKeeps ==
  ASSUME TypeOK, NEW j, NEW s, Mark(j, s), NEW i \in DOMAIN queue
  PROVE  SamePayload(i)
  BY DEF TypeOK, QueueTypeOK, Mark, SamePayload, Event

LEMMA PayloadKept ==
  ASSUME TypeOK, [Next]_vars, NEW i \in DOMAIN queue
  PROVE  SamePayload(i)
  <1>1. CASE UNCHANGED queue
    BY <1>1 DEF SamePayload
  <1>2. CASE \E e : Publish(e)
    BY <1>2, PublishKeeps
  <1>3. CASE \E j, s : Mark(j, s)
    BY <1>3, MarkKeeps
  <1>4. ASSUME NEW r \in Requests, Arrive(r) \/ Proceed(r) \/ RequestFails(r)
        PROVE  UNCHANGED queue \/ \E e : Publish(e)
    BY <1>4 DEF Arrive, UpdateRead, SubmitRead, ManualRead, Proceed, UpdateWrite, SubmitWrite,
           SubmitPublish, McqResult, McqStatus, McqPublish, AiMark, AiResult, AiReturn,
           AiPublish, AiFallback, ManualResult, ManualStatus, ManualPublish, RequestFails
  <1>5. ASSUME NEW w \in Workers, WorkerStep(w) \/ WorkerFails(w) \/ WorkerCrash(w)
        PROVE  UNCHANGED queue \/ (\E e : Publish(e)) \/ (\E j, s : Mark(j, s))
    BY <1>5 DEF WorkerStep, WorkerPoll, WorkerMark, WorkerResult, WorkerGraded, WorkerPublish,
           WorkerAck, WorkerNack, WorkerFails, WorkerCrash
  <1>6. ASSUME NEW t \in Ticks, TickStep(t) \/ TickFails(t)
        PROVE  UNCHANGED queue \/ (\E j, s : Mark(j, s))
    BY <1>6 DEF TickStep, TickClaim, TickHandle, TickAck, TickNack, TickFails
  <1>7. CASE ApiCrash \/ (\E a \in Attempts : Create(a)) \/ UNCHANGED vars
    BY <1>1, <1>7 DEF ApiCrash, Create, vars
  <1> QED BY <1>1, <1>2, <1>3, <1>4, <1>5, <1>6, <1>7 DEF Next

LEMMA AddResultGrows ==
  ASSUME ResultsTypeOK, NEW a \in Attempts, NEW s \in Scores, NEW by, AddResult(a, s, by)
  PROVE  /\ \A b \in Attempts : ResultsOf(b) \subseteq ResultsOf(b)'
         /\ Recorded(a, s, by)'
  <1>1. results[a] \in Seq(Result)
    BY DEF ResultsTypeOK
  <1> DEFINE res == [score |-> s, by |-> by]
  <1>2. /\ results'[a] = Append(results[a], res)
        /\ \A b \in Attempts : b # a => results'[b] = results[b]
    BY DEF AddResult, ResultsTypeOK
  <1>3. /\ DOMAIN results[a] = 1 .. Len(results[a])
        /\ DOMAIN results'[a] = 1 .. Len(results[a]) + 1
        /\ \A n \in 1 .. Len(results[a]) : results'[a][n] = results[a][n]
        /\ results'[a][Len(results[a]) + 1] = res
    BY <1>1, <1>2
  <1>4. Len(results[a]) \in Nat
    BY <1>1
  <1>5. res \in ResultsOf(a)'
    BY <1>3, <1>4 DEF ResultsOf
  <1>6. ASSUME NEW b \in Attempts PROVE ResultsOf(b) \subseteq ResultsOf(b)'
    <2>1. CASE b = a
      BY <1>3, <1>4, <2>1 DEF ResultsOf
    <2>2. CASE b # a
      BY <1>2, <2>2 DEF ResultsOf
    <2> QED BY <2>1, <2>2
  <1>7. res.score = s /\ res.by = by
    OBVIOUS
  <1> HIDE DEF res
  <1> QED BY <1>5, <1>6, <1>7 DEF Recorded

LEMMA ResultsKept ==
  ASSUME TypeOK, [Next]_vars, NEW a \in Attempts
  PROVE  ResultsOf(a) \subseteq ResultsOf(a)'
  <1>1. CASE UNCHANGED results
    BY <1>1 DEF ResultsOf
  <1>2. CASE \E b \in Attempts, s \in Scores : \E by : AddResult(b, s, by)
    BY <1>2, AddResultGrows DEF TypeOK
  <1>3. ASSUME NEW r \in Requests, Arrive(r) \/ RequestFails(r) PROVE UNCHANGED results
    BY <1>3 DEF Arrive, UpdateRead, SubmitRead, ManualRead, RequestFails
  <1>4. ASSUME NEW r \in Requests, Proceed(r)
        PROVE  UNCHANGED results \/ \E b \in Attempts, s \in Scores : \E by : AddResult(b, s, by)
    <2>1. CASE McqResult(r)
      BY <2>1, RequestType DEF McqResult, TypeOK
    <2>2. CASE AiResult(r)
      BY <2>2, RequestType, GradingAssumption DEF AiResult, TypeOK, Scores
    <2>3. CASE ManualResult(r)
      BY <2>3, RequestType DEF ManualResult, TypeOK, ReqTypeOK
    <2>4. CASE UNCHANGED results
      BY <2>4
    <2> QED BY <1>4, <2>1, <2>2, <2>3, <2>4
            DEF Proceed, UpdateWrite, SubmitWrite, SubmitPublish, McqStatus, McqPublish,
                AiMark, AiReturn, AiPublish, AiFallback, ManualStatus, ManualPublish
  <1>5. ASSUME NEW w \in Workers, WorkerStep(w) \/ WorkerFails(w) \/ WorkerCrash(w)
        PROVE  UNCHANGED results \/ \E b \in Attempts, s \in Scores : \E by : AddResult(b, s, by)
    <2>1. CASE WorkerResult(w)
      BY <2>1, JobType, WorkerScoreType DEF WorkerResult, TypeOK, Event
    <2>2. CASE UNCHANGED results
      BY <2>2
    <2> QED BY <1>5, <2>1, <2>2
            DEF WorkerStep, WorkerPoll, WorkerMark, WorkerGraded, WorkerPublish, WorkerAck,
                WorkerNack, WorkerFails, WorkerCrash
  <1>6. ASSUME NEW t \in Ticks, TickStep(t) \/ TickFails(t) PROVE UNCHANGED results
    BY <1>6 DEF TickStep, TickClaim, TickHandle, TickAck, TickNack, TickFails
  <1>7. CASE ApiCrash \/ (\E b \in Attempts : Create(b)) \/ UNCHANGED vars
    BY <1>1, <1>7 DEF ApiCrash, Create, vars
  <1> QED BY <1>1, <1>2, <1>3, <1>4, <1>5, <1>6, <1>7 DEF Next

LEMMA RecordedKept ==
  ASSUME TypeOK, [Next]_vars, NEW a \in Attempts, NEW s, NEW by, Recorded(a, s, by)
  PROVE  Recorded(a, s, by)'
  BY ResultsKept DEF Recorded

(* A step moves the request that takes it and no other.                    *)
LEMMA GotoKeeps ==
  ASSUME ReqTypeOK, NEW r \in Requests, NEW pc, Goto(r, pc)
  PROVE  /\ req'[r].pc = pc /\ req'[r].on = req[r].on
         /\ req'[r].score = req[r].score /\ Given(r)' = Given(r)
         /\ \A q \in Requests : q # r => req'[q] = req[q] /\ Given(q)' = Given(q)
  <1>1. /\ req'[r] = [req[r] EXCEPT !.pc = pc]
        /\ \A q \in Requests : q # r => req'[q] = req[q]
    BY DEF ReqTypeOK, Goto
  <1>2. req[r] \in RequestState
    BY DEF ReqTypeOK
  <1> QED BY <1>1, <1>2 DEF Given, RequestState
-----------------------------------------------------------------------------
BackedInv == GradedBacked /\ ScoreBacked /\ CompletionBacked /\ RememberedBacked

(* What the writes of an attempt change, and what they leave alone.        *)
LEMMA SetStatusKeeps ==
  ASSUME AttemptTypeOK, NEW b \in Attempts, NEW s, SetStatus(b, s), NEW a \in Attempts
  PROVE  /\ attempt'[a].kind = attempt[a].kind /\ attempt'[a].score = attempt[a].score
         /\ attempt'[a].status = IF a = b THEN s ELSE attempt[a].status
  BY DEF AttemptTypeOK, AttemptRow, SetStatus

LEMMA SetAnswerKeeps ==
  ASSUME AttemptTypeOK, NEW b \in Attempts, NEW s, NEW d, NEW a \in Attempts,
         \/ attempt' = [attempt EXCEPT ![b].status = s, ![b].answer = d]
         \/ attempt' = [attempt EXCEPT ![b].answer = d] /\ s = attempt[b].status
  PROVE  /\ attempt'[a].kind = attempt[a].kind /\ attempt'[a].score = attempt[a].score
         /\ attempt'[a].status = IF a = b THEN s ELSE attempt[a].status
  BY DEF AttemptTypeOK, AttemptRow

(* Whatever a step does to an attempt: its kind stays, and a new grade or  *)
(* score comes from one of five writes, each by an execution that has      *)
(* recorded a result.                                                      *)
LEMMA AttemptSteps ==
  ASSUME TypeOK, [Next]_vars, NEW a \in Attempts
  PROVE  /\ attempt'[a].kind = attempt[a].kind
         /\ \/ attempt'[a].status # "graded" /\ attempt'[a].score = attempt[a].score
            \/ attempt'[a].status = attempt[a].status /\ attempt'[a].score = attempt[a].score
            \/ \E r \in Requests : /\ McqStatus(r) /\ req[r].on = a
                                   /\ attempt'[a].score = McqScore(Given(r))
            \/ \E r \in Requests : /\ ManualStatus(r) /\ req[r].on = a
                                   /\ attempt'[a].score = req[r].score
            \/ \E r \in Requests : /\ AiReturn(r) /\ req[r].on = a /\ attempt'[a].score = 0
                                   /\ attempt'[a].status # "graded"
            \/ \E w \in Workers : /\ WorkerGraded(w) /\ Job(w).attempt = a
                                  /\ attempt'[a].score = attempt[a].score
  <1> DEFINE Quiet == attempt'[a].status = attempt[a].status /\ attempt'[a].score = attempt[a].score
             Kind_ == attempt'[a].kind = attempt[a].kind
             Ungraded == attempt'[a].status # "graded" /\ attempt'[a].score = attempt[a].score
  <1>0. AttemptTypeOK
    BY DEF TypeOK
  <1>1. CASE UNCHANGED attempt
    BY <1>1
  <1>2. ASSUME NEW b \in Attempts, Create(b) PROVE Kind_ /\ (Quiet \/ Ungraded)
    BY <1>0, <1>2, SetStatusKeeps DEF Create
  <1>3. ASSUME NEW r \in Requests, Arrive(r) \/ RequestFails(r) PROVE UNCHANGED attempt
    BY <1>3 DEF Arrive, UpdateRead, SubmitRead, ManualRead, RequestFails
  <1>4. ASSUME NEW r \in Requests, Proceed(r), req[r].on \in Attempts
        PROVE  \/ Kind_ /\ (Quiet \/ Ungraded)
               \/ Kind_ /\ McqStatus(r) /\ req[r].on = a /\ attempt'[a].score = McqScore(Given(r))
               \/ Kind_ /\ ManualStatus(r) /\ req[r].on = a /\ attempt'[a].score = req[r].score
               \/ Kind_ /\ AiReturn(r) /\ req[r].on = a /\ attempt'[a].score = 0
                        /\ attempt'[a].status # "graded"
    <2>1. CASE UpdateWrite(r)
      BY <1>0, <1>4, <2>1, SetAnswerKeeps DEF UpdateWrite
    <2>2. CASE SubmitWrite(r)
      <3>1. /\ Kind_ /\ attempt'[a].score = attempt[a].score
            /\ attempt'[a].status = IF a = req[r].on THEN "submitted" ELSE attempt[a].status
        BY <1>0, <1>4, <2>2 DEF SubmitWrite, AttemptTypeOK, AttemptRow
      <3> QED BY <3>1
    <2>3. CASE McqStatus(r)
      <3> DEFINE v == McqScore(Given(r))
      <3>1. attempt' = [attempt EXCEPT ![req[r].on].status = "graded", ![req[r].on].score = v]
        BY <2>3 DEF McqStatus
      <3> HIDE DEF v
      <3>2. /\ Kind_
            /\ attempt'[a].score = IF a = req[r].on THEN v ELSE attempt[a].score
            /\ attempt'[a].status = IF a = req[r].on THEN "graded" ELSE attempt[a].status
        BY <1>0, <1>4, <3>1 DEF AttemptTypeOK, AttemptRow
      <3> QED BY <2>3, <3>2 DEF v
    <2>4. CASE ManualStatus(r)
      <3> DEFINE v == req[r].score
      <3>1. attempt' = [attempt EXCEPT ![req[r].on].status = "graded", ![req[r].on].score = v]
        BY <2>4 DEF ManualStatus
      <3> HIDE DEF v
      <3>2. /\ Kind_
            /\ attempt'[a].score = IF a = req[r].on THEN v ELSE attempt[a].score
            /\ attempt'[a].status = IF a = req[r].on THEN "graded" ELSE attempt[a].status
        BY <1>0, <1>4, <3>1 DEF AttemptTypeOK, AttemptRow
      <3> QED BY <2>4, <3>2 DEF v
    <2>5. CASE AiReturn(r)
      <3> DEFINE v == 0
      <3>1. attempt' = [attempt EXCEPT ![req[r].on].status = "submitted", ![req[r].on].score = v]
        BY <2>5 DEF AiReturn
      <3> HIDE DEF v
      <3>2. /\ Kind_
            /\ attempt'[a].score = IF a = req[r].on THEN v ELSE attempt[a].score
            /\ attempt'[a].status = IF a = req[r].on THEN "submitted" ELSE attempt[a].status
        BY <1>0, <1>4, <3>1 DEF AttemptTypeOK, AttemptRow
      <3> QED BY <2>5, <3>2 DEF v
    <2>6. CASE AiMark(r) \/ AiFallback(r)
      BY <1>0, <1>4, <2>6, SetStatusKeeps DEF AiMark, AiFallback
    <2>7. CASE UNCHANGED attempt
      BY <2>7
    <2> QED BY <1>4, <2>1, <2>2, <2>3, <2>4, <2>5, <2>6, <2>7
            DEF Proceed, SubmitPublish, McqResult, McqPublish, AiResult, AiPublish,
                ManualResult, ManualPublish
  <1>5. ASSUME NEW r \in Requests, Proceed(r) PROVE req[r].on \in Attempts
    BY <1>5 DEF TypeOK, ReqTypeOK, Proceed, UpdateWrite, SubmitWrite, SubmitPublish, McqResult,
           McqStatus, McqPublish, AiMark, AiResult, AiReturn, AiPublish, AiFallback,
           ManualResult, ManualStatus, ManualPublish
  <1>6. ASSUME NEW w \in Workers, WorkerStep(w) \/ WorkerFails(w) \/ WorkerCrash(w)
        PROVE  \/ Kind_ /\ (Quiet \/ Ungraded)
               \/ Kind_ /\ WorkerGraded(w) /\ Job(w).attempt = a
                        /\ attempt'[a].score = attempt[a].score
    <2>1. CASE WorkerMark(w)
      <3>1. Job(w).attempt \in Attempts
        BY <2>1, JobType DEF WorkerMark, TypeOK, Event
      <3> QED BY <1>0, <2>1, <3>1, SetStatusKeeps DEF WorkerMark
    <2>2. CASE WorkerGraded(w)
      <3>1. Job(w).attempt \in Attempts
        BY <2>2, JobType DEF WorkerGraded, TypeOK, Event
      <3> QED BY <1>0, <2>2, <3>1, SetStatusKeeps DEF WorkerGraded
    <2>3. CASE UNCHANGED attempt
      BY <2>3
    <2> QED BY <1>6, <2>1, <2>2, <2>3
            DEF WorkerStep, WorkerPoll, WorkerResult, WorkerPublish, WorkerAck, WorkerNack,
                WorkerFails, WorkerCrash
  <1>7. ASSUME NEW t \in Ticks, TickStep(t) \/ TickFails(t) PROVE UNCHANGED attempt
    BY <1>7 DEF TickStep, TickClaim, TickHandle, TickAck, TickNack, TickFails
  <1>8. CASE ApiCrash \/ UNCHANGED vars
    BY <1>1, <1>8 DEF ApiCrash, vars
  <1>9. \/ UNCHANGED attempt
        \/ Kind_ /\ (Quiet \/ Ungraded)
        \/ \E r \in Requests :
             \/ Kind_ /\ McqStatus(r) /\ req[r].on = a /\ attempt'[a].score = McqScore(Given(r))
             \/ Kind_ /\ ManualStatus(r) /\ req[r].on = a /\ attempt'[a].score = req[r].score
             \/ Kind_ /\ AiReturn(r) /\ req[r].on = a /\ attempt'[a].score = 0
                      /\ attempt'[a].status # "graded"
        \/ \E w \in Workers : Kind_ /\ WorkerGraded(w) /\ Job(w).attempt = a
                             /\ attempt'[a].score = attempt[a].score
    <2> HIDE DEF Kind_, Quiet, Ungraded
    <2> QED BY <1>2, <1>3, <1>4, <1>5, <1>6, <1>7, <1>8 DEF Next, ApiCrash, vars
  <1> QED BY <1>1, <1>9-----------------------------------------------------------------------------
(* Each part of the invariant after a step.                                *)

LEMMA GradedBackedNext ==
  ASSUME TypeOK, BackedInv, [Next]_vars PROVE GradedBacked'
  <1> SUFFICES ASSUME NEW a \in Attempts, attempt'[a].status = "graded"
               PROVE  \E res \in ResultsOf(a)' : res.by # "placeholder"
    BY DEF GradedBacked
  <1>1. ASSUME NEW s, NEW by, Recorded(a, s, by), by # "placeholder"
        PROVE  \E res \in ResultsOf(a)' : res.by # "placeholder"
    BY <1>1, RecordedKept DEF Recorded
  <1>2. CASE attempt[a].status = "graded"
    BY <1>2, ResultsKept DEF BackedInv, GradedBacked
  <1>3. ASSUME NEW r \in Requests, McqStatus(r), req[r].on = a
        PROVE  Recorded(a, McqScore(Given(r)), "auto")
    BY <1>3 DEF BackedInv, RememberedBacked, McqStatus
  <1>4. ASSUME NEW r \in Requests, ManualStatus(r), req[r].on = a
        PROVE  Recorded(a, req[r].score, "manual")
    BY <1>4 DEF BackedInv, RememberedBacked, ManualStatus
  <1>5. ASSUME NEW w \in Workers, WorkerGraded(w), Job(w).attempt = a
        PROVE  Recorded(a, WorkerScore(Job(w)), "auto")
    BY <1>5 DEF BackedInv, RememberedBacked, WorkerGraded
  <1> QED BY <1>1, <1>2, <1>3, <1>4, <1>5, AttemptSteps

LEMMA ScoreBackedNext ==
  ASSUME TypeOK, BackedInv, [Next]_vars PROVE ScoreBacked'
  <1> SUFFICES ASSUME NEW a \in Attempts, attempt'[a].score # None
               PROVE  \E res \in ResultsOf(a)' : res.score = attempt'[a].score
    BY DEF ScoreBacked
  <1>1. ASSUME NEW by, Recorded(a, attempt'[a].score, by)
        PROVE  \E res \in ResultsOf(a)' : res.score = attempt'[a].score
    BY <1>1, ResultsKept DEF Recorded
  <1>2. CASE attempt'[a].score = attempt[a].score
    BY <1>2, ResultsKept DEF BackedInv, ScoreBacked
  <1>3. ASSUME NEW r \in Requests, McqStatus(r), req[r].on = a
        PROVE  Recorded(a, McqScore(Given(r)), "auto")
    BY <1>3 DEF BackedInv, RememberedBacked, McqStatus
  <1>4. ASSUME NEW r \in Requests, ManualStatus(r), req[r].on = a
        PROVE  Recorded(a, req[r].score, "manual")
    BY <1>4 DEF BackedInv, RememberedBacked, ManualStatus
  <1>5. ASSUME NEW r \in Requests, AiReturn(r), req[r].on = a
        PROVE  Recorded(a, 0, "placeholder")
    BY <1>5 DEF BackedInv, RememberedBacked, AiReturn
  <1> QED BY <1>1, <1>2, <1>3, <1>4, <1>5, AttemptSteps

(* A row that was not in the table is a submission, or a completion whose  *)
(* score the publisher has recorded.                                       *)
LEMMA NewRow ==
  ASSUME TypeOK, BackedInv, [Next]_vars, NEW i \in DOMAIN queue', i \notin DOMAIN queue,
         queue'[i].topic = "grade_completed"
  PROVE  Recorded(queue'[i].attempt, queue'[i].value, queue'[i].by)
  <1>1. ASSUME NEW e, Publish(e) PROVE queue'[i] = e
    BY <1>1 DEF Publish, TypeOK, QueueTypeOK
  <1>2. CASE DOMAIN queue' = DOMAIN queue
    BY <1>2
  <1>3. ASSUME NEW j, NEW s, Mark(j, s) PROVE FALSE
    BY <1>3 DEF Mark, TypeOK, QueueTypeOK
  <1>4. ASSUME NEW r \in Requests, Proceed(r)
        PROVE  Recorded(queue'[i].attempt, queue'[i].value, queue'[i].by)
    <2>1. CASE SubmitPublish(r)
      BY <1>1, <2>1 DEF SubmitPublish, Submission
    <2>2. CASE AiPublish(r)
      BY <1>1, <2>2 DEF AiPublish, Submission
    <2>3. CASE McqPublish(r)
      <3>1. Recorded(req[r].on, McqScore(Given(r)), "auto")
        BY <2>3 DEF BackedInv, RememberedBacked, McqPublish
      <3> QED BY <1>1, <2>3, <3>1 DEF McqPublish, Completion
    <2>4. CASE ManualPublish(r)
      <3>1. Recorded(req[r].on, req[r].score, "manual")
        BY <2>4 DEF BackedInv, RememberedBacked, ManualPublish
      <3> QED BY <1>1, <2>4, <3>1 DEF ManualPublish, Completion
    <2>5. CASE UNCHANGED queue
      BY <1>2, <2>5
    <2> QED BY <1>4, <2>1, <2>2, <2>3, <2>4, <2>5
            DEF Proceed, UpdateWrite, SubmitWrite, McqResult, McqStatus, AiMark, AiResult,
                AiReturn, AiFallback, ManualResult, ManualStatus
  <1>5. ASSUME NEW w \in Workers, WorkerStep(w) \/ WorkerFails(w) \/ WorkerCrash(w)
        PROVE  Recorded(queue'[i].attempt, queue'[i].value, queue'[i].by)
    <2>1. CASE WorkerPublish(w)
      <3>1. Recorded(Job(w).attempt, WorkerScore(Job(w)), "auto")
        BY <2>1 DEF BackedInv, RememberedBacked, WorkerPublish
      <3> QED BY <1>1, <2>1, <3>1 DEF WorkerPublish, Completion
    <2>2. CASE UNCHANGED queue \/ \E j, s : Mark(j, s)
      BY <1>2, <1>3, <2>2
    <2> QED BY <1>5, <2>1, <2>2
            DEF WorkerStep, WorkerPoll, WorkerMark, WorkerResult, WorkerGraded, WorkerAck,
                WorkerNack, WorkerFails, WorkerCrash
  <1>6. ASSUME NEW t \in Ticks, TickStep(t) \/ TickFails(t)
        PROVE  UNCHANGED queue \/ \E j, s : Mark(j, s)
    BY <1>6 DEF TickStep, TickClaim, TickHandle, TickAck, TickNack, TickFails
  <1>7. ASSUME NEW r \in Requests, Arrive(r) \/ RequestFails(r) PROVE UNCHANGED queue
    BY <1>7 DEF Arrive, UpdateRead, SubmitRead, ManualRead, RequestFails
  <1>8. CASE ApiCrash \/ (\E a \in Attempts : Create(a)) \/ UNCHANGED vars
    BY <1>2, <1>8 DEF ApiCrash, Create, vars
  <1> QED BY <1>2, <1>3, <1>4, <1>5, <1>6, <1>7, <1>8 DEF Next

LEMMA CompletionBackedNext ==
  ASSUME TypeOK, BackedInv, [Next]_vars PROVE CompletionBacked'
  <1> SUFFICES ASSUME NEW i \in DOMAIN queue', queue'[i].topic = "grade_completed"
               PROVE  Recorded(queue[i].attempt, queue[i].value, queue[i].by)'
    BY DEF CompletionBacked
  <1> DEFINE a == queue'[i].attempt
  <1>1. a \in Attempts
    <2>1. queue' \in Seq(Event)
      BY NextTypes DEF TypeOK, QueueTypeOK
    <2>2. queue'[i] \in Event
      BY <2>1
    <2> QED BY <2>2 DEF Event
  <1>2. \E res \in ResultsOf(a) : res.score = queue'[i].value /\ res.by = queue'[i].by
    <2>1. CASE i \in DOMAIN queue
      <3>1. /\ queue'[i].topic = queue[i].topic
            /\ queue'[i].attempt = queue[i].attempt
            /\ queue'[i].value = queue[i].value
            /\ queue'[i].by = queue[i].by
        BY <2>1, PayloadKept DEF SamePayload
      <3> QED BY <2>1, <3>1 DEF BackedInv, CompletionBacked, Recorded
    <2>2. CASE i \notin DOMAIN queue
      BY <2>2, NewRow DEF Recorded
    <2> QED BY <2>1, <2>2
  <1>3. ResultsOf(a) = {results[a][n] : n \in DOMAIN results[a]}
    BY DEF ResultsOf
  <1>4. ASSUME NEW b \in Attempts
        PROVE  {results[b][n] : n \in DOMAIN results[b]} \subseteq
               {results'[b][n] : n \in DOMAIN results'[b]}
    BY ResultsKept DEF ResultsOf
  <1>5. \E res \in {results'[a][n] : n \in DOMAIN results'[a]} :
          res.score = queue'[i].value /\ res.by = queue'[i].by
    BY <1>1, <1>2, <1>3, <1>4
  <1> QED BY <1>5 DEF Recorded, ResultsOf
(* The same record after the step, for operands that are already primed.   *)
RecordedNext(a, s, by) == \E n \in DOMAIN results'[a] :
                            results'[a][n].score = s /\ results'[a][n].by = by

LEMMA KeptNext ==
  ASSUME TypeOK, [Next]_vars, NEW a \in Attempts, NEW s, NEW by, Recorded(a, s, by)
  PROVE  RecordedNext(a, s, by)
  BY ResultsKept DEF Recorded, RecordedNext, ResultsOf

LEMMA AddedNext ==
  ASSUME ResultsTypeOK, NEW a \in Attempts, NEW s \in Scores, NEW by, AddResult(a, s, by)
  PROVE  RecordedNext(a, s, by)
  BY AddResultGrows DEF Recorded, RecordedNext, ResultsOf

(* What a request has recorded before it goes on.                          *)
RequestRecorded(r) ==
  /\ req[r].pc \in {"mcq_status", "mcq_publish"}
       => Recorded(req[r].on, McqScore(Given(r)), "auto")
  /\ req[r].pc \in {"man_status", "man_publish"}
       => Recorded(req[r].on, req[r].score, "manual")
  /\ req[r].pc = "ai_return" => Recorded(req[r].on, 0, "placeholder")

(* A request that does not move keeps what it has recorded.                *)
LEMMA RequestStays ==
  ASSUME TypeOK, BackedInv, [Next]_vars, NEW r \in Requests,
         req'[r] = req[r], Given(r)' = Given(r)
  PROVE  RequestRecorded(r)'
  <1>1. req[r].pc # "new" => req[r].on \in Attempts
    BY DEF TypeOK, ReqTypeOK
  <1>2. RequestRecorded(r)
    BY DEF BackedInv, RememberedBacked, RequestRecorded
  <1>3. McqScore(Given(r))' = McqScore(Given(r))
    BY DEF McqScore
  <1>4. /\ req'[r].pc \in {"mcq_status", "mcq_publish"}
             => RecordedNext(req'[r].on, McqScore(Given(r))', "auto")
        /\ req'[r].pc \in {"man_status", "man_publish"}
             => RecordedNext(req'[r].on, req'[r].score, "manual")
        /\ req'[r].pc = "ai_return" => RecordedNext(req'[r].on, 0, "placeholder")
    BY <1>1, <1>2, <1>3, KeptNext DEF RequestRecorded
  <1> QED BY <1>4 DEF RequestRecorded, Recorded, RecordedNext, ResultsOf

(* A request that moves from one of its own steps has recorded what it     *)
(* needs when it gets to the next.                                         *)
LEMMA RequestMoves ==
  ASSUME TypeOK, BackedInv, [Next]_vars, NEW r \in Requests, Proceed(r)
  PROVE  RequestRecorded(r)'
  <1>1. /\ req[r].on \in Attempts /\ McqScore(Given(r)) \in Scores
        /\ Route(r) \notin {"mcq_status", "mcq_publish", "man_status", "man_publish", "ai_return"}
    <2>1. req[r].pc # "new"
      BY DEF Proceed, UpdateWrite, SubmitWrite, SubmitPublish, McqResult,
             McqStatus, McqPublish, AiMark, AiResult, AiReturn, AiPublish, AiFallback,
             ManualResult, ManualStatus, ManualPublish
    <2> QED BY <2>1, RequestType DEF TypeOK, Route
  <1>2. PICK pc : Goto(r, pc)
    BY DEF Proceed, UpdateWrite, SubmitWrite, SubmitPublish, McqResult,
           McqStatus, McqPublish, AiMark, AiResult, AiReturn, AiPublish, AiFallback,
           ManualResult, ManualStatus, ManualPublish
  <1>3. /\ req'[r].on = req[r].on /\ req'[r].score = req[r].score
        /\ McqScore(Given(r))' = McqScore(Given(r))
    BY <1>2, GotoKeeps DEF TypeOK, McqScore
  <1>4. \/ /\ McqResult(r) /\ req'[r].pc = "mcq_status"
        \/ /\ McqStatus(r) /\ req'[r].pc = "mcq_publish"
        \/ /\ ManualResult(r) /\ req'[r].pc = "man_status"
        \/ /\ ManualStatus(r) /\ req'[r].pc = "man_publish"
        \/ /\ AiResult(r) /\ req'[r].pc = "ai_return"
        \/ req'[r].pc \notin {"mcq_status", "mcq_publish", "man_status", "man_publish",
                              "ai_return"}
    <2>1. ASSUME NEW to, Goto(r, to) PROVE req'[r].pc = to
      BY <2>1, GotoKeeps DEF TypeOK
    <2>2. CASE McqResult(r) \/ McqStatus(r) \/ McqPublish(r)
      BY <2>1, <2>2 DEF McqResult, McqStatus, McqPublish
    <2>3. CASE ManualResult(r) \/ ManualStatus(r) \/ ManualPublish(r)
      BY <2>1, <2>3 DEF ManualResult, ManualStatus, ManualPublish
    <2>4. CASE AiMark(r) \/ AiResult(r) \/ AiReturn(r) \/ AiPublish(r) \/ AiFallback(r)
      BY <2>1, <2>4 DEF AiMark, AiResult, AiReturn, AiPublish, AiFallback
    <2>5. CASE UpdateWrite(r) \/ SubmitPublish(r)
      BY <2>1, <2>5 DEF UpdateWrite, SubmitPublish
    <2>6. CASE SubmitWrite(r)
      BY <1>1, <2>1, <2>6 DEF SubmitWrite
    <2> QED BY <2>2, <2>3, <2>4, <2>5, <2>6 DEF Proceed
  <1>5. McqResult(r) => RecordedNext(req[r].on, McqScore(Given(r)), "auto")
    BY <1>1, AddedNext DEF McqResult, TypeOK
  <1>6. McqStatus(r) => RecordedNext(req[r].on, McqScore(Given(r)), "auto")
    BY <1>1, KeptNext DEF McqStatus, BackedInv, RememberedBacked
  <1>7. ManualResult(r) => RecordedNext(req[r].on, req[r].score, "manual")
    BY <1>1, AddedNext DEF ManualResult, TypeOK, ReqTypeOK
  <1>8. ManualStatus(r) => RecordedNext(req[r].on, req[r].score, "manual")
    BY <1>1, KeptNext DEF ManualStatus, BackedInv, RememberedBacked
  <1>9. AiResult(r) => RecordedNext(req[r].on, 0, "placeholder")
    BY <1>1, AddedNext, GradingAssumption DEF AiResult, TypeOK, Scores
  <1>10. /\ req'[r].pc \in {"mcq_status", "mcq_publish"}
              => RecordedNext(req'[r].on, McqScore(Given(r))', "auto")
         /\ req'[r].pc \in {"man_status", "man_publish"}
              => RecordedNext(req'[r].on, req'[r].score, "manual")
         /\ req'[r].pc = "ai_return" => RecordedNext(req'[r].on, 0, "placeholder")
    <2>1. CASE req'[r].pc \in {"mcq_status", "mcq_publish"}
      BY <1>3, <1>4, <1>5, <1>6, <2>1
    <2>2. CASE req'[r].pc \in {"man_status", "man_publish"}
      BY <1>3, <1>4, <1>7, <1>8, <2>2
    <2>3. CASE req'[r].pc = "ai_return"
      BY <1>3, <1>4, <1>9, <2>3
    <2> QED BY <2>1, <2>2, <2>3
  <1> QED BY <1>10 DEF RequestRecorded, Recorded, RecordedNext, ResultsOf

LEMMA RequestsRecordedNext ==
  ASSUME TypeOK, BackedInv, [Next]_vars, NEW r \in Requests
  PROVE  RequestRecorded(r)'
  <1>1. CASE UNCHANGED req
    BY <1>1, RequestStays DEF Given
  <1>2. CASE Proceed(r)
    BY <1>2, RequestMoves
  <1>3. CASE req'[r].pc \in {"new", "update", "submit", "man_result", "ai_fallback", "done", "left"}
    BY <1>3 DEF RequestRecorded
  <1>4. ASSUME NEW q \in Requests, q # r, Arrive(q) \/ Proceed(q) \/ RequestFails(q)
        PROVE  req'[r] = req[r]
    BY <1>4 DEF Goto, Arrive, UpdateRead, SubmitRead, ManualRead, RequestFails, Proceed,
           UpdateWrite, SubmitWrite, SubmitPublish, McqResult, McqStatus, McqPublish, AiMark,
           AiResult, AiReturn, AiPublish, AiFallback, ManualResult, ManualStatus, ManualPublish,
           TypeOK, ReqTypeOK
  <1>5. ASSUME req'[r] = req[r] PROVE RequestRecorded(r)'
    BY <1>5, RequestStays DEF Given
  <1>6. ASSUME Arrive(r) \/ RequestFails(r)
        PROVE  req'[r].pc \in {"new", "update", "submit", "man_result", "ai_fallback", "done"}
    <2>1. ASSUME RequestFails(r) PROVE req'[r].pc \in {"ai_fallback", "done"}
      BY <2>1, GotoKeeps DEF RequestFails, TypeOK
    <2>2. ASSUME Arrive(r) PROVE req'[r].pc \in {"update", "submit", "man_result"}
      BY <2>2 DEF Arrive, UpdateRead, SubmitRead, ManualRead, NewRequest, TypeOK, ReqTypeOK
    <2> QED BY <1>6, <2>1, <2>2
  <1>7. ASSUME ApiCrash PROVE req'[r].pc \in {"new", "done", "left"}
    <2>1. req'[r] = IF req[r].pc \in {"new", "left"} THEN req[r] ELSE [req[r] EXCEPT !.pc = "done"]
      BY <1>7 DEF ApiCrash
    <2>2. req[r] \in RequestState
      BY DEF TypeOK, ReqTypeOK
    <2> QED BY <2>1, <2>2 DEF RequestState
  <1>8. ASSUME NEW w \in Workers, WorkerStep(w) \/ WorkerFails(w) \/ WorkerCrash(w)
        PROVE  UNCHANGED req
    BY <1>8 DEF WorkerStep, WorkerPoll, WorkerMark, WorkerResult, WorkerGraded, WorkerPublish,
           WorkerAck, WorkerNack, WorkerFails, WorkerCrash
  <1>9. ASSUME NEW t \in Ticks, TickStep(t) \/ TickFails(t) PROVE UNCHANGED req
    BY <1>9 DEF TickStep, TickClaim, TickHandle, TickAck, TickNack, TickFails
  <1>10. CASE (\E a \in Attempts : Create(a)) \/ UNCHANGED vars
    BY <1>1, <1>10 DEF Create, vars
  <1> QED BY <1>1, <1>2, <1>3, <1>4, <1>5, <1>6, <1>7, <1>8, <1>9, <1>10 DEF Next
(* The same for a worker between its result and its completion.            *)
WorkerRecorded(w) == wk[w].pc \in {"graded", "publish"}
                       => Recorded(Job(w).attempt, WorkerScore(Job(w)), "auto")

LEMMA WorkersRecordedNext ==
  ASSUME TypeOK, BackedInv, [Next]_vars, NEW w \in Workers
  PROVE  WorkerRecorded(w)'
  <1> SUFFICES ASSUME wk'[w].pc \in {"graded", "publish"}
               PROVE  RecordedNext(Job(w).attempt', WorkerScore(Job(w))', "auto")
    BY DEF WorkerRecorded, Recorded, RecordedNext, ResultsOf
  <1>1. /\ wk[w].pc \in {"result", "graded", "publish"} /\ wk'[w].ev = wk[w].ev
        /\ wk[w].pc = "result" => WorkerResult(w)
    <2> USE DEF TypeOK, WorkerTypeOK
    <2>1. CASE UNCHANGED wk
      <3>1. CASE wk[w].pc = "result"
        BY <2>1, <3>1
      <3> QED BY <2>1
    <2>2. ASSUME NEW v \in Workers, WorkerStep(v) \/ WorkerFails(v) \/ WorkerCrash(v), v # w
          PROVE  wk'[w] = wk[w]
      BY <2>2 DEF WorkerStep, WorkerPoll, WorkerMark, WorkerResult, WorkerGraded, WorkerPublish,
             WorkerAck, WorkerNack, WorkerFails, WorkerCrash, WorkerGoto
    <2>3. CASE WorkerPoll(w) \/ WorkerAck(w) \/ WorkerNack(w) \/ WorkerCrash(w)
      BY <2>3 DEF WorkerPoll, WorkerAck, WorkerNack, WorkerCrash, Idle
    <2>4. CASE WorkerMark(w) \/ WorkerPublish(w)
      BY <2>4 DEF WorkerMark, WorkerPublish, WorkerGoto
    <2>5. CASE WorkerResult(w) \/ WorkerGraded(w)
      BY <2>5 DEF WorkerResult, WorkerGraded, WorkerGoto
    <2>6. CASE WorkerFails(w)
      <3>1. wk'[w] = IF wk[w].pc = "nack" THEN Idle ELSE [wk[w] EXCEPT !.pc = "nack"]
        BY <2>6 DEF WorkerFails
      <3> QED BY <3>1 DEF Idle
    <2>7. ASSUME NEW r \in Requests, Arrive(r) \/ Proceed(r) \/ RequestFails(r)
          PROVE  UNCHANGED wk
      BY <2>7 DEF Arrive, UpdateRead, SubmitRead, ManualRead, RequestFails, Proceed,
             UpdateWrite, SubmitWrite, SubmitPublish, McqResult, McqStatus, McqPublish, AiMark,
             AiResult, AiReturn, AiPublish, AiFallback, ManualResult, ManualStatus, ManualPublish
    <2>8. ASSUME NEW t \in Ticks, TickStep(t) \/ TickFails(t) PROVE UNCHANGED wk
      BY <2>8 DEF TickStep, TickClaim, TickHandle, TickAck, TickNack, TickFails
    <2>9. CASE ApiCrash \/ (\E a \in Attempts : Create(a)) \/ UNCHANGED vars
      BY <2>1, <2>9 DEF ApiCrash, Create, vars
    <2> QED BY <2>1, <2>2, <2>3, <2>4, <2>5, <2>6, <2>7, <2>8, <2>9 DEF Next, WorkerStep
  <1>2. /\ wk[w].ev \in DOMAIN queue /\ Job(w) \in Event /\ Job(w).attempt \in Attempts
        /\ WorkerScore(Job(w)) \in Scores
    BY <1>1, JobType, WorkerScoreType DEF TypeOK, Event
  <1>3. Job(w).attempt' = Job(w).attempt /\ WorkerScore(Job(w))' = WorkerScore(Job(w))
    <2>1. SamePayload(wk[w].ev)
      BY <1>2, PayloadKept
    <2>2. WorkerScore(queue[wk[w].ev])' = WorkerScore(queue[wk[w].ev])
      BY <1>1, <1>2, <2>1, AttemptSteps DEF WorkerScore, SamePayload, Job
    <2> QED BY <1>1, <2>1, <2>2 DEF Job, SamePayload
  <1>4. CASE wk[w].pc = "result"
    BY <1>1, <1>2, <1>3, <1>4, AddedNext DEF WorkerResult, TypeOK
  <1>5. CASE wk[w].pc \in {"graded", "publish"}
    BY <1>2, <1>3, <1>5, KeptNext DEF BackedInv, RememberedBacked
  <1> QED BY <1>1, <1>4, <1>5-----------------------------------------------------------------------------
LEMMA InitBacked == Init => BackedInv
  BY DEF Init, BackedInv, GradedBacked, ScoreBacked, CompletionBacked, RememberedBacked,
         NewRequest, Idle

LEMMA NextBacked == TypeOK /\ BackedInv /\ [Next]_vars => BackedInv'
  <1> SUFFICES ASSUME TypeOK, BackedInv, [Next]_vars PROVE BackedInv'
    OBVIOUS
  <1>1. RememberedBacked'
    BY RequestsRecordedNext, WorkersRecordedNext
       DEF RememberedBacked, RequestRecorded, WorkerRecorded
  <1> QED BY <1>1, GradedBackedNext, ScoreBackedNext, CompletionBackedNext DEF BackedInv

LEMMA BackedAlways == Spec => []BackedInv
  BY InitBacked, NextBacked, TypeCorrect, PTL DEF Spec

(* A graded attempt has a result that a grader gave it.                    *)
THEOREM GradedBackedAlways == Spec => []GradedBacked
  BY BackedAlways, PTL DEF BackedInv

(* The score an attempt shows is that of one of its results.               *)
THEOREM ScoreBackedAlways == Spec => []ScoreBacked
  BY BackedAlways, PTL DEF BackedInv

(* What a student is told of is on record.                                 *)
THEOREM CompletionBackedAlways == Spec => []CompletionBacked
  BY BackedAlways, PTL DEF BackedInv
-----------------------------------------------------------------------------
(* A row whose message has been emitted has been claimed, and nobody is    *)
(* about to emit it again.                                                 *)
ToldInv ==
  /\ ToldOnce
  /\ \A m \in DOMAIN sent : /\ sent[m] \in DOMAIN queue
                            /\ queue[sent[m]].status # "pending"
  /\ \A t \in Ticks : tick[t].pc = "handle" => \A m \in DOMAIN sent : sent[m] # tick[t].ev

(* Nothing puts a row back to pending.                                     *)
LEMMA NotPendingAgain ==
  ASSUME TypeOK, [Next]_vars, NEW i \in DOMAIN queue, queue[i].status # "pending"
  PROVE  i \in DOMAIN queue' /\ queue'[i].status # "pending"
  <1>1. CASE UNCHANGED queue
    BY <1>1
  <1>2. ASSUME NEW e, Publish(e) PROVE i \in DOMAIN queue' /\ queue'[i].status # "pending"
    BY <1>2, PublishKeeps DEF SamePayload
  <1>3. ASSUME NEW j, NEW s, s # "pending", Mark(j, s)
        PROVE  i \in DOMAIN queue' /\ queue'[i].status # "pending"
    BY <1>3 DEF TypeOK, QueueTypeOK, Mark, Event
  <1>4. ASSUME NEW r \in Requests, Arrive(r) \/ Proceed(r) \/ RequestFails(r)
        PROVE  UNCHANGED queue \/ \E e : Publish(e)
    BY <1>4 DEF Arrive, UpdateRead, SubmitRead, ManualRead, Proceed, UpdateWrite, SubmitWrite,
           SubmitPublish, McqResult, McqStatus, McqPublish, AiMark, AiResult, AiReturn,
           AiPublish, AiFallback, ManualResult, ManualStatus, ManualPublish, RequestFails
  <1>5. ASSUME NEW w \in Workers, WorkerStep(w) \/ WorkerFails(w) \/ WorkerCrash(w)
        PROVE  UNCHANGED queue \/ (\E e : Publish(e)) \/ (\E j, s : s # "pending" /\ Mark(j, s))
    BY <1>5 DEF WorkerStep, WorkerPoll, WorkerMark, WorkerResult, WorkerGraded, WorkerPublish,
           WorkerAck, WorkerNack, WorkerFails, WorkerCrash
  <1>6. ASSUME NEW t \in Ticks, TickStep(t) \/ TickFails(t)
        PROVE  UNCHANGED queue \/ (\E j, s : s # "pending" /\ Mark(j, s))
    BY <1>6 DEF TickStep, TickClaim, TickHandle, TickAck, TickNack, TickFails
  <1>7. CASE ApiCrash \/ (\E a \in Attempts : Create(a)) \/ UNCHANGED vars
    BY <1>1, <1>7 DEF ApiCrash, Create, vars
  <1> QED BY <1>1, <1>2, <1>3, <1>4, <1>5, <1>6, <1>7 DEF Next

LEMMA HandlesAlone ==
  ASSUME TypeOK, HandledAlone, NEW t \in Ticks, tick[t].pc # "idle"
  PROVE  /\ tick[t].ev \in DOMAIN queue
         /\ queue[tick[t].ev].status = "processing"
         /\ \A u \in Ticks : tick[u].pc # "idle" /\ tick[u].ev = tick[t].ev => u = t
  <1>1. \A u \in Ticks : tick[u].pc # "idle"
          => tick[u].ev \in DOMAIN queue /\ tick[u].ev # 0 /\ Holds[u] = tick[u].ev
    BY GradingAssumption DEF TypeOK, TickTypeOK, QueueTypeOK, Holds
  <1>2. RowView[tick[t].ev].status = "processing"
    BY <1>1 DEF HandledAlone, EQ!HeldAlone
  <1>3. \A u \in Ticks : Holds[u] = Holds[t] => u = t
    BY <1>1 DEF HandledAlone, EQ!HeldAlone
  <1> QED BY <1>1, <1>2, <1>3 DEF RowView

LEMMA InitTold == Init => ToldInv
  BY DEF Init, ToldInv, ToldOnce, Idle

LEMMA NextTold == TypeOK /\ HandledAlone /\ ToldInv /\ [Next]_vars => ToldInv'
  <1> SUFFICES ASSUME TypeOK, HandledAlone, ToldInv, [Next]_vars PROVE ToldInv'
    OBVIOUS
  <1>1. \A m \in DOMAIN sent : sent[m] \in DOMAIN queue'  /\ queue'[sent[m]].status # "pending"
    BY NotPendingAgain DEF ToldInv
  <1>2. ASSUME UNCHANGED sent,
               \A t \in Ticks : tick'[t].pc = "handle" => tick'[t] = tick[t]
        PROVE  ToldInv'
    BY <1>1, <1>2 DEF ToldInv, ToldOnce
  <1>3. ASSUME NEW t \in Ticks, TickClaim(t) PROVE ToldInv'
    <2>1. PICK i \in DOMAIN queue : /\ queue[i].status = "pending"
                                    /\ tick' = [tick EXCEPT ![t] = [pc |-> "handle", ev |-> i]]
      BY <1>3 DEF TickClaim, Oldest
    <2>2. \A m \in DOMAIN sent : sent[m] # i
      BY <2>1 DEF ToldInv
    <2>3. UNCHANGED sent
      BY <1>3 DEF TickClaim
    <2>4. \A u \in Ticks : tick'[u].pc = "handle" => \A m \in DOMAIN sent : sent[m] # tick'[u].ev
      <3> SUFFICES ASSUME NEW u \in Ticks, tick'[u].pc = "handle"
                   PROVE  \A m \in DOMAIN sent : sent[m] # tick'[u].ev
        OBVIOUS
      <3>1. CASE u = t
        <4>1. tick'[t].ev = i
          BY <2>1 DEF TypeOK, TickTypeOK
        <4> QED BY <2>2, <3>1, <4>1
      <3>2. CASE u # t
        BY <2>1, <3>2 DEF TypeOK, TickTypeOK, ToldInv
      <3> QED BY <3>1, <3>2
    <2> QED BY <1>1, <2>3, <2>4 DEF ToldInv, ToldOnce
  <1>4. ASSUME NEW t \in Ticks, TickHandle(t) PROVE ToldInv'
    <2> DEFINE i == tick[t].ev
    <2>1. tick[t].pc = "handle" /\ UNCHANGED queue
      BY <1>4 DEF TickHandle
    <2>2. /\ i \in DOMAIN queue /\ queue[i].status = "processing"
          /\ \A u \in Ticks : tick[u].pc # "idle" /\ tick[u].ev = i => u = t
      BY <2>1, HandlesAlone
    <2>3. \A u \in Ticks : tick'[u].pc = "handle" => u # t /\ tick'[u] = tick[u]
      BY <1>4 DEF TickHandle, TypeOK, TickTypeOK
    <2>4. CASE UNCHANGED sent
      BY <1>2, <2>3, <2>4
    <2>5. CASE sent' = Append(sent, i)
      <3>1. sent \in Seq(Nat)
        BY DEF TypeOK
      <3>2. /\ DOMAIN sent' = 1 .. Len(sent) + 1 /\ DOMAIN sent = 1 .. Len(sent)
            /\ Len(sent) \in Nat
            /\ \A m \in DOMAIN sent : sent'[m] = sent[m]
            /\ sent'[Len(sent) + 1] = i
        BY <2>5, <3>1
      <3>3. \A m \in DOMAIN sent : sent[m] # i
        BY <2>1 DEF ToldInv
      <3>4. ToldOnce'
        BY <3>2, <3>3 DEF ToldInv, ToldOnce
      <3>5. \A m \in DOMAIN sent' : /\ sent'[m] \in DOMAIN queue'
                                     /\ queue'[sent'[m]].status # "pending"
        BY <1>1, <2>1, <2>2, <3>2
      <3>6. \A u \in Ticks : tick'[u].pc = "handle"
              => \A m \in DOMAIN sent' : sent'[m] # tick'[u].ev
        <4> SUFFICES ASSUME NEW u \in Ticks, tick'[u].pc = "handle", NEW m \in DOMAIN sent'
                     PROVE  sent'[m] # tick'[u].ev
          OBVIOUS
        <4>1. u # t /\ tick'[u] = tick[u] /\ tick[u].pc = "handle"
          BY <2>3
        <4>2. tick[u].ev # i
          BY <2>2, <4>1
        <4>3. CASE m \in DOMAIN sent
          BY <3>2, <4>1, <4>3 DEF ToldInv
        <4>4. CASE m = Len(sent) + 1
          BY <3>2, <4>1, <4>2, <4>4
        <4> QED BY <3>2, <4>3, <4>4
      <3> QED BY <3>4, <3>5, <3>6 DEF ToldInv
    <2> QED BY <1>4, <2>4, <2>5 DEF TickHandle
  <1>5. ASSUME NEW t \in Ticks, TickAck(t) \/ TickNack(t) \/ TickFails(t) PROVE ToldInv'
    <2>1. UNCHANGED sent
      BY <1>5 DEF TickAck, TickNack, TickFails
    <2>2. \A u \in Ticks : u # t => tick'[u] = tick[u]
      BY <1>5 DEF TickAck, TickNack, TickFails, TypeOK, TickTypeOK
    <2>3. tick'[t].pc # "handle"
      <3>1. CASE TickAck(t) \/ TickNack(t)
        BY <3>1 DEF TickAck, TickNack, TypeOK, TickTypeOK, Idle
      <3>2. CASE TickFails(t)
        <4>1. tick'[t] = IF tick[t].pc = "nack" THEN Idle ELSE [tick[t] EXCEPT !.pc = "nack"]
          BY <3>2 DEF TickFails, TypeOK, TickTypeOK
        <4>2. tick[t] \in [pc : TickPcs, ev : Nat]
          BY DEF TypeOK, TickTypeOK
        <4> QED BY <4>1, <4>2 DEF Idle
      <3> QED BY <1>5, <3>1, <3>2
    <2> QED BY <1>2, <2>1, <2>2, <2>3
  <1>6. ASSUME ApiCrash PROVE ToldInv'
    BY <1>2, <1>6 DEF ApiCrash, Idle
  <1>7. CASE UNCHANGED <<sent, tick>>
    BY <1>2, <1>7
  <1>8. ASSUME NEW r \in Requests, Arrive(r) \/ Proceed(r) \/ RequestFails(r)
        PROVE  UNCHANGED <<sent, tick>>
    BY <1>8 DEF Arrive, UpdateRead, SubmitRead, ManualRead, Proceed, UpdateWrite, SubmitWrite,
           SubmitPublish, McqResult, McqStatus, McqPublish, AiMark, AiResult, AiReturn,
           AiPublish, AiFallback, ManualResult, ManualStatus, ManualPublish, RequestFails
  <1>9. ASSUME NEW w \in Workers, WorkerStep(w) \/ WorkerFails(w) \/ WorkerCrash(w)
        PROVE  UNCHANGED <<sent, tick>>
    BY <1>9 DEF WorkerStep, WorkerPoll, WorkerMark, WorkerResult, WorkerGraded, WorkerPublish,
           WorkerAck, WorkerNack, WorkerFails, WorkerCrash
  <1>10. CASE (\E a \in Attempts : Create(a)) \/ UNCHANGED vars
    BY <1>7, <1>10 DEF Create, vars
  <1> QED BY <1>3, <1>4, <1>5, <1>6, <1>7, <1>8, <1>9, <1>10 DEF Next, TickStep

(* A completion's message is emitted at most once, whatever overlaps,      *)
(* fails or crashes.                                                       *)
THEOREM ToldOnceAlways == Spec => []ToldOnce
  <1>1. ToldInv => ToldOnce
    BY DEF ToldInv
  <1> QED BY <1>1, InitTold, NextTold, TypeCorrect, HandledAloneAlways, PTL DEF Spec
-----------------------------------------------------------------------------
(* Clients that wait for each response (Serial).  An attempt that has left *)
(* in_progress is closed: nothing opens it again or changes its answer.    *)
Closed(a) == attempt[a].status \notin {"absent", "in_progress"}

(* The requests that will publish a grading event, and those events.       *)
Owes(r) == req[r].pc \in {"publish", "ai_mark", "ai_result", "ai_return", "ai_publish"}

Submits(i) == queue[i].topic = "grade_submission"

Opening(r) == req[r].pc \in {"update", "submit"}

Later(r) == req[r].pc \notin {"new", "update", "submit", "done"}

(* The requests: one has not been answered, its check still holds, and     *)
(* whatever comes after a submission finds the attempt closed and keeps    *)
(* the answer that was stored.                                             *)
RequestsInv ==
  /\ \A q, r \in Requests : InFlight(q) /\ InFlight(r) => q = r
  /\ \A r \in Requests : Opening(r) => attempt[req[r].on].status = "in_progress"
  /\ \A r \in Requests : Later(r) => Closed(req[r].on)
  /\ \A r \in Requests : Owes(r) => Given(r) = attempt[req[r].on].answer
  /\ \A q, r \in Requests : Owes(q) /\ Owes(r) /\ req[q].on = req[r].on => q = r

(* The events: of a closed attempt, with its answer, and nobody owes it    *)
(* another one.                                                            *)
EventsInv ==
  /\ \A i \in DOMAIN queue : Submits(i) =>
       /\ Closed(queue[i].attempt)
       /\ queue[i].value = attempt[queue[i].attempt].answer
       /\ \A r \in Requests : Owes(r) => req[r].on # queue[i].attempt
  /\ SubmittedOnce

WorkersInv == \A w \in Workers : wk[w].pc # "idle" => Submits(wk[w].ev)

SerialInv == RequestsInv /\ EventsInv /\ WorkersInv

LEMMA RequestOn ==
  ASSUME TypeOK, NEW r \in Requests, req[r].pc # "new"
  PROVE  req[r].on \in Attempts /\ req[r] \in RequestState
  BY DEF TypeOK, ReqTypeOK

LEMMA JobSubmits ==
  ASSUME TypeOK, SerialInv, NEW w \in Workers, wk[w].pc # "idle"
  PROVE  Job(w).attempt \in Attempts /\ Closed(Job(w).attempt)
  BY JobType DEF TypeOK, SerialInv, WorkersInv, EventsInv, Job, Event

(* What a step does to an attempt's status and answer.                     *)
SameAnswer(a) == attempt'[a].answer = attempt[a].answer

LEMMA StatusWrite ==
  ASSUME TypeOK, NEW b \in Attempts, NEW s \in {"submitted", "grading", "graded"},
         Closed(b), SetStatus(b, s), NEW a \in Attempts
  PROVE  /\ SameAnswer(a) /\ (Closed(a) <=> Closed(a)')
         /\ ~Closed(a) => attempt'[a].status = attempt[a].status
  BY DEF TypeOK, AttemptTypeOK, AttemptRow, SetStatus, SameAnswer, Closed

LEMMA ScoreWrite ==
  ASSUME TypeOK, NEW b \in Attempts, NEW s \in {"submitted", "graded"}, NEW x, Closed(b),
         attempt' = [attempt EXCEPT ![b].status = s, ![b].score = x], NEW a \in Attempts
  PROVE  /\ SameAnswer(a) /\ (Closed(a) <=> Closed(a)')
         /\ ~Closed(a) => attempt'[a].status = attempt[a].status
  BY DEF TypeOK, AttemptTypeOK, AttemptRow, SameAnswer, Closed

LEMMA AttemptWrites ==
  ASSUME TypeOK, SerialInv, [Next]_vars, NEW a \in Attempts
  PROVE  /\ Closed(a) => Closed(a)' /\ SameAnswer(a)
         /\ attempt[a].status = "in_progress" =>
              \/ attempt'[a].status = "in_progress"
              \/ \E r \in Requests : SubmitWrite(r) /\ req[r].on = a
  <1> DEFINE Calm == /\ SameAnswer(a) /\ (Closed(a) <=> Closed(a)')
                     /\ ~Closed(a) => attempt'[a].status = attempt[a].status
             Goal == /\ Closed(a) => Closed(a)' /\ SameAnswer(a)
                     /\ attempt[a].status = "in_progress" =>
                          \/ attempt'[a].status = "in_progress"
                          \/ \E r \in Requests : SubmitWrite(r) /\ req[r].on = a
  <1>0. Calm => Goal
    BY DEF Closed
  <1>1. ASSUME UNCHANGED attempt PROVE Goal
    BY <1>1 DEF SameAnswer, Closed
  <1>2. ASSUME NEW b \in Attempts, Create(b) PROVE Goal
    BY <1>2 DEF Create, SetStatus, TypeOK, AttemptTypeOK, AttemptRow, SameAnswer, Closed
  <1>3. ASSUME NEW r \in Requests, Arrive(r) \/ RequestFails(r) PROVE UNCHANGED attempt
    BY <1>3 DEF Arrive, UpdateRead, SubmitRead, ManualRead, RequestFails
  <1>4. ASSUME NEW r \in Requests, UpdateWrite(r) \/ SubmitWrite(r) PROVE Goal
    <2>1. req[r].on \in Attempts /\ attempt[req[r].on].status = "in_progress"
      BY <1>4, RequestOn DEF UpdateWrite, SubmitWrite, SerialInv, RequestsInv, Opening
    <2>2. a # req[r].on => attempt'[a] = attempt[a]
      BY <1>4, <2>1 DEF UpdateWrite, SubmitWrite, TypeOK, AttemptTypeOK
    <2>3. CASE a # req[r].on
      BY <2>2, <2>3 DEF SameAnswer, Closed
    <2>4. CASE a = req[r].on /\ SubmitWrite(r)
      BY <2>1, <2>4 DEF Closed
    <2>5. CASE a = req[r].on /\ UpdateWrite(r)
      BY <2>1, <2>5 DEF UpdateWrite, Closed, TypeOK, AttemptTypeOK, AttemptRow
    <2> QED BY <1>4, <2>3, <2>4, <2>5
  <1>5. ASSUME NEW r \in Requests, Later(r), NEW s \in {"submitted", "grading", "graded"},
               SetStatus(req[r].on, s)
        PROVE  Goal
    <2>1. req[r].on \in Attempts /\ Closed(req[r].on)
      BY <1>5, RequestOn DEF Later, SerialInv, RequestsInv
    <2> QED BY <1>0, <1>5, <2>1, StatusWrite
  <1>6. ASSUME NEW r \in Requests, Later(r), NEW s \in {"submitted", "graded"}, NEW x,
               attempt' = [attempt EXCEPT ![req[r].on].status = s, ![req[r].on].score = x]
        PROVE  Goal
    <2>1. req[r].on \in Attempts /\ Closed(req[r].on)
      BY <1>6, RequestOn DEF Later, SerialInv, RequestsInv
    <2> QED BY <1>0, <1>6, <2>1, ScoreWrite
  <1>7. ASSUME NEW r \in Requests, Proceed(r) PROVE Goal
    <2>1. CASE AiMark(r) \/ AiFallback(r)
      BY <1>5, <2>1 DEF AiMark, AiFallback, Later
    <2>2. CASE McqStatus(r)
      BY <1>6, <2>2 DEF McqStatus, Later
    <2>3. CASE ManualStatus(r)
      BY <1>6, <2>3 DEF ManualStatus, Later
    <2>4. CASE AiReturn(r)
      BY <1>6, <2>4 DEF AiReturn, Later
    <2>5. CASE UNCHANGED attempt
      BY <1>1, <2>5
    <2> QED BY <1>4, <1>7, <2>1, <2>2, <2>3, <2>4, <2>5
            DEF Proceed, SubmitPublish, McqResult, McqPublish, AiResult, AiPublish,
                ManualResult, ManualPublish
  <1>8. ASSUME NEW w \in Workers, WorkerStep(w) \/ WorkerFails(w) \/ WorkerCrash(w) PROVE Goal
    <2>1. CASE WorkerMark(w)
      BY <1>0, <2>1, JobSubmits, StatusWrite DEF WorkerMark
    <2>2. CASE WorkerGraded(w)
      BY <1>0, <2>2, JobSubmits, StatusWrite DEF WorkerGraded
    <2>3. CASE UNCHANGED attempt
      BY <1>1, <2>3
    <2> QED BY <1>8, <2>1, <2>2, <2>3
            DEF WorkerStep, WorkerPoll, WorkerResult, WorkerPublish, WorkerAck, WorkerNack,
                WorkerFails, WorkerCrash
  <1>9. ASSUME NEW t \in Ticks, TickStep(t) \/ TickFails(t) PROVE UNCHANGED attempt
    BY <1>9 DEF TickStep, TickClaim, TickHandle, TickAck, TickNack, TickFails
  <1>10. CASE ApiCrash \/ UNCHANGED vars
    BY <1>1, <1>10 DEF ApiCrash, vars
  <1> HIDE DEF Calm, Goal
  <1>11. Goal
    BY <1>1, <1>2, <1>3, <1>4, <1>7, <1>8, <1>9, <1>10 DEF Next, vars, ApiCrash
  <1> QED BY <1>11 DEF Goal
-----------------------------------------------------------------------------
(* A step that moves no request closer to a grading event, and publishes   *)
(* none.                                                                   *)
CalmRequest(r) ==
  \/ req'[r] = req[r]
  \/ req'[r].pc = "done"
  \/ /\ Later(r) /\ Later(r)'
     /\ req'[r].on = req[r].on /\ Given(r)' = Given(r)
     /\ InFlight(r)' => InFlight(r)
     /\ Owes(r)' => Owes(r)

NoNewEvent == \A i \in DOMAIN queue' : Submits(i)' =>
  i \in DOMAIN queue /\ Submits(i) /\ SamePayload(i)

LEMMA CalmRequestFacts ==
  ASSUME TypeOK, NEW r \in Requests, CalmRequest(r)
  PROVE  /\ InFlight(r)' => InFlight(r)
         /\ Opening(r)' => Opening(r) /\ req'[r].on = req[r].on
         /\ Later(r)' => Later(r) /\ req'[r].on = req[r].on
         /\ Owes(r)' => Owes(r) /\ req'[r].on = req[r].on /\ Given(r)' = Given(r)
  BY DEF CalmRequest, InFlight, Opening, Later, Owes, Given

LEMMA EventAt ==
  ASSUME TypeOK, NEW i \in DOMAIN queue
  PROVE  queue[i] \in Event /\ queue[i].attempt \in Attempts
  <1>1. queue[i] \in Event
    BY DEF TypeOK, QueueTypeOK
  <1> QED BY <1>1 DEF Event

LEMMA OwesLater == ASSUME NEW r, Owes(r) PROVE Later(r)
  BY DEF Owes, Later

LEMMA CalmStep ==
  ASSUME TypeOK, SerialInv, [Next]_vars, NoNewEvent,
         \A r \in Requests : CalmRequest(r) /\ ~SubmitWrite(r)
  PROVE  RequestsInv' /\ EventsInv'
  <1>1. \A q, r \in Requests : InFlight(q)' /\ InFlight(r)' => q = r
    BY CalmRequestFacts DEF SerialInv, RequestsInv
  <1>2. ASSUME NEW r \in Requests, Opening(r)' PROVE attempt'[req'[r].on].status = "in_progress"
    <2>1. /\ Opening(r) /\ req'[r].on = req[r].on /\ req[r].on \in Attempts
          /\ attempt[req[r].on].status = "in_progress"
      BY <1>2, CalmRequestFacts, RequestOn DEF SerialInv, RequestsInv, Opening
    <2> QED BY <2>1, AttemptWrites
  <1>3. ASSUME NEW r \in Requests, Later(r)' PROVE Closed(req[r].on)'
    <2>1. /\ Later(r) /\ req'[r].on = req[r].on /\ req[r].on \in Attempts /\ Closed(req[r].on)
      BY <1>3, CalmRequestFacts, RequestOn DEF SerialInv, RequestsInv, Later
    <2> QED BY <2>1, AttemptWrites DEF Closed
  <1>4. ASSUME NEW r \in Requests, Owes(r)' PROVE Given(r)' = attempt'[req'[r].on].answer
    <2>1. /\ Owes(r) /\ Given(r)' = Given(r) /\ req'[r].on = req[r].on /\ req[r].on \in Attempts
          /\ Closed(req[r].on) /\ Given(r) = attempt[req[r].on].answer
      BY <1>4, CalmRequestFacts, RequestOn, OwesLater DEF SerialInv, RequestsInv, Owes
    <2> QED BY <2>1, AttemptWrites DEF SameAnswer
  <1>5. \A q, r \in Requests : Owes(q)' /\ Owes(r)' /\ req'[q].on = req'[r].on => q = r
    BY CalmRequestFacts DEF SerialInv, RequestsInv
  <1>6. ASSUME NEW i \in DOMAIN queue', Submits(i)'
        PROVE  /\ Closed(queue[i].attempt)'
               /\ queue'[i].value = attempt'[queue'[i].attempt].answer
               /\ \A r \in Requests : Owes(r)' => req'[r].on # queue'[i].attempt
    <2>1. /\ i \in DOMAIN queue /\ Submits(i) /\ queue[i].attempt \in Attempts
          /\ queue'[i].attempt = queue[i].attempt /\ queue'[i].value = queue[i].value
      BY <1>6, EventAt DEF NoNewEvent, SamePayload
    <2>2. Closed(queue[i].attempt) /\ queue[i].value = attempt[queue[i].attempt].answer
      BY <2>1 DEF SerialInv, EventsInv
    <2>3. Closed(queue[i].attempt)' /\ queue'[i].value = attempt'[queue'[i].attempt].answer
      BY <2>1, <2>2, AttemptWrites DEF SameAnswer, Closed
    <2> QED BY <2>1, <2>3, CalmRequestFacts DEF SerialInv, EventsInv
  <1>7. SubmittedOnce'
    BY DEF NoNewEvent, Submits, SamePayload, SerialInv, EventsInv, SubmittedOnce
  <1>8. RequestsInv'
    BY <1>1, <1>2, <1>3, <1>4, <1>5 DEF RequestsInv
  <1> QED BY <1>6, <1>7, <1>8 DEF EventsInv

(* A request starts only when no other waits for its response.             *)
LEMMA ArriveStep ==
  ASSUME TypeOK, SerialInv, [Next]_vars, Serial, NEW r \in Requests, Arrive(r)
  PROVE  RequestsInv' /\ EventsInv'
  <1>1. /\ \A q \in Requests : ~InFlight(q)
        /\ req[r].pc = "new" /\ UNCHANGED <<attempt, queue>>
    BY DEF Arrive, UpdateRead, SubmitRead, ManualRead, MayStart
  <1>2. PICK start : \E a \in Attempts :
          /\ req' = [req EXCEPT ![r] = start] /\ start.on = a
          /\ \/ start.pc \in {"update", "submit"} /\ attempt[a].status = "in_progress"
             \/ start.pc = "man_result" /\ Closed(a)
    <2>1. ASSUME NEW a \in Attempts, NEW d, UpdateRead(r, a, d) \/ SubmitRead(r, a, d)
          PROVE  \E start : /\ req' = [req EXCEPT ![r] = start] /\ start.on = a
                            /\ start.pc \in {"update", "submit"}
                            /\ attempt[a].status = "in_progress"
      <3>1. CASE UpdateRead(r, a, d)
        <4> DEFINE start == [NewRequest EXCEPT !.pc = "update", !.on = a, !.dto = d]
        <4>1. start.on = a /\ start.pc = "update"
          BY DEF NewRequest
        <4> QED BY <3>1, <4>1 DEF UpdateRead
      <3>2. CASE SubmitRead(r, a, d)
        <4> DEFINE start == [NewRequest EXCEPT !.pc = "submit", !.on = a, !.dto = d,
                                               !.seen = attempt[a].answer]
        <4>1. start.on = a /\ start.pc = "submit"
          BY DEF NewRequest
        <4> QED BY <3>2, <4>1 DEF SubmitRead
      <3> QED BY <2>1, <3>1, <3>2
    <2>2. ASSUME NEW a \in Attempts, NEW x, ManualRead(r, a, x)
          PROVE  \E start : /\ req' = [req EXCEPT ![r] = start] /\ start.on = a
                            /\ start.pc = "man_result" /\ Closed(a)
      <3> DEFINE start == [NewRequest EXCEPT !.pc = "man_result", !.on = a, !.score = x]
      <3>1. start.on = a /\ start.pc = "man_result"
        BY DEF NewRequest
      <3> QED BY <2>2, <3>1 DEF ManualRead, Closed
    <2> QED BY <2>1, <2>2 DEF Arrive
  <1>3. req'[r] = start /\ \A q \in Requests : q # r => req'[q] = req[q] /\ Given(q)' = Given(q)
    BY <1>2 DEF TypeOK, ReqTypeOK, Given
  <1>4. ~Owes(r)' /\ (Opening(r)' \/ Later(r)')
    BY <1>2, <1>3 DEF Owes, Opening, Later
  <1>5. \A q \in Requests : q # r =>
          /\ ~InFlight(q)' /\ ~Opening(q)'
          /\ (Later(q)' <=> Later(q)) /\ (Owes(q)' <=> Owes(q))
    BY <1>1, <1>3 DEF InFlight, Opening, Later, Owes, AiPcs, AiTry
  <1>6. RequestsInv'
    BY <1>1, <1>2, <1>3, <1>4, <1>5 DEF RequestsInv, SerialInv, Opening, Later, Closed
  <1>7. EventsInv'
    BY <1>1, <1>3, <1>4, <1>5 DEF EventsInv, SerialInv, SubmittedOnce, Submits, Closed
  <1> QED BY <1>6, <1>7

(* The write of a submission closes the attempt and stores what will be    *)
(* published.                                                              *)
LEMMA SubmitStep ==
  ASSUME TypeOK, SerialInv, [Next]_vars, NEW r \in Requests, SubmitWrite(r)
  PROVE  RequestsInv' /\ EventsInv'
  <1> DEFINE a == req[r].on
             g == Given(r)
             pc == Route(r)
             keep == attempt[a].kind = "mcq" /\ req[r].dto = None
             d == IF keep THEN attempt[a].answer ELSE g
  <1>1. /\ req[r].pc = "submit" /\ Goto(r, pc) /\ UNCHANGED queue
        /\ attempt' = [attempt EXCEPT ![a].status = "submitted", ![a].answer = IF keep THEN @ ELSE g]
    BY DEF SubmitWrite
  <1>2. /\ a \in Attempts /\ attempt[a].status = "in_progress" /\ attempt[a] \in AttemptRow
    BY <1>1, RequestOn DEF SerialInv, RequestsInv, Opening, TypeOK, AttemptTypeOK
  <1>3. pc \in {"mcq_result", "left", "ai_mark", "publish"} /\ (pc \in {"ai_mark", "publish"} => ~keep)
    BY DEF Route
  <1>4. /\ req'[r].pc = pc /\ req'[r].on = a /\ Given(r)' = g
        /\ \A q \in Requests : q # r => req'[q] = req[q] /\ Given(q)' = Given(q)
    BY <1>1, GotoKeeps DEF TypeOK
  <1>5. attempt'[a].status = "submitted" /\ (~keep => attempt'[a].answer = g)
    <2> HIDE DEF keep, g, a, pc
    <2> QED BY <1>1, <1>2 DEF TypeOK, AttemptTypeOK, AttemptRow
  <1>6. Closed(a)' /\ ~Closed(a)
    BY <1>2, <1>4, <1>5 DEF Closed
  <1> HIDE DEF keep, d, pc, g
  <1>7. /\ ~Opening(r)' /\ (Owes(r)' => g = attempt'[a].answer)
    BY <1>3, <1>4, <1>5 DEF Opening, Owes
  <1>8. \A q \in Requests : q # r =>
          /\ ~InFlight(q) /\ ~InFlight(q)' /\ ~Opening(q)'
          /\ (Later(q)' <=> Later(q)) /\ (Owes(q)' <=> Owes(q))
    <2>1. InFlight(r)
      BY <1>1 DEF InFlight, AiPcs, AiTry
    <2>2. \A q \in Requests : q # r => ~InFlight(q)
      BY <2>1 DEF SerialInv, RequestsInv
    <2> QED BY <1>4, <2>2 DEF InFlight, Opening, Later, Owes, AiPcs, AiTry
  <1>9. ASSUME NEW q \in Requests, q # r, Later(q)
        PROVE  /\ req'[q].on = req[q].on /\ req[q].on \in Attempts /\ req[q].on # a
               /\ Closed(req[q].on)' /\ attempt'[req[q].on].answer = attempt[req[q].on].answer
    <2>1. req[q].on \in Attempts /\ Closed(req[q].on)
      BY <1>9, RequestOn DEF SerialInv, RequestsInv, Later
    <2> QED BY <1>4, <1>6, <1>9, <2>1, AttemptWrites DEF SameAnswer, Closed
  <1>10. \A q, s \in Requests : InFlight(q)' /\ InFlight(s)' => q = s
    BY <1>8
  <1>11. \A q \in Requests : Later(q)' => Closed(req[q].on)'
    BY <1>4, <1>6, <1>8, <1>9 DEF Closed
  <1>12. \A q \in Requests : Owes(q)' => Given(q)' = attempt'[req'[q].on].answer
    <2> SUFFICES ASSUME NEW q \in Requests, Owes(q)' PROVE Given(q)' = attempt'[req'[q].on].answer
      OBVIOUS
    <2>1. CASE q = r
      BY <1>4, <1>7, <2>1
    <2>2. CASE q # r
      <3>1. Owes(q) /\ Later(q)
        BY <1>8, <2>2, OwesLater
      <3> QED BY <1>4, <1>9, <2>2, <3>1 DEF SerialInv, RequestsInv
    <2> QED BY <2>1, <2>2
  <1>13. \A q, s \in Requests : Owes(q)' /\ Owes(s)' /\ req'[q].on = req'[s].on => q = s
    <2>1. \A q \in Requests : q # r /\ Owes(q)' => Owes(q) /\ req'[q].on = req[q].on /\ req[q].on # a
      BY <1>8, <1>9, OwesLater
    <2> QED BY <1>4, <2>1 DEF SerialInv, RequestsInv
  <1>14. RequestsInv'
    <2>1. \A q \in Requests : ~Opening(q)'
      BY <1>7, <1>8
    <2> QED BY <1>10, <1>11, <1>12, <1>13, <2>1 DEF RequestsInv
  <1>15. ASSUME NEW i \in DOMAIN queue, Submits(i)
         PROVE  /\ Closed(queue[i].attempt)'
                /\ queue[i].value = attempt'[queue[i].attempt].answer
                /\ \A q \in Requests : Owes(q)' => req'[q].on # queue[i].attempt
    <2>1. /\ queue[i].attempt \in Attempts /\ Closed(queue[i].attempt)
          /\ queue[i].value = attempt[queue[i].attempt].answer
          /\ \A q \in Requests : Owes(q) => req[q].on # queue[i].attempt
      BY <1>15, EventAt DEF SerialInv, EventsInv
    <2>2. \A q \in Requests : Owes(q)' => req'[q].on # queue[i].attempt
      BY <1>4, <1>6, <1>8, <2>1 DEF Closed
    <2>3. Closed(queue[i].attempt)' /\ attempt'[queue[i].attempt].answer = attempt[queue[i].attempt].answer
      BY <1>1, <2>1, AttemptWrites DEF SameAnswer, Closed
    <2> QED BY <2>1, <2>2, <2>3
  <1>16. EventsInv'
    BY <1>1, <1>15 DEF EventsInv, SerialInv, SubmittedOnce, Submits, Closed
  <1> QED BY <1>14, <1>16

(* The request that owes the attempt its grading event publishes it.       *)
LEMMA PublishStep ==
  ASSUME TypeOK, SerialInv, [Next]_vars, NEW r \in Requests, SubmitPublish(r) \/ AiPublish(r)
  PROVE  RequestsInv' /\ EventsInv'
  <1> DEFINE a == req[r].on
             n == Len(queue) + 1
  <1>1. PICK student : /\ Publish(Submission(a, student, Given(r))) /\ Goto(r, "done")
                       /\ Owes(r) /\ UNCHANGED attempt
    BY DEF SubmitPublish, AiPublish, Owes
  <1>2. /\ a \in Attempts /\ Closed(a) /\ Given(r) = attempt[a].answer
    BY <1>1, RequestOn, OwesLater DEF SerialInv, RequestsInv, Owes
  <1>3. /\ req'[r].pc = "done"
        /\ \A q \in Requests : q # r => req'[q] = req[q] /\ Given(q)' = Given(q)
    BY <1>1, GotoKeeps DEF TypeOK
  <1>4. /\ DOMAIN queue' = DOMAIN queue \cup {n} /\ n \notin DOMAIN queue
        /\ \A i \in DOMAIN queue : queue'[i] = queue[i]
        /\ queue'[n].attempt = a /\ queue'[n].value = Given(r)
    BY <1>1 DEF Publish, Submission, TypeOK, QueueTypeOK
  <1>5. /\ ~InFlight(r)' /\ ~Opening(r)' /\ ~Later(r)' /\ ~Owes(r)'
        /\ \A q \in Requests : q # r =>
             /\ (InFlight(q)' <=> InFlight(q)) /\ (Opening(q)' <=> Opening(q))
             /\ (Later(q)' <=> Later(q)) /\ (Owes(q)' <=> Owes(q))
    BY <1>3 DEF InFlight, Opening, Later, Owes
  <1>6. RequestsInv'
    BY <1>1, <1>3, <1>5 DEF RequestsInv, SerialInv, Closed
  <1>7. ASSUME NEW i \in DOMAIN queue, Submits(i)
        PROVE  /\ Closed(queue[i].attempt)' /\ queue[i].attempt # a
               /\ queue[i].value = attempt'[queue[i].attempt].answer
               /\ \A q \in Requests : Owes(q)' => req'[q].on # queue[i].attempt
    <2>1. /\ Closed(queue[i].attempt) /\ queue[i].value = attempt[queue[i].attempt].answer
          /\ \A q \in Requests : Owes(q) => req[q].on # queue[i].attempt
      BY <1>7 DEF SerialInv, EventsInv
    <2>2. \A q \in Requests : Owes(q)' => Owes(q) /\ req'[q].on = req[q].on
      BY <1>3, <1>5
    <2> QED BY <1>1, <1>4, <1>7, <2>1, <2>2 DEF Closed
  <1>8. \A q \in Requests : Owes(q)' => req'[q].on # a
    BY <1>1, <1>3, <1>5 DEF SerialInv, RequestsInv
  <1>9. SubmittedOnce'
    BY <1>4, <1>7 DEF SubmittedOnce, Submits, SerialInv, EventsInv
  <1>10. ASSUME NEW i \in DOMAIN queue', Submits(i)'
         PROVE  /\ Closed(queue[i].attempt)'
                /\ queue'[i].value = attempt'[queue'[i].attempt].answer
                /\ \A q \in Requests : Owes(q)' => req'[q].on # queue'[i].attempt
    <2>1. CASE i = n
      BY <1>1, <1>2, <1>4, <1>8, <2>1 DEF Closed
    <2>2. CASE i \in DOMAIN queue
      BY <1>4, <1>7, <1>10, <2>2 DEF Submits, Closed
    <2> QED BY <1>4, <2>1, <2>2
  <1> QED BY <1>6, <1>9, <1>10 DEF EventsInv
-----------------------------------------------------------------------------
(* Workers hold grading events only.                                       *)
LEMMA WorkersNext ==
  ASSUME TypeOK, WorkersInv, [Next]_vars PROVE WorkersInv'
  <1> SUFFICES ASSUME NEW w \in Workers, wk'[w].pc # "idle" PROVE Submits(wk[w].ev)'
    BY DEF WorkersInv
  <1> USE DEF TypeOK, WorkerTypeOK
  <1>1. ASSUME wk[w].pc # "idle", wk'[w].ev = wk[w].ev PROVE Submits(wk[w].ev)'
    <2>1. wk[w].ev \in DOMAIN queue /\ Submits(wk[w].ev)
      BY <1>1 DEF WorkersInv
    <2>2. SamePayload(wk[w].ev)
      BY <2>1, PayloadKept
    <2> QED BY <1>1, <2>1, <2>2 DEF SamePayload, Submits
  <1>2. ASSUME wk'[w] = wk[w] PROVE Submits(wk[w].ev)'
    BY <1>1, <1>2
  <1>3. ASSUME NEW v \in Workers, WorkerStep(v) \/ WorkerFails(v) \/ WorkerCrash(v), v # w
        PROVE  wk'[w] = wk[w]
    BY <1>3 DEF WorkerStep, WorkerPoll, WorkerMark, WorkerResult, WorkerGraded, WorkerPublish,
           WorkerAck, WorkerNack, WorkerFails, WorkerCrash, WorkerGoto
  <1>4. CASE WorkerPoll(w)
    <2>1. PICK i \in DOMAIN queue : /\ queue[i].topic = "grade_submission"
                                    /\ wk' = [wk EXCEPT ![w] = [pc |-> "mark", ev |-> i]]
      BY <1>4 DEF WorkerPoll, Oldest
    <2>2. wk'[w].ev = i
      BY <2>1
    <2>3. SamePayload(i)
      BY <2>1, PayloadKept
    <2> QED BY <2>1, <2>2, <2>3 DEF SamePayload, Submits
  <1>5. CASE WorkerMark(w) \/ WorkerResult(w) \/ WorkerGraded(w) \/ WorkerPublish(w)
    <2>1. wk[w].pc # "idle" /\ wk'[w].ev = wk[w].ev
      BY <1>5 DEF WorkerMark, WorkerResult, WorkerGraded, WorkerPublish, WorkerGoto
    <2> QED BY <1>1, <2>1
  <1>6. CASE WorkerAck(w) \/ WorkerNack(w) \/ WorkerCrash(w)
    BY <1>6 DEF WorkerAck, WorkerNack, WorkerCrash, Idle
  <1>7. CASE WorkerFails(w)
    <2>1. /\ wk[w].pc # "idle"
          /\ wk'[w] = IF wk[w].pc = "nack" THEN Idle ELSE [wk[w] EXCEPT !.pc = "nack"]
      BY <1>7 DEF WorkerFails
    <2>2. wk'[w].ev = wk[w].ev
      BY <2>1 DEF Idle
    <2> QED BY <1>1, <2>1, <2>2
  <1>8. ASSUME NEW r \in Requests, Arrive(r) \/ Proceed(r) \/ RequestFails(r)
        PROVE  UNCHANGED wk
    BY <1>8 DEF Arrive, UpdateRead, SubmitRead, ManualRead, RequestFails, Proceed,
           UpdateWrite, SubmitWrite, SubmitPublish, McqResult, McqStatus, McqPublish, AiMark,
           AiResult, AiReturn, AiPublish, AiFallback, ManualResult, ManualStatus, ManualPublish
  <1>9. ASSUME NEW t \in Ticks, TickStep(t) \/ TickFails(t) PROVE UNCHANGED wk
    BY <1>9 DEF TickStep, TickClaim, TickHandle, TickAck, TickNack, TickFails
  <1>10. CASE ApiCrash \/ (\E a \in Attempts : Create(a)) \/ UNCHANGED vars
    BY <1>2, <1>10 DEF ApiCrash, Create, vars
  <1> QED BY <1>2, <1>3, <1>4, <1>5, <1>6, <1>7, <1>8, <1>9, <1>10 DEF Next, WorkerStep

(* Every other step is calm.                                               *)
LEMMA NoEventPublished ==
  ASSUME TypeOK, UNCHANGED queue \/ (\E i, s : Mark(i, s))
                   \/ (\E e : Publish(e) /\ e.topic = "grade_completed")
  PROVE  NoNewEvent
  <1>1. CASE UNCHANGED queue
    BY <1>1 DEF NoNewEvent, SamePayload, Submits
  <1>2. ASSUME NEW i, NEW s, Mark(i, s) PROVE NoNewEvent
    <2>1. DOMAIN queue' = DOMAIN queue
      BY <1>2 DEF Mark
    <2>2. \A j \in DOMAIN queue : SamePayload(j)
      BY <1>2, MarkKeeps
    <2> QED BY <2>1, <2>2 DEF NoNewEvent, Submits, SamePayload
  <1>3. ASSUME NEW e, Publish(e), e.topic = "grade_completed" PROVE NoNewEvent
    <2>1. /\ DOMAIN queue' = DOMAIN queue \cup {Len(queue) + 1}
          /\ queue'[Len(queue) + 1] = e
      BY <1>3 DEF Publish, TypeOK, QueueTypeOK
    <2>2. \A j \in DOMAIN queue : SamePayload(j)
      BY <1>3, PublishKeeps
    <2> QED BY <1>3, <2>1, <2>2 DEF NoNewEvent, Submits, SamePayload
  <1> QED BY <1>1, <1>2, <1>3

LEMMA CalmProceed ==
  ASSUME TypeOK, NEW r \in Requests, Proceed(r) \/ RequestFails(r),
         ~SubmitWrite(r), ~SubmitPublish(r), ~AiPublish(r)
  PROVE  NoNewEvent /\ \A q \in Requests : CalmRequest(q) /\ ~SubmitWrite(q)
  <1>1. ASSUME NEW pc, Goto(r, pc), req[r].pc # "submit",
               \/ pc = "done"
               \/ Later(r) /\ pc \in {"mcq_status", "mcq_publish", "man_status", "man_publish"}
                  /\ InFlight(r)
               \/ req[r].pc \in AiPcs /\ pc = "ai_fallback"
               \/ Owes(r) /\ req[r].pc \in AiPcs /\ pc \in {"ai_result", "ai_return", "ai_publish"}
        PROVE  \A q \in Requests : CalmRequest(q)
    <2>1. /\ req'[r].pc = pc /\ req'[r].on = req[r].on /\ Given(r)' = Given(r)
          /\ \A q \in Requests : q # r => req'[q] = req[q]
      BY <1>1, GotoKeeps DEF TypeOK
    <2>2. CalmRequest(r)
      BY <1>1, <2>1 DEF CalmRequest, Later, InFlight, Owes, AiPcs, AiTry
    <2> QED BY <2>1, <2>2 DEF CalmRequest
  <1>2. /\ \A q \in Requests : CalmRequest(q)
        /\ UNCHANGED queue \/ (\E e : Publish(e) /\ e.topic = "grade_completed")
    <2>1. CASE UpdateWrite(r)
      BY <1>1, <2>1 DEF UpdateWrite
    <2>2. CASE McqResult(r) \/ McqStatus(r)
      BY <1>1, <2>2 DEF McqResult, McqStatus, Later, InFlight, AiPcs, AiTry
    <2>3. CASE McqPublish(r) \/ ManualPublish(r)
      BY <1>1, <2>3 DEF McqPublish, ManualPublish, Completion
    <2>4. CASE AiMark(r) \/ AiResult(r) \/ AiReturn(r)
      BY <1>1, <2>4 DEF AiMark, AiResult, AiReturn, Owes, AiPcs, AiTry
    <2>5. CASE AiFallback(r)
      BY <1>1, <2>5 DEF AiFallback
    <2>6. CASE ManualResult(r) \/ ManualStatus(r)
      BY <1>1, <2>6 DEF ManualResult, ManualStatus, Later, InFlight, AiPcs, AiTry
    <2>7. CASE RequestFails(r)
      <3>1. CASE req[r].pc = "submit"
        <4>1. /\ req'[r].pc = "done" /\ \A q \in Requests : q # r => req'[q] = req[q]
          BY <2>7, <3>1, GotoKeeps DEF RequestFails, TypeOK, AiTry
        <4> QED BY <2>7, <4>1 DEF RequestFails, CalmRequest
      <3>2. CASE req[r].pc # "submit"
        BY <1>1, <2>7, <3>2 DEF RequestFails, AiPcs
      <3> QED BY <3>1, <3>2
    <2> QED BY <2>1, <2>2, <2>3, <2>4, <2>5, <2>6, <2>7 DEF Proceed
  <1>3. ASSUME NEW q \in Requests, SubmitWrite(q) PROVE FALSE
    <2>1. q # r
      BY <1>3
    <2>2. req'[r] = req[r]
      BY <1>3, <2>1 DEF SubmitWrite, Goto, TypeOK, ReqTypeOK
    <2>3. req'[r].pc # req[r].pc
      <3>1. ASSUME NEW pc, Goto(r, pc), pc # req[r].pc PROVE req'[r].pc # req[r].pc
        BY <3>1, GotoKeeps DEF TypeOK
      <3> QED BY <3>1 DEF Proceed, UpdateWrite, McqResult, McqStatus, McqPublish, AiMark,
             AiResult, AiReturn, AiFallback, ManualResult, ManualStatus, ManualPublish,
             RequestFails, AiTry
    <2> QED BY <2>2, <2>3
  <1> QED BY <1>2, <1>3, NoEventPublished
LEMMA NoSubmission ==
  ASSUME TypeOK, SerialInv, UNCHANGED attempt \/ UNCHANGED req, NEW r \in Requests
  PROVE  ~SubmitWrite(r)
  <1> SUFFICES ASSUME SubmitWrite(r) PROVE FALSE
    OBVIOUS
  <1>1. /\ req[r].pc = "submit" /\ req[r].on \in Attempts
        /\ attempt[req[r].on].status = "in_progress"
    BY RequestOn DEF SubmitWrite, SerialInv, RequestsInv, Opening
  <1>2. CASE UNCHANGED req
    <2>1. Route(r) # "submit"
      BY DEF Route
    <2>2. Goto(r, Route(r))
      BY DEF SubmitWrite
    <2>3. req'[r].pc = Route(r)
      BY <2>2, GotoKeeps DEF TypeOK
    <2> QED BY <1>1, <1>2, <2>1, <2>3
  <1>3. CASE UNCHANGED attempt
    <2>1. attempt'[req[r].on].status = "submitted"
      BY <1>1 DEF SubmitWrite, TypeOK, AttemptTypeOK, AttemptRow
    <2> QED BY <1>1, <1>3, <2>1
  <1> QED BY <1>2, <1>3

LEMMA CalmElsewhere ==
  ASSUME TypeOK, SerialInv,
         \/ \E a \in Attempts : Create(a)
         \/ \E w \in Workers : WorkerStep(w) \/ WorkerFails(w) \/ WorkerCrash(w)
         \/ \E t \in Ticks : TickStep(t) \/ TickFails(t)
         \/ ApiCrash
         \/ UNCHANGED vars
  PROVE  NoNewEvent /\ \A r \in Requests : CalmRequest(r) /\ ~SubmitWrite(r)
  <1> DEFINE Quiet == \/ UNCHANGED queue \/ (\E i, s : Mark(i, s))
                      \/ (\E e : Publish(e) /\ e.topic = "grade_completed")
  <1>1. ASSUME NEW w \in Workers, WorkerStep(w) \/ WorkerFails(w) \/ WorkerCrash(w)
        PROVE  Quiet /\ UNCHANGED req
    <2>1. CASE WorkerPublish(w)
      BY <2>1 DEF WorkerPublish, Completion
    <2> QED BY <1>1, <2>1 DEF WorkerStep, WorkerPoll, WorkerMark, WorkerResult, WorkerGraded,
           WorkerAck, WorkerNack, WorkerFails, WorkerCrash
  <1>2. ASSUME NEW t \in Ticks, TickStep(t) \/ TickFails(t) PROVE Quiet /\ UNCHANGED req
    BY <1>2 DEF TickStep, TickClaim, TickHandle, TickAck, TickNack, TickFails
  <1>3. ASSUME NEW a \in Attempts, Create(a) PROVE Quiet /\ UNCHANGED req
    BY <1>3 DEF Create
  <1>4. ASSUME ApiCrash
        PROVE  Quiet /\ UNCHANGED attempt /\ \A r \in Requests : CalmRequest(r)
    <2>1. ASSUME NEW r \in Requests PROVE CalmRequest(r)
      <3>1. /\ req[r] \in RequestState
            /\ req'[r] = IF req[r].pc \in {"new", "left"} THEN req[r] ELSE [req[r] EXCEPT !.pc = "done"]
        BY <1>4 DEF ApiCrash, TypeOK, ReqTypeOK
      <3> QED BY <3>1 DEF CalmRequest, RequestState
    <2> QED BY <1>4, <2>1 DEF ApiCrash
  <1>5. /\ Quiet
        /\ UNCHANGED req \/ (UNCHANGED attempt /\ \A r \in Requests : CalmRequest(r))
    <2>1. CASE UNCHANGED vars
      BY <2>1 DEF vars
    <2> HIDE DEF Quiet
    <2> QED BY <1>1, <1>2, <1>3, <1>4, <2>1
  <1>6. \A r \in Requests : ~SubmitWrite(r)
    BY <1>5, NoSubmission
  <1>7. \A r \in Requests : CalmRequest(r)
    BY <1>5 DEF CalmRequest
  <1> QED BY <1>5, <1>6, <1>7, NoEventPublished

LEMMA InitSerial == Init => SerialInv
  BY DEF Init, SerialInv, RequestsInv, EventsInv, WorkersInv, SubmittedOnce, InFlight, Opening,
         Later, Owes, Submits, NewRequest, Idle

LEMMA NextSerial == Serial /\ TypeOK /\ SerialInv /\ [Next]_vars => SerialInv'
  <1> SUFFICES ASSUME Serial, TypeOK, SerialInv, [Next]_vars PROVE SerialInv'
    OBVIOUS
  <1>1. ASSUME NEW r \in Requests, Arrive(r) PROVE RequestsInv' /\ EventsInv'
    BY <1>1, ArriveStep
  <1>2. ASSUME NEW r \in Requests, Proceed(r) \/ RequestFails(r)
        PROVE  RequestsInv' /\ EventsInv'
    <2>1. CASE SubmitWrite(r)
      BY <2>1, SubmitStep
    <2>2. CASE SubmitPublish(r) \/ AiPublish(r)
      BY <2>2, PublishStep
    <2>3. CASE ~SubmitWrite(r) /\ ~SubmitPublish(r) /\ ~AiPublish(r)
      BY <1>2, <2>3, CalmProceed, CalmStep
    <2> QED BY <2>1, <2>2, <2>3
  <1>3. ASSUME \/ \E a \in Attempts : Create(a)
               \/ \E w \in Workers : WorkerStep(w) \/ WorkerFails(w) \/ WorkerCrash(w)
               \/ \E t \in Ticks : TickStep(t) \/ TickFails(t)
               \/ ApiCrash
               \/ UNCHANGED vars
        PROVE  RequestsInv' /\ EventsInv'
    BY <1>3, CalmElsewhere, CalmStep
  <1>4. RequestsInv' /\ EventsInv'
    BY <1>1, <1>2, <1>3 DEF Next
  <1> QED BY <1>4, WorkersNext DEF SerialInv

LEMMA SerialAlways == Serial /\ Spec => []SerialInv
  <1> SUFFICES ASSUME Serial PROVE Spec => []SerialInv
    OBVIOUS
  <1>1. TypeOK /\ SerialInv /\ [Next]_vars => SerialInv'
    BY NextSerial
  <1> QED BY <1>1, InitSerial, TypeCorrect, PTL DEF Spec

(* When clients wait for each response, an attempt is submitted once: one  *)
(* grading event is ever published for it.                                 *)
THEOREM SubmittedOnceAlways == Serial /\ Spec => []SubmittedOnce
  <1>1. SerialInv => SubmittedOnce
    BY DEF SerialInv, EventsInv
  <1> QED BY <1>1, SerialAlways, PTL

(* Under the same condition the answer an attempt is graded on is the one  *)
(* that is stored.                                                         *)
THEOREM GradedOnStoredAnswerAlways == Serial /\ Spec => []GradedOnStoredAnswer
  <1>1. SerialInv => GradedOnStoredAnswer
    BY DEF SerialInv, EventsInv, GradedOnStoredAnswer, Submits
  <1> QED BY <1>1, SerialAlways, PTL

(* And the answer of a submitted attempt never changes.                    *)
THEOREM AnswerKeptAlways == Serial /\ Spec => AnswerKept
  <1>1. TypeOK /\ SerialInv /\ [Next]_vars =>
          [\A a \in Attempts : attempt[a].status \notin {"absent", "in_progress"}
             => attempt'[a].answer = attempt[a].answer]_vars
    BY AttemptWrites DEF Closed, SameAnswer
  <1> QED BY <1>1, SerialAlways, TypeCorrect, PTL DEF Spec, AnswerKept
-----------------------------------------------------------------------------
(* What is settled as processed has been done (with or without Serial).    *)
Emitted(i) == \E m \in DOMAIN sent : sent[m] = i

(* The grading events of an attempt whose completion has been published:   *)
(* those settled as processed and those about to be.                       *)
Done(a) == {i \in DOMAIN queue :
  /\ queue[i].topic = "grade_submission" /\ queue[i].attempt = a
  /\ \/ queue[i].status = "processed"
     \/ \E w \in Workers : wk[w].pc = "ack" /\ wk[w].ev = i}

Told(a) == {i \in DOMAIN queue : /\ queue[i].topic = "grade_completed"
                                 /\ queue[i].src = "worker"
                                 /\ queue[i].attempt = a}

TicksInv == \A t \in Ticks : tick[t].pc # "idle" => queue[tick[t].ev].topic = "grade_completed"

EmittedInv ==
  /\ \A t \in Ticks : tick[t].pc = "ack" => Emitted(tick[t].ev)
  /\ \A i \in DOMAIN queue :
       queue[i].topic = "grade_completed" /\ queue[i].status = "processed" => Emitted(i)

CountInv == \A a \in Attempts : Cardinality(Done(a)) <= Cardinality(Told(a))

ProcessedInv == WorkersInv /\ TicksInv /\ EmittedInv /\ CountInv

(* A row becomes processed when a worker or a poller acknowledges it.      *)
LEMMA ProcessedBy ==
  ASSUME TypeOK, [Next]_vars, NEW i \in DOMAIN queue', queue'[i].status = "processed"
  PROVE  /\ i \in DOMAIN queue
         /\ \/ queue[i].status = "processed"
            \/ \E w \in Workers : WorkerAck(w) /\ wk[w].ev = i
            \/ \E t \in Ticks : TickAck(t) /\ tick[t].ev = i
  <1> DEFINE Same == i \in DOMAIN queue /\ queue[i].status = "processed"
  <1>1. ASSUME UNCHANGED queue PROVE Same
    BY <1>1
  <1>2. ASSUME NEW e, Publish(e), e.status = "pending" PROVE Same
    BY <1>2 DEF Publish, TypeOK, QueueTypeOK
  <1>3. ASSUME NEW j, NEW s, Mark(j, s) PROVE i \in DOMAIN queue /\ (Same \/ (j = i /\ s = "processed"))
    <2>1. DOMAIN queue' = DOMAIN queue /\ \A k \in DOMAIN queue : k # j => queue'[k] = queue[k]
      BY <1>3 DEF Mark
    <2>2. i \in DOMAIN queue /\ queue[i] \in Event
      BY <2>1, EventAt
    <2>3. i = j => queue'[i].status = s
      BY <1>3, <2>2 DEF Mark, Event
    <2> QED BY <2>1, <2>2, <2>3
  <1>4. ASSUME NEW r \in Requests, Arrive(r) \/ Proceed(r) \/ RequestFails(r)
        PROVE  UNCHANGED queue \/ \E e : Publish(e) /\ e.status = "pending"
    <2>1. CASE SubmitPublish(r) \/ AiPublish(r)
      BY <2>1 DEF SubmitPublish, AiPublish, Submission
    <2>2. CASE McqPublish(r) \/ ManualPublish(r)
      BY <2>2 DEF McqPublish, ManualPublish, Completion
    <2> QED BY <1>4, <2>1, <2>2 DEF Arrive, UpdateRead, SubmitRead, ManualRead, Proceed,
           UpdateWrite, SubmitWrite, McqResult, McqStatus, AiMark, AiResult, AiReturn,
           AiFallback, ManualResult, ManualStatus, RequestFails
  <1>5. ASSUME NEW w \in Workers, WorkerStep(w) \/ WorkerFails(w) \/ WorkerCrash(w)
        PROVE  \/ UNCHANGED queue \/ (\E e : Publish(e) /\ e.status = "pending")
               \/ (\E j, s : s # "processed" /\ Mark(j, s))
               \/ WorkerAck(w) /\ Mark(wk[w].ev, "processed")
    <2>1. CASE WorkerPublish(w)
      BY <2>1 DEF WorkerPublish, Completion
    <2> QED BY <1>5, <2>1 DEF WorkerStep, WorkerPoll, WorkerMark, WorkerResult, WorkerGraded,
           WorkerAck, WorkerNack, WorkerFails, WorkerCrash
  <1>6. ASSUME NEW t \in Ticks, TickStep(t) \/ TickFails(t)
        PROVE  \/ UNCHANGED queue \/ (\E j, s : s # "processed" /\ Mark(j, s))
               \/ TickAck(t) /\ Mark(tick[t].ev, "processed")
    BY <1>6 DEF TickStep, TickClaim, TickHandle, TickAck, TickNack, TickFails
  <1>7. ASSUME ApiCrash \/ (\E a \in Attempts : Create(a)) \/ UNCHANGED vars PROVE Same
    BY <1>1, <1>7 DEF ApiCrash, Create, vars
  <1> HIDE DEF Same
  <1>8. \/ Same
        \/ i \in DOMAIN queue /\ \E w \in Workers : WorkerAck(w) /\ wk[w].ev = i
        \/ i \in DOMAIN queue /\ \E t \in Ticks : TickAck(t) /\ tick[t].ev = i
    BY <1>1, <1>2, <1>3, <1>4, <1>5, <1>6, <1>7 DEF Next
  <1> QED BY <1>8 DEF Same

(* What brings a worker, or a tick, to its acknowledgement.                *)
LEMMA WorkerAcks ==
  ASSUME TypeOK, [Next]_vars, NEW w \in Workers, wk'[w].pc = "ack"
  PROVE  wk'[w].ev = wk[w].ev /\ (wk[w].pc = "ack" \/ WorkerPublish(w))
  <1> USE DEF TypeOK, WorkerTypeOK
  <1>1. ASSUME wk'[w] = wk[w] PROVE wk'[w].ev = wk[w].ev /\ wk[w].pc = "ack"
    BY <1>1
  <1>2. ASSUME NEW v \in Workers, WorkerStep(v) \/ WorkerFails(v) \/ WorkerCrash(v), v # w
        PROVE  wk'[w] = wk[w]
    BY <1>2 DEF WorkerStep, WorkerPoll, WorkerMark, WorkerResult, WorkerGraded, WorkerPublish,
           WorkerAck, WorkerNack, WorkerFails, WorkerCrash, WorkerGoto
  <1>3. ~WorkerPoll(w) /\ ~WorkerAck(w) /\ ~WorkerNack(w) /\ ~WorkerCrash(w)
    BY DEF WorkerPoll, WorkerAck, WorkerNack, WorkerCrash, Idle
  <1>4. ~WorkerMark(w) /\ ~WorkerResult(w) /\ ~WorkerGraded(w)
    BY DEF WorkerMark, WorkerResult, WorkerGraded, WorkerGoto
  <1>5. ASSUME WorkerPublish(w) PROVE wk'[w].ev = wk[w].ev
    BY <1>5 DEF WorkerPublish, WorkerGoto
  <1>6. ~WorkerFails(w)
    <2>1. ASSUME WorkerFails(w)
          PROVE  wk'[w] = IF wk[w].pc = "nack" THEN Idle ELSE [wk[w] EXCEPT !.pc = "nack"]
      BY <2>1 DEF WorkerFails
    <2> QED BY <2>1 DEF Idle
  <1>7. ASSUME NEW r \in Requests, Arrive(r) \/ Proceed(r) \/ RequestFails(r)
        PROVE  UNCHANGED wk
    BY <1>7 DEF Arrive, UpdateRead, SubmitRead, ManualRead, RequestFails, Proceed,
           UpdateWrite, SubmitWrite, SubmitPublish, McqResult, McqStatus, McqPublish, AiMark,
           AiResult, AiReturn, AiPublish, AiFallback, ManualResult, ManualStatus, ManualPublish
  <1>8. ASSUME NEW t \in Ticks, TickStep(t) \/ TickFails(t) PROVE UNCHANGED wk
    BY <1>8 DEF TickStep, TickClaim, TickHandle, TickAck, TickNack, TickFails
  <1>9. CASE ApiCrash \/ (\E a \in Attempts : Create(a)) \/ UNCHANGED vars
    BY <1>1, <1>9 DEF ApiCrash, Create, vars
  <1> QED BY <1>1, <1>2, <1>3, <1>4, <1>5, <1>6, <1>7, <1>8, <1>9 DEF Next, WorkerStep

LEMMA TickSteps ==
  ASSUME TypeOK, [Next]_vars, NEW t \in Ticks, tick'[t].pc # "idle"
  PROVE  \/ tick[t].pc # "idle" /\ tick'[t].ev = tick[t].ev
            /\ (tick'[t].pc = "ack" => tick[t].pc = "ack" \/ sent' = Append(sent, tick[t].ev))
         \/ \E i \in DOMAIN queue : /\ queue[i].topic = "grade_completed"
                                    /\ tick'[t] = [pc |-> "handle", ev |-> i]
  <1> USE DEF TypeOK, TickTypeOK
  <1> DEFINE Goes == tick[t].pc # "idle" /\ tick'[t].ev = tick[t].ev
                     /\ (tick'[t].pc = "ack" => tick[t].pc = "ack" \/ sent' = Append(sent, tick[t].ev))
  <1>1. ASSUME tick'[t] = tick[t] PROVE Goes
    BY <1>1
  <1>2. ASSUME NEW u \in Ticks, TickStep(u) \/ TickFails(u), u # t PROVE tick'[t] = tick[t]
    BY <1>2 DEF TickStep, TickClaim, TickHandle, TickAck, TickNack, TickFails
  <1>3. ~TickAck(t) /\ ~TickNack(t)
    BY DEF TickAck, TickNack, Idle
  <1>4. ASSUME TickClaim(t)
        PROVE  \E i \in DOMAIN queue : /\ queue[i].topic = "grade_completed"
                                       /\ tick'[t] = [pc |-> "handle", ev |-> i]
    BY <1>4 DEF TickClaim, Oldest
  <1>5. ASSUME TickHandle(t) PROVE Goes
    BY <1>5 DEF TickHandle
  <1>6. ASSUME TickFails(t) PROVE Goes
    <2>1. /\ tick[t].pc # "idle"
          /\ tick'[t] = IF tick[t].pc = "nack" THEN Idle ELSE [tick[t] EXCEPT !.pc = "nack"]
      BY <1>6 DEF TickFails
    <2> QED BY <2>1 DEF Idle
  <1>7. ASSUME NEW r \in Requests, Arrive(r) \/ Proceed(r) \/ RequestFails(r)
        PROVE  UNCHANGED tick
    BY <1>7 DEF Arrive, UpdateRead, SubmitRead, ManualRead, RequestFails, Proceed,
           UpdateWrite, SubmitWrite, SubmitPublish, McqResult, McqStatus, McqPublish, AiMark,
           AiResult, AiReturn, AiPublish, AiFallback, ManualResult, ManualStatus, ManualPublish
  <1>8. ASSUME NEW w \in Workers, WorkerStep(w) \/ WorkerFails(w) \/ WorkerCrash(w)
        PROVE  UNCHANGED tick
    BY <1>8 DEF WorkerStep, WorkerPoll, WorkerMark, WorkerResult, WorkerGraded, WorkerPublish,
           WorkerAck, WorkerNack, WorkerFails, WorkerCrash
  <1>9. ~ApiCrash
    BY DEF ApiCrash, Idle
  <1>10. ASSUME (\E a \in Attempts : Create(a)) \/ UNCHANGED vars PROVE Goes
    BY <1>1, <1>10 DEF Create, vars
  <1> HIDE DEF Goes
  <1>11. Goes \/ \E i \in DOMAIN queue : /\ queue[i].topic = "grade_completed"
                                         /\ tick'[t] = [pc |-> "handle", ev |-> i]
    BY <1>1, <1>2, <1>3, <1>4, <1>5, <1>6, <1>7, <1>8, <1>9, <1>10 DEF Next, TickStep
  <1> QED BY <1>11 DEF Goes

LEMMA SentGrows ==
  ASSUME TypeOK, [Next]_vars, NEW i, Emitted(i)
  PROVE  Emitted(i)'
  <1>1. UNCHANGED sent \/ \E x : sent' = Append(sent, x)
    <2>1. ASSUME NEW r \in Requests, Arrive(r) \/ Proceed(r) \/ RequestFails(r)
          PROVE  UNCHANGED sent
      BY <2>1 DEF Arrive, UpdateRead, SubmitRead, ManualRead, RequestFails, Proceed,
             UpdateWrite, SubmitWrite, SubmitPublish, McqResult, McqStatus, McqPublish, AiMark,
             AiResult, AiReturn, AiPublish, AiFallback, ManualResult, ManualStatus, ManualPublish
    <2>2. ASSUME NEW w \in Workers, WorkerStep(w) \/ WorkerFails(w) \/ WorkerCrash(w)
          PROVE  UNCHANGED sent
      BY <2>2 DEF WorkerStep, WorkerPoll, WorkerMark, WorkerResult, WorkerGraded, WorkerPublish,
             WorkerAck, WorkerNack, WorkerFails, WorkerCrash
    <2>3. ASSUME NEW t \in Ticks, TickStep(t) \/ TickFails(t)
          PROVE  UNCHANGED sent \/ \E x : sent' = Append(sent, x)
      BY <2>3 DEF TickStep, TickClaim, TickHandle, TickAck, TickNack, TickFails
    <2>4. CASE ApiCrash \/ (\E a \in Attempts : Create(a)) \/ UNCHANGED vars
      BY <2>4 DEF ApiCrash, Create, vars
    <2> QED BY <2>1, <2>2, <2>3, <2>4 DEF Next
  <1>2. PICK m \in DOMAIN sent : sent[m] = i
    BY DEF Emitted
  <1>3. m \in DOMAIN sent' /\ sent'[m] = i
    BY <1>1, <1>2 DEF TypeOK
  <1> QED BY <1>3 DEF Emitted

LEMMA InitProcessed == Init => ProcessedInv
  <1> SUFFICES ASSUME Init PROVE ProcessedInv
    OBVIOUS
  <1>1. /\ DOMAIN queue = {} /\ \A w \in Workers : wk[w].pc = "idle"
        /\ \A t \in Ticks : tick[t].pc = "idle"
    BY DEF Init, Idle
  <1>2. \A a \in Attempts : Done(a) = {} /\ Told(a) = {}
    BY <1>1 DEF Done, Told
  <1>3. CountInv
    <2>1. Cardinality({}) <= Cardinality({})
      BY FS_EmptySet
    <2> QED BY <1>2, <2>1 DEF CountInv
  <1> QED BY <1>1, <1>3 DEF ProcessedInv, WorkersInv, TicksInv, EmittedInv

LEMMA TicksNext == TypeOK /\ TicksInv /\ [Next]_vars => TicksInv'
  <1> SUFFICES ASSUME TypeOK, TicksInv, [Next]_vars, NEW t \in Ticks, tick'[t].pc # "idle"
               PROVE  queue'[tick'[t].ev].topic = "grade_completed"
    BY DEF TicksInv
  <1>1. /\ tick'[t].ev \in DOMAIN queue
        /\ queue[tick'[t].ev].topic = "grade_completed"
    <2>1. tick[t].pc # "idle" => /\ tick[t].ev \in DOMAIN queue
                                 /\ queue[tick[t].ev].topic = "grade_completed"
      BY DEF TicksInv, TypeOK, TickTypeOK
    <2>2. ASSUME NEW i, tick'[t] = [pc |-> "handle", ev |-> i] PROVE tick'[t].ev = i
      BY <2>2
    <2>3. \/ tick[t].pc # "idle" /\ tick'[t].ev = tick[t].ev
          \/ \E i \in DOMAIN queue : /\ queue[i].topic = "grade_completed"
                                    /\ tick'[t] = [pc |-> "handle", ev |-> i]
      BY TickSteps
    <2> QED BY <2>1, <2>2, <2>3
  <1> QED BY <1>1, PayloadKept DEF SamePayload

LEMMA EmittedNext ==
  TypeOK /\ WorkersInv /\ EmittedInv /\ [Next]_vars => EmittedInv'
  <1> SUFFICES ASSUME TypeOK, WorkersInv, EmittedInv, [Next]_vars PROVE EmittedInv'
    OBVIOUS
  <1>1. ASSUME NEW t \in Ticks, tick'[t].pc = "ack" 
        PROVE  \E m \in DOMAIN sent' : sent'[m] = tick'[t].ev
    <2>1. /\ tick'[t].ev = tick[t].ev
          /\ tick[t].pc = "ack" \/ sent' = Append(sent, tick[t].ev)
      <3>1. tick'[t].pc # "idle" /\ \A i : tick'[t] # [pc |-> "handle", ev |-> i]
        BY <1>1
      <3> QED BY <1>1, <3>1, TickSteps
    <2>2. CASE tick[t].pc = "ack"
      <3>1. Emitted(tick[t].ev)
        BY <2>2 DEF EmittedInv
      <3>2. Emitted(tick[t].ev) => \E m \in DOMAIN sent' : sent'[m] = tick[t].ev
        BY SentGrows DEF Emitted
      <3> QED BY <2>1, <3>1, <3>2 DEF Emitted
    <2>3. CASE sent' = Append(sent, tick[t].ev)
      <3>1. Len(sent) + 1 \in DOMAIN sent' /\ sent'[Len(sent) + 1] = tick[t].ev
        BY <2>3 DEF TypeOK, TickTypeOK
      <3> QED BY <2>1, <3>1 DEF Emitted
    <2> QED BY <2>1, <2>2, <2>3
  <1>2. ASSUME NEW i \in DOMAIN queue', queue'[i].topic = "grade_completed",
               queue'[i].status = "processed"
        PROVE  Emitted(i)'
    <2>1. i \in DOMAIN queue /\ queue[i].topic = "grade_completed"
      BY <1>2, ProcessedBy, PayloadKept DEF SamePayload
    <2>2. Emitted(i)
      <3>1. CASE queue[i].status = "processed"
        BY <2>1, <3>1 DEF EmittedInv
      <3>2. ASSUME NEW w \in Workers, WorkerAck(w), wk[w].ev = i PROVE FALSE
        BY <2>1, <3>2 DEF WorkerAck, WorkersInv, Submits
      <3>3. ASSUME NEW t \in Ticks, TickAck(t), tick[t].ev = i PROVE Emitted(i)
        BY <3>3 DEF TickAck, EmittedInv
      <3> QED BY <1>2, <3>1, <3>2, <3>3, ProcessedBy
    <2> QED BY <2>2, SentGrows
  <1> QED BY <1>1, <1>2 DEF EmittedInv, Emitted

(* Only a published completion lets a grading event be done.               *)
LEMMA DoneSteps ==
  ASSUME TypeOK, TicksInv, [Next]_vars, NEW a \in Attempts, NEW i \in Done(a)'
  PROVE  i \in Done(a) \/ \E w \in Workers : /\ WorkerPublish(w) /\ wk[w].ev = i
                                             /\ queue[i].attempt = a
  <1>1. /\ i \in DOMAIN queue' /\ queue'[i].topic = "grade_submission" /\ queue'[i].attempt = a
        /\ \/ queue'[i].status = "processed"
           \/ \E w \in Workers : wk'[w].pc = "ack" /\ wk'[w].ev = i
    BY DEF Done
  <1>2. CASE queue'[i].status = "processed"
    <2>1. /\ i \in DOMAIN queue /\ queue[i].topic = "grade_submission" /\ queue[i].attempt = a
      BY <1>1, <1>2, ProcessedBy, PayloadKept DEF SamePayload
    <2>2. ASSUME NEW t \in Ticks, TickAck(t), tick[t].ev = i PROVE FALSE
      BY <2>1, <2>2 DEF TickAck, TicksInv
    <2>3. ASSUME NEW w \in Workers, WorkerAck(w), wk[w].ev = i PROVE wk[w].pc = "ack"
      BY <2>3 DEF WorkerAck
    <2> QED BY <1>1, <1>2, <2>1, <2>2, <2>3, ProcessedBy DEF Done
  <1>3. ASSUME NEW w \in Workers, wk'[w].pc = "ack", wk'[w].ev = i
        PROVE  i \in Done(a) \/ (WorkerPublish(w) /\ wk[w].ev = i /\ queue[i].attempt = a)
    <2>1. wk[w].ev = i /\ (wk[w].pc = "ack" \/ WorkerPublish(w))
      BY <1>3, WorkerAcks
    <2>2. wk[w].pc # "idle"
      BY <2>1 DEF WorkerPublish
    <2>3. i \in DOMAIN queue
      BY <2>1, <2>2 DEF TypeOK, WorkerTypeOK
    <2>4. queue[i].topic = "grade_submission" /\ queue[i].attempt = a
      BY <1>1, <2>3, PayloadKept DEF SamePayload
    <2> QED BY <2>1, <2>3, <2>4 DEF Done
  <1> QED BY <1>1, <1>2, <1>3

LEMMA ToldKept ==
  ASSUME TypeOK, [Next]_vars, NEW a \in Attempts
  PROVE  Told(a) \subseteq Told(a)'
  BY PayloadKept DEF Told, SamePayload

LEMMA FiniteRows == ASSUME NEW q \in Seq(Event) PROVE IsFiniteSet(DOMAIN q)
  <1>1. DOMAIN q = 1 .. Len(q) /\ Len(q) \in Int
    OBVIOUS
  <1> QED BY <1>1, FS_Interval

LEMMA CountNext == TypeOK /\ TypeOK' /\ TicksInv /\ CountInv /\ [Next]_vars => CountInv'
  <1> SUFFICES ASSUME TypeOK, TypeOK', TicksInv, CountInv, [Next]_vars, NEW a \in Attempts
               PROVE  Cardinality(Done(a)') <= Cardinality(Told(a)')
    BY DEF CountInv
  <1> DEFINE D  == Done(a)
             D1 == Done(a)'
             T  == Told(a)
             T1 == Told(a)'
  <1>1. IsFiniteSet(D) /\ IsFiniteSet(D1) /\ IsFiniteSet(T) /\ IsFiniteSet(T1)
    <2>1. IsFiniteSet(DOMAIN queue) /\ IsFiniteSet(DOMAIN queue')
      BY FiniteRows DEF TypeOK, QueueTypeOK
    <2>2. /\ D \subseteq DOMAIN queue /\ D1 \subseteq DOMAIN queue'
          /\ T \subseteq DOMAIN queue /\ T1 \subseteq DOMAIN queue'
      BY DEF Done, Told
    <2> HIDE DEF D, D1, T, T1
    <2> QED BY <2>1, <2>2, FS_Subset
  <1>2. /\ Cardinality(D) \in Nat /\ Cardinality(D1) \in Nat
        /\ Cardinality(T) \in Nat /\ Cardinality(T1) \in Nat
    <2> HIDE DEF D, D1, T, T1
    <2> QED BY <1>1, FS_CardinalityType
  <1>3. Cardinality(D) <= Cardinality(T) /\ T \subseteq T1
    BY ToldKept DEF CountInv
  <1>4. CASE D1 \subseteq D
    <2> HIDE DEF D, D1, T, T1
    <2>1. Cardinality(D1) <= Cardinality(D) /\ Cardinality(T) <= Cardinality(T1)
      BY <1>1, <1>3, <1>4, FS_Subset
    <2>2. Cardinality(D1) <= Cardinality(T1)
      BY <1>2, <1>3, <2>1
    <2> QED BY <2>2 DEF D1, T1
  <1>5. CASE ~(D1 \subseteq D)
    <2>1. PICK w \in Workers : WorkerPublish(w) /\ Job(w).attempt = a
      BY <1>5, DoneSteps DEF Job
    <2> DEFINE i == wk[w].ev
               n == Len(queue) + 1
    <2>2. D1 \subseteq D \cup {i}
      <3>1. \A v \in Workers : WorkerPublish(v) => v = w
        BY <2>1 DEF WorkerPublish, WorkerGoto, TypeOK, WorkerTypeOK
      <3> QED BY <3>1, DoneSteps
    <2>3. T \cup {n} \subseteq T1 /\ n \notin T
      <3>1. PICK e : /\ Publish(e) /\ e.topic = "grade_completed"
                     /\ e.src = "worker" /\ e.attempt = a
        BY <2>1 DEF WorkerPublish, Completion
      <3>2. n \in DOMAIN queue' /\ n \notin DOMAIN queue /\ queue'[n] = e
        BY <3>1 DEF Publish, TypeOK, QueueTypeOK
      <3>3. n \in T1 /\ n \notin T
        BY <3>1, <3>2 DEF Told
      <3> QED BY <1>3, <3>3
    <2> HIDE DEF D, D1, T, T1, i, n
    <2>4. /\ IsFiniteSet(D \cup {i}) /\ Cardinality(D \cup {i}) <= Cardinality(D) + 1
      <3>1. Cardinality(D \cup {i}) = IF i \in D THEN Cardinality(D) ELSE Cardinality(D) + 1
        BY <1>1, FS_AddElement
      <3> QED BY <1>1, <1>2, <3>1, FS_AddElement
    <2>5. Cardinality(T \cup {n}) = Cardinality(T) + 1
      BY <1>1, <2>3, FS_AddElement
    <2>6. Cardinality(D1) <= Cardinality(D \cup {i})
      BY <2>2, <2>4, FS_Subset
    <2>7. Cardinality(T \cup {n}) <= Cardinality(T1)
      BY <1>1, <2>3, FS_Subset
    <2>8. Cardinality(D \cup {i}) \in Nat
      BY <2>4, FS_CardinalityType
    <2>9. Cardinality(D1) <= Cardinality(T1)
      BY <1>2, <1>3, <2>4, <2>5, <2>6, <2>7, <2>8
    <2> QED BY <2>9 DEF D1, T1
  <1> QED BY <1>4, <1>5

LEMMA ProcessedAlways == Spec => []ProcessedInv
  <1>1. TypeOK /\ TypeOK' /\ ProcessedInv /\ [Next]_vars => ProcessedInv'
    BY WorkersNext, TicksNext, EmittedNext, CountNext DEF ProcessedInv
  <1> QED BY <1>1, InitProcessed, TypeCorrect, PTL DEF Spec

(* An event settled as processed has been done, with faults and however    *)
(* many requests are under way: its message was emitted, or its completion *)
(* published.                                                              *)
THEOREM ProcessedMeansDoneAlways == Spec => []ProcessedMeansDone
  <1>1. TypeOK /\ ProcessedInv => ProcessedMeansDone
    <2> SUFFICES ASSUME TypeOK, ProcessedInv PROVE ProcessedMeansDone
      OBVIOUS
    <2> DEFINE Settled(a) == {i \in DOMAIN queue : /\ queue[i].topic = "grade_submission"
                                                   /\ queue[i].status = "processed"
                                                   /\ queue[i].attempt = a}
    <2>1. ASSUME NEW a \in Attempts PROVE Cardinality(Settled(a)) <= Cardinality(Told(a))
      <3> DEFINE D == Done(a)
                 S == Settled(a)
                 T == Told(a)
      <3>1. S \subseteq D /\ D \subseteq DOMAIN queue /\ T \subseteq DOMAIN queue
        BY DEF Done, Told
      <3>2. Cardinality(D) <= Cardinality(T)
        BY DEF ProcessedInv, CountInv
      <3>3. IsFiniteSet(DOMAIN queue)
        BY FiniteRows DEF TypeOK, QueueTypeOK
      <3> HIDE DEF D, S, T
      <3>4. IsFiniteSet(D) /\ IsFiniteSet(T)
        BY <3>1, <3>3, FS_Subset
      <3>5. IsFiniteSet(S) /\ Cardinality(S) <= Cardinality(D)
        BY <3>1, <3>4, FS_Subset
      <3>6. Cardinality(S) \in Nat /\ Cardinality(D) \in Nat /\ Cardinality(T) \in Nat
        BY <3>4, <3>5, FS_CardinalityType
      <3>7. Cardinality(S) <= Cardinality(T)
        BY <3>2, <3>5, <3>6
      <3> QED BY <3>7 DEF S, T
    <2>2. \A i \in DOMAIN queue :
            queue[i].topic = "grade_completed" /\ queue[i].status = "processed"
              => \E m \in DOMAIN sent : sent[m] = i
      BY DEF ProcessedInv, EmittedInv, Emitted
    <2> QED BY <2>1, <2>2 DEF ProcessedMeansDone, Told
  <1> QED BY <1>1, ProcessedAlways, TypeCorrect, PTL
-----------------------------------------------------------------------------
(* The automatic grade of an attempt (Serial).                             *)
NoAuto(a) == AutoResults(a) = {}

Kind(a) == attempt[a].kind

AutoRequests ==
  \A r \in Requests :
    /\ req[r].pc = "submit" /\ req[r].dto = None => req[r].seen = attempt[req[r].on].answer
    /\ req[r].pc = "mcq_result" => /\ Kind(req[r].on) = "mcq" /\ NoAuto(req[r].on)
                                   /\ Given(r) = attempt[req[r].on].answer
    /\ Owes(r) => Kind(req[r].on) # "mcq" /\ NoAuto(req[r].on)

AutoEvents ==
  \A i \in DOMAIN queue : Submits(i) =>
    /\ Kind(queue[i].attempt) # "mcq"
    /\ queue[i].status = "pending" => NoAuto(queue[i].attempt)

AutoWorkers == \A w \in Workers : wk[w].pc \in {"mark", "result"} => NoAuto(Job(w).attempt)

AutoOpen == \A a \in Attempts : ~Closed(a) => NoAuto(a)

AutoInv == AutoRequests /\ AutoEvents /\ AutoWorkers /\ AutoOpen /\ GradeOfAnswer

(* What a step may do to the automatic results of an attempt: nothing, or  *)
(* add one.                                                                *)
SameAuto(a) == \A n \in AutoResults(a)' : n \in AutoResults(a) /\ results'[a][n] = results[a][n]

MoreAuto(a, s) == \A n \in AutoResults(a)' :
  \/ n \in AutoResults(a) /\ results'[a][n] = results[a][n]
  \/ n = Len(results[a]) + 1 /\ results'[a][n].score = s

LEMMA AddedResult ==
  ASSUME ResultsTypeOK, NEW b \in Attempts, NEW s, NEW by, AddResult(b, s, by), NEW a \in Attempts
  PROVE  IF a = b /\ by = "auto" THEN MoreAuto(a, s) ELSE SameAuto(a)
  <1>1. results[b] \in Seq(Result)
    BY DEF ResultsTypeOK
  <1> DEFINE res == [score |-> s, by |-> by]
  <1>2. /\ results'[b] = Append(results[b], res)
        /\ \A c \in Attempts : c # b => results'[c] = results[c]
    BY DEF AddResult, ResultsTypeOK
  <1>3. /\ DOMAIN results[b] = 1 .. Len(results[b])
        /\ DOMAIN results'[b] = 1 .. Len(results[b]) + 1
        /\ \A n \in 1 .. Len(results[b]) : results'[b][n] = results[b][n]
        /\ results'[b][Len(results[b]) + 1] = res
        /\ Len(results[b]) \in Nat
    BY <1>1, <1>2
  <1>4. res.score = s /\ res.by = by
    OBVIOUS
  <1> HIDE DEF res
  <1>5. CASE a # b
    BY <1>2, <1>5 DEF SameAuto, AutoResults
  <1>6. CASE a = b
    BY <1>3, <1>4, <1>6 DEF SameAuto, MoreAuto, AutoResults
  <1> QED BY <1>5, <1>6

LEMMA AutoSteps ==
  ASSUME TypeOK, [Next]_vars, NEW a \in Attempts
  PROVE  \/ SameAuto(a)
         \/ \E r \in Requests : McqResult(r) /\ req[r].on = a /\ MoreAuto(a, McqScore(Given(r)))
         \/ \E w \in Workers : /\ WorkerResult(w) /\ Job(w).attempt = a
                               /\ MoreAuto(a, WorkerScore(Job(w)))
  <1>1. ASSUME UNCHANGED results PROVE SameAuto(a)
    BY <1>1 DEF SameAuto, AutoResults
  <1>2. ASSUME NEW r \in Requests, Arrive(r) \/ RequestFails(r) PROVE UNCHANGED results
    BY <1>2 DEF Arrive, UpdateRead, SubmitRead, ManualRead, RequestFails
  <1>3. ASSUME NEW r \in Requests, Proceed(r)
        PROVE  SameAuto(a) \/ (McqResult(r) /\ req[r].on = a /\ MoreAuto(a, McqScore(Given(r))))
    <2>1. CASE McqResult(r)
      BY <2>1, AddedResult, RequestType DEF McqResult, TypeOK
    <2>2. CASE AiResult(r)
      BY <2>2, AddedResult, RequestType DEF AiResult, TypeOK
    <2>3. CASE ManualResult(r)
      BY <2>3, AddedResult, RequestType DEF ManualResult, TypeOK
    <2>4. CASE UNCHANGED results
      BY <1>1, <2>4
    <2> QED BY <1>3, <2>1, <2>2, <2>3, <2>4
            DEF Proceed, UpdateWrite, SubmitWrite, SubmitPublish, McqStatus, McqPublish,
                AiMark, AiReturn, AiPublish, AiFallback, ManualStatus, ManualPublish
  <1>4. ASSUME NEW w \in Workers, WorkerStep(w) \/ WorkerFails(w) \/ WorkerCrash(w)
        PROVE  \/ SameAuto(a)
               \/ /\ WorkerResult(w) /\ Job(w).attempt = a
                  /\ MoreAuto(a, WorkerScore(Job(w)))
    <2>1. CASE WorkerResult(w)
      <3>1. Job(w).attempt \in Attempts
        BY <2>1, JobType DEF WorkerResult, TypeOK, Event
      <3> QED BY <2>1, <3>1, AddedResult DEF WorkerResult, TypeOK
    <2>2. CASE UNCHANGED results
      BY <1>1, <2>2
    <2> QED BY <1>4, <2>1, <2>2
            DEF WorkerStep, WorkerPoll, WorkerMark, WorkerGraded, WorkerPublish, WorkerAck,
                WorkerNack, WorkerFails, WorkerCrash
  <1>5. ASSUME NEW t \in Ticks, TickStep(t) \/ TickFails(t) PROVE UNCHANGED results
    BY <1>5 DEF TickStep, TickClaim, TickHandle, TickAck, TickNack, TickFails
  <1>6. CASE ApiCrash \/ (\E b \in Attempts : Create(b)) \/ UNCHANGED vars
    BY <1>1, <1>6 DEF ApiCrash, Create, vars
  <1> QED BY <1>1, <1>2, <1>3, <1>4, <1>5, <1>6 DEF Next

(* Where a request that is about to submit, to grade or to publish comes   *)
(* from.                                                                   *)
LEMMA RequestFrom ==
  ASSUME TypeOK, [Next]_vars, NEW r \in Requests
  PROVE  \/ req'[r] = req[r]
         \/ \E a \in Attempts : \E d : SubmitRead(r, a, d)
         \/ SubmitWrite(r)
         \/ /\ req'[r].pc \notin {"submit", "mcq_result"}
            /\ Owes(r)' => Owes(r) /\ req'[r].on = req[r].on
  <1> DEFINE Rest == /\ req'[r].pc \notin {"submit", "mcq_result"}
                     /\ Owes(r)' => Owes(r) /\ req'[r].on = req[r].on
             Goal == \/ req'[r] = req[r]
                     \/ \E a \in Attempts : \E d : SubmitRead(r, a, d)
                     \/ SubmitWrite(r)
                     \/ Rest
  <1>1. ASSUME NEW q \in Requests, Arrive(q) \/ Proceed(q) \/ RequestFails(q), q # r
        PROVE  req'[r] = req[r]
    BY <1>1 DEF Arrive, UpdateRead, SubmitRead, ManualRead, RequestFails, Proceed,
           UpdateWrite, SubmitWrite, SubmitPublish, McqResult, McqStatus, McqPublish, AiMark,
           AiResult, AiReturn, AiPublish, AiFallback, ManualResult, ManualStatus, ManualPublish,
           Goto, TypeOK, ReqTypeOK
  <1>2. CASE Arrive(r)
    <2>1. ASSUME NEW a \in Attempts, NEW d, UpdateRead(r, a, d) PROVE req'[r].pc = "update"
      BY <2>1 DEF UpdateRead, NewRequest, TypeOK, ReqTypeOK
    <2>2. ASSUME NEW a \in Attempts, NEW x, ManualRead(r, a, x) PROVE req'[r].pc = "man_result"
      BY <2>2 DEF ManualRead, NewRequest, TypeOK, ReqTypeOK
    <2>3. ASSUME req'[r].pc \in {"update", "man_result"} PROVE Rest
      BY <2>3 DEF Owes
    <2> QED BY <1>2, <2>1, <2>2, <2>3 DEF Arrive
  <1>3. ASSUME NEW pc, Goto(r, pc), pc \notin {"submit", "mcq_result"},
               \/ pc \notin {"publish", "ai_mark", "ai_result", "ai_return", "ai_publish"}
               \/ Owes(r)
        PROVE  Rest
    <2>1. req'[r].pc = pc /\ req'[r].on = req[r].on
      BY <1>3, GotoKeeps DEF TypeOK
    <2> QED BY <1>3, <2>1 DEF Owes
  <1>4. CASE Proceed(r)
    <2>1. CASE UpdateWrite(r) \/ SubmitPublish(r) \/ AiPublish(r) \/ McqPublish(r) \/ ManualPublish(r)
               \/ AiFallback(r)
      BY <1>3, <2>1 DEF UpdateWrite, SubmitPublish, AiPublish, McqPublish, ManualPublish, AiFallback
    <2>2. CASE McqResult(r) \/ McqStatus(r) \/ ManualResult(r) \/ ManualStatus(r)
      BY <1>3, <2>2 DEF McqResult, McqStatus, ManualResult, ManualStatus
    <2>3. CASE AiMark(r) \/ AiResult(r) \/ AiReturn(r)
      BY <1>3, <2>3 DEF AiMark, AiResult, AiReturn, Owes
    <2> HIDE DEF Rest
    <2> QED BY <1>4, <2>1, <2>2, <2>3 DEF Proceed
  <1>5. CASE RequestFails(r)
    BY <1>3, <1>5 DEF RequestFails
  <1>6. CASE ApiCrash
    <2>1. /\ req[r] \in RequestState
          /\ req'[r] = IF req[r].pc \in {"new", "left"} THEN req[r] ELSE [req[r] EXCEPT !.pc = "done"]
      BY <1>6 DEF ApiCrash, TypeOK, ReqTypeOK
    <2>2. req'[r] = req[r] \/ req'[r].pc = "done"
      BY <2>1 DEF RequestState
    <2> QED BY <2>2 DEF Owes
  <1>7. CASE UNCHANGED req
    BY <1>7
  <1>8. ASSUME NEW w \in Workers, WorkerStep(w) \/ WorkerFails(w) \/ WorkerCrash(w)
        PROVE  UNCHANGED req
    BY <1>8 DEF WorkerStep, WorkerPoll, WorkerMark, WorkerResult, WorkerGraded, WorkerPublish,
           WorkerAck, WorkerNack, WorkerFails, WorkerCrash
  <1>9. ASSUME NEW t \in Ticks, TickStep(t) \/ TickFails(t) PROVE UNCHANGED req
    BY <1>9 DEF TickStep, TickClaim, TickHandle, TickAck, TickNack, TickFails
  <1>10. CASE (\E b \in Attempts : Create(b)) \/ UNCHANGED vars
    BY <1>7, <1>10 DEF Create, vars
  <1> HIDE DEF Rest
  <1> QED BY <1>1, <1>2, <1>4, <1>5, <1>6, <1>7, <1>8, <1>9, <1>10 DEF Next

(* Only a write of update() or of submit() changes an answer.              *)
LEMMA AnswerWrites ==
  ASSUME TypeOK, [Next]_vars, NEW a \in Attempts
  PROVE  \/ SameAnswer(a)
         \/ \E r \in Requests : UpdateWrite(r) \/ SubmitWrite(r)
  <1>1. ASSUME NEW b \in Attempts, NEW s, SetStatus(b, s) PROVE SameAnswer(a)
    BY <1>1 DEF SetStatus, SameAnswer, TypeOK, AttemptTypeOK, AttemptRow
  <1>2. ASSUME NEW b \in Attempts, NEW s, NEW x,
               attempt' = [attempt EXCEPT ![b].status = s, ![b].score = x]
        PROVE  SameAnswer(a)
    BY <1>2 DEF SameAnswer, TypeOK, AttemptTypeOK, AttemptRow
  <1>3. ASSUME UNCHANGED attempt PROVE SameAnswer(a)
    BY <1>3 DEF SameAnswer
  <1>4. ASSUME NEW r \in Requests, Arrive(r) \/ RequestFails(r) PROVE UNCHANGED attempt
    BY <1>4 DEF Arrive, UpdateRead, SubmitRead, ManualRead, RequestFails
  <1>5. ASSUME NEW r \in Requests, Proceed(r) PROVE SameAnswer(a) \/ UpdateWrite(r) \/ SubmitWrite(r)
    <2>1. CASE AiMark(r) \/ AiFallback(r)
      BY <1>1, <2>1, RequestType DEF AiMark, AiFallback, TypeOK
    <2>2. CASE McqStatus(r) \/ ManualStatus(r) \/ AiReturn(r)
      BY <1>2, <2>2, RequestType DEF McqStatus, ManualStatus, AiReturn, TypeOK
    <2>3. CASE UNCHANGED attempt
      BY <1>3, <2>3
    <2> QED BY <1>5, <2>1, <2>2, <2>3
            DEF Proceed, SubmitPublish, McqResult, McqPublish, AiResult, AiPublish,
                ManualResult, ManualPublish
  <1>6. ASSUME NEW w \in Workers, WorkerStep(w) \/ WorkerFails(w) \/ WorkerCrash(w)
        PROVE  SameAnswer(a)
    <2>1. CASE WorkerMark(w) \/ WorkerGraded(w)
      <3>1. Job(w).attempt \in Attempts
        BY <2>1, JobType DEF WorkerMark, WorkerGraded, TypeOK, Event
      <3> QED BY <1>1, <2>1, <3>1 DEF WorkerMark, WorkerGraded
    <2>2. CASE UNCHANGED attempt
      BY <1>3, <2>2
    <2> QED BY <1>6, <2>1, <2>2
            DEF WorkerStep, WorkerPoll, WorkerResult, WorkerPublish, WorkerAck, WorkerNack,
                WorkerFails, WorkerCrash
  <1>7. ASSUME NEW t \in Ticks, TickStep(t) \/ TickFails(t) PROVE UNCHANGED attempt
    BY <1>7 DEF TickStep, TickClaim, TickHandle, TickAck, TickNack, TickFails
  <1>8. CASE \E b \in Attempts : Create(b)
    BY <1>1, <1>8 DEF Create
  <1>9. CASE ApiCrash \/ UNCHANGED vars
    BY <1>3, <1>9 DEF ApiCrash, vars
  <1> QED BY <1>3, <1>4, <1>5, <1>6, <1>7, <1>8, <1>9 DEF Next

(* Who adds an automatic result: the request that submitted an mcq, while  *)
(* it waits for nobody else, or a worker, for the only event of another    *)
(* kind of attempt.                                                        *)
LEMMA McqGrades ==
  ASSUME TypeOK, SerialInv, AutoInv, NEW r \in Requests, McqResult(r)
  PROVE  /\ req[r].on \in Attempts /\ Closed(req[r].on) /\ NoAuto(req[r].on)
         /\ Kind(req[r].on) = "mcq" /\ Given(r) = attempt[req[r].on].answer
         /\ req'[r].pc = "mcq_status" /\ InFlight(r) /\ UNCHANGED attempt
  <1>1. req[r].pc = "mcq_result" /\ Goto(r, "mcq_status") /\ UNCHANGED attempt
    BY DEF McqResult
  <1>2. req'[r].pc = "mcq_status"
    BY <1>1, GotoKeeps DEF TypeOK
  <1> QED BY <1>1, <1>2, RequestOn DEF AutoInv, AutoRequests, SerialInv, RequestsInv, Later,
             InFlight, AiPcs, AiTry

LEMMA WorkerGrades ==
  ASSUME TypeOK, SerialInv, AutoInv, NEW w \in Workers, WorkerResult(w)
  PROVE  /\ Job(w).attempt \in Attempts /\ Closed(Job(w).attempt) /\ NoAuto(Job(w).attempt)
         /\ Kind(Job(w).attempt) # "mcq" /\ Job(w).value = attempt[Job(w).attempt].answer
         /\ wk[w].ev \in DOMAIN queue /\ Submits(wk[w].ev)
         /\ wk'[w].pc = "graded" /\ UNCHANGED <<attempt, queue>>
  <1>1. wk[w].pc = "result" /\ WorkerGoto(w, "graded") /\ UNCHANGED <<attempt, queue>>
    BY DEF WorkerResult
  <1>2. wk[w].ev \in DOMAIN queue /\ Submits(wk[w].ev)
    BY <1>1 DEF SerialInv, WorkersInv, TypeOK, WorkerTypeOK
  <1>3. wk'[w].pc = "graded"
    BY <1>1 DEF WorkerGoto, TypeOK, WorkerTypeOK
  <1>4. Job(w).attempt \in Attempts /\ Closed(Job(w).attempt)
    BY <1>1, JobSubmits
  <1>5. NoAuto(Job(w).attempt) /\ Kind(Job(w).attempt) # "mcq"
    BY <1>1, <1>2 DEF AutoInv, AutoWorkers, AutoEvents, Job
  <1>6. Job(w).value = attempt[Job(w).attempt].answer
    BY <1>2 DEF SerialInv, EventsInv, Job
  <1> QED BY <1>1, <1>2, <1>3, <1>4, <1>5, <1>6

LEMMA StaysWithout ==
  ASSUME NEW a, NoAuto(a), SameAuto(a) PROVE NoAuto(a)'
  BY DEF NoAuto, SameAuto

(* So an attempt without one stays so, unless one of the two graders acts. *)
LEMMA NoAutoKept ==
  ASSUME TypeOK, [Next]_vars, NEW a \in Attempts, NoAuto(a),
         \A r \in Requests : ~(McqResult(r) /\ req[r].on = a),
         \A w \in Workers : ~(WorkerResult(w) /\ Job(w).attempt = a)
  PROVE  NoAuto(a)'
  BY AutoSteps, StaysWithout

(* Two workers do not hold events of one attempt, nor is one pending that  *)
(* another worker holds.                                                   *)
LEMMA WorkerHoldsAlone ==
  ASSUME TypeOK, HandledAlone, NEW w \in Workers, wk[w].pc # "idle"
  PROVE  /\ wk[w].ev \in DOMAIN queue
         /\ queue[wk[w].ev].status = "processing"
         /\ \A v \in Workers : wk[v].pc # "idle" /\ wk[v].ev = wk[w].ev => v = w
  <1>1. \A v \in Workers : wk[v].pc # "idle"
          => wk[v].ev \in DOMAIN queue /\ wk[v].ev # 0 /\ Holds[v] = wk[v].ev
    BY DEF TypeOK, WorkerTypeOK, QueueTypeOK, Holds
  <1>2. RowView[wk[w].ev].status = "processing"
    BY <1>1 DEF HandledAlone, EQ!HeldAlone
  <1>3. \A v \in Workers : Holds[v] = Holds[w] => v = w
    BY <1>1 DEF HandledAlone, EQ!HeldAlone
  <1> QED BY <1>1, <1>2, <1>3 DEF RowView

LEMMA AutoOpenNext ==
  ASSUME TypeOK, SerialInv, AutoInv, [Next]_vars PROVE AutoOpen'
  <1> SUFFICES ASSUME NEW a \in Attempts, ~Closed(a)' PROVE NoAuto(a)'
    BY DEF AutoOpen
  <1>1. ~Closed(a)
    BY AttemptWrites
  <1>2. NoAuto(a)
    BY <1>1 DEF AutoInv, AutoOpen
  <1> QED BY <1>1, <1>2, NoAutoKept, McqGrades, WorkerGrades

LEMMA GradeOfAnswerNext ==
  ASSUME TypeOK, SerialInv, AutoInv, [Next]_vars PROVE GradeOfAnswer'
  <1> SUFFICES ASSUME NEW a \in Attempts
               PROVE  \A m, n \in AutoResults(a)' : m = n /\ results'[a][n].score = AutoScore(a)'
    BY DEF GradeOfAnswer
  <1>1. attempt'[a].kind = attempt[a].kind
    BY AttemptSteps
  <1>2. CASE SameAuto(a)
    <2>1. CASE NoAuto(a)
      BY <1>2, <2>1, StaysWithout DEF NoAuto
    <2>2. CASE ~NoAuto(a)
      <3>1. Closed(a)
        BY <2>2 DEF AutoInv, AutoOpen
      <3>2. AutoScore(a)' = AutoScore(a)
        BY <1>1, <3>1, AttemptWrites DEF SameAnswer, AutoScore, McqScore
      <3> QED BY <1>2, <3>2 DEF SameAuto, AutoInv, GradeOfAnswer
    <2> QED BY <2>1, <2>2
  <1>3. ASSUME NEW s, NoAuto(a), MoreAuto(a, s), s = AutoScore(a), UNCHANGED attempt
        PROVE  \A m, n \in AutoResults(a)' : m = n /\ results'[a][n].score = AutoScore(a)'
    <2>1. AutoScore(a)' = s
      BY <1>3 DEF AutoScore, McqScore
    <2>2. \A n \in AutoResults(a)' : n = Len(results[a]) + 1 /\ results'[a][n].score = s
      BY <1>3 DEF MoreAuto, NoAuto
    <2> QED BY <2>1, <2>2
  <1>4. ASSUME NEW r \in Requests, McqResult(r), req[r].on = a, MoreAuto(a, McqScore(Given(r)))
        PROVE  \A m, n \in AutoResults(a)' : m = n /\ results'[a][n].score = AutoScore(a)'
    <2>1. McqScore(Given(r)) = AutoScore(a)
      BY <1>4, McqGrades DEF AutoScore, Kind
    <2> QED BY <1>3, <1>4, <2>1, McqGrades
  <1>5. ASSUME NEW w \in Workers, WorkerResult(w), Job(w).attempt = a,
               MoreAuto(a, WorkerScore(Job(w)))
        PROVE  \A m, n \in AutoResults(a)' : m = n /\ results'[a][n].score = AutoScore(a)'
    <2>1. WorkerScore(Job(w)) = AutoScore(a)
      BY <1>5, WorkerGrades DEF AutoScore, Kind, WorkerScore
    <2> QED BY <1>3, <1>5, <2>1, WorkerGrades
  <1> QED BY <1>2, <1>4, <1>5, AutoSteps

(* A submission that is written finds no automatic result, and what it     *)
(* will grade or publish is what it stores.                                *)
LEMMA SubmitAuto ==
  ASSUME TypeOK, SerialInv, AutoInv, [Next]_vars, NEW r \in Requests, SubmitWrite(r)
  PROVE  /\ req'[r].on = req[r].on /\ req[r].on \in Attempts /\ NoAuto(req[r].on)'
         /\ req'[r].pc # "submit"
         /\ req'[r].pc = "mcq_result" => /\ Kind(req[r].on)' = "mcq"
                                         /\ Given(r)' = attempt'[req[r].on].answer
         /\ Owes(r)' => Kind(req[r].on)' # "mcq"
  <1>0. PICK a \in Attempts : a = req[r].on
    BY RequestOn DEF SubmitWrite
  <1> DEFINE keep == attempt[a].kind = "mcq" /\ req[r].dto = None
             g == Given(r)
             pc == Route(r)
  <1>1. /\ req[r].pc = "submit" /\ Goto(r, pc) /\ UNCHANGED results
        /\ attempt' = [attempt EXCEPT ![a].status = "submitted", ![a].answer = IF keep THEN @ ELSE g]
    BY <1>0 DEF SubmitWrite
  <1>2. ~Closed(a)
    BY <1>0, <1>1 DEF SerialInv, RequestsInv, Opening, Closed
  <1>3. NoAuto(a)'
    BY <1>1, <1>2 DEF AutoInv, AutoOpen, NoAuto, AutoResults
  <1>4. /\ pc \in {"mcq_result", "left", "ai_mark", "publish"}
        /\ (pc = "mcq_result" <=> Kind(a) = "mcq")
    BY <1>0 DEF Route, Kind
  <1>5. req'[r].pc = pc /\ req'[r].on = a /\ Given(r)' = g
    BY <1>0, <1>1, GotoKeeps DEF TypeOK
  <1>6. Kind(a)' = Kind(a)
    BY AttemptSteps DEF Kind
  <1>7. keep => g = attempt[a].answer
    BY <1>0, <1>1 DEF AutoInv, AutoRequests, Given
  <1>8. attempt'[a].answer = g
    <2>1. attempt'[a].answer = IF keep THEN attempt[a].answer ELSE g
      <3> HIDE DEF keep, g
      <3> QED BY <1>1 DEF TypeOK, AttemptTypeOK, AttemptRow
    <2> QED BY <1>7, <2>1
  <1> HIDE DEF keep, g, pc
  <1>9. Owes(r)' => pc # "mcq_result"
    BY <1>5 DEF Owes
  <1>10. Kind(req[r].on)' = Kind(a)' /\ (NoAuto(req[r].on)' <=> NoAuto(a)')
    BY <1>5 DEF Kind, NoAuto, AutoResults
  <1> QED BY <1>0, <1>3, <1>4, <1>5, <1>6, <1>8, <1>9, <1>10

LEMMA AutoRequestsNext ==
  ASSUME TypeOK, SerialInv, AutoInv, [Next]_vars PROVE AutoRequests'
  <1> SUFFICES ASSUME NEW r \in Requests
               PROVE  /\ req'[r].pc = "submit" /\ req'[r].dto = None
                           => req'[r].seen = attempt'[req'[r].on].answer
                      /\ req'[r].pc = "mcq_result" => /\ Kind(req[r].on)' = "mcq" /\ NoAuto(req[r].on)'
                                                      /\ Given(r)' = attempt'[req'[r].on].answer
                      /\ Owes(r)' => Kind(req[r].on)' # "mcq" /\ NoAuto(req[r].on)'
    BY DEF AutoRequests
  <1>1. ASSUME Owes(r), req'[r].on = req[r].on
        PROVE  Kind(req[r].on)' # "mcq" /\ NoAuto(req[r].on)'
    <2>0. PICK a \in Attempts : a = req[r].on
      BY <1>1, OwesLater, RequestOn DEF Later
    <2>1. Kind(a) # "mcq" /\ NoAuto(a)
      BY <1>1, <2>0 DEF AutoInv, AutoRequests
    <2>2. \A w \in Workers : ~(WorkerResult(w) /\ Job(w).attempt = a)
      BY <1>1, <2>0, WorkerGrades DEF SerialInv, EventsInv, Job
    <2>3. \A q \in Requests : ~(McqResult(q) /\ req[q].on = a)
      BY <2>1, McqGrades
    <2>4. Kind(a)' = Kind(a)
      BY AttemptSteps DEF Kind
    <2>5. NoAuto(a)'
      BY <2>1, <2>2, <2>3, NoAutoKept
    <2> QED BY <1>1, <2>0, <2>1, <2>4, <2>5 DEF Kind, NoAuto, AutoResults
  <1>2. CASE req'[r] = req[r]
    <2>0. Given(r)' = Given(r)
      BY <1>2 DEF Given
    <2>1. ASSUME req[r].pc = "submit", req[r].dto = None PROVE req[r].seen = attempt'[req[r].on].answer
      <3>0. PICK a \in Attempts : a = req[r].on
        BY <2>1, RequestOn
      <3>1. req[r].seen = attempt[a].answer /\ InFlight(r)
        BY <2>1, <3>0 DEF AutoInv, AutoRequests, InFlight, AiPcs, AiTry
      <3>2. ASSUME NEW q \in Requests, UpdateWrite(q) \/ SubmitWrite(q) PROVE FALSE
        <4>1. InFlight(q)
          BY <3>2 DEF UpdateWrite, SubmitWrite, InFlight, AiPcs, AiTry
        <4>2. q = r
          BY <3>1, <4>1 DEF SerialInv, RequestsInv
        <4>3. req'[r].pc # "submit"
          <5>1. CASE UpdateWrite(r)
            BY <2>1, <5>1 DEF UpdateWrite
          <5>2. CASE SubmitWrite(r)
            BY <5>2, SubmitAuto
          <5> QED BY <3>2, <4>2, <5>1, <5>2
        <4> QED BY <1>2, <2>1, <4>3
      <3> QED BY <3>0, <3>1, <3>2, AnswerWrites DEF SameAnswer
    <2>2. ASSUME req[r].pc = "mcq_result"
          PROVE  /\ Kind(req[r].on)' = "mcq" /\ NoAuto(req[r].on)'
                 /\ Given(r)' = attempt'[req[r].on].answer
      <3>0. PICK a \in Attempts : a = req[r].on
        BY <2>2, RequestOn
      <3>1. /\ Kind(a) = "mcq" /\ NoAuto(a) /\ Given(r) = attempt[a].answer
            /\ InFlight(r) /\ Closed(a)
        BY <2>2, <3>0 DEF AutoInv, AutoRequests, InFlight, AiPcs, AiTry, SerialInv,
              RequestsInv, Later
      <3>2. \A q \in Requests : ~McqResult(q)
        <4> SUFFICES ASSUME NEW q \in Requests, McqResult(q) PROVE FALSE
          OBVIOUS
        <4>1. q = r
          BY <3>1, McqGrades DEF SerialInv, RequestsInv
        <4> QED BY <1>2, <2>2, <4>1, McqGrades
      <3>3. \A w \in Workers : ~(WorkerResult(w) /\ Job(w).attempt = a)
        BY <3>1, WorkerGrades
      <3>4. NoAuto(a)'
        BY <3>1, <3>2, <3>3, NoAutoKept
      <3>5. Kind(a)' = Kind(a) /\ SameAnswer(a)
        BY <3>1, AttemptSteps, AttemptWrites DEF Kind
      <3> QED BY <1>2, <2>0, <3>0, <3>1, <3>4, <3>5 DEF SameAnswer, Kind, NoAuto, AutoResults
    <2>3. Owes(r)' => Owes(r)
      BY <1>2 DEF Owes
    <2> QED BY <1>1, <1>2, <2>1, <2>2, <2>3
  <1>3. ASSUME NEW b \in Attempts, NEW d, SubmitRead(r, b, d)
        PROVE  /\ req'[r].pc = "submit" /\ req'[r].seen = attempt'[b].answer /\ req'[r].on = b
               /\ ~Owes(r)'
    <2>1. /\ UNCHANGED attempt
          /\ req'[r] = [NewRequest EXCEPT !.pc = "submit", !.on = b, !.dto = d,
                                          !.seen = attempt[b].answer]
      BY <1>3 DEF SubmitRead, TypeOK, ReqTypeOK
    <2>2. req'[r].pc = "submit" /\ req'[r].seen = attempt[b].answer /\ req'[r].on = b
      BY <2>1 DEF NewRequest
    <2> QED BY <2>1, <2>2 DEF Owes
  <1>4. CASE SubmitWrite(r)
    BY <1>4, SubmitAuto
  <1>5. CASE /\ req'[r].pc \notin {"submit", "mcq_result"}
             /\ Owes(r)' => Owes(r) /\ req'[r].on = req[r].on
    BY <1>1, <1>5
  <1> QED BY <1>2, <1>3, <1>4, <1>5, RequestFrom

(* A new grading event is that of a request that owed it.                  *)
LEMMA NewSubmission ==
  ASSUME TypeOK, [Next]_vars, NEW i \in DOMAIN queue', i \notin DOMAIN queue, Submits(i)'
  PROVE  \E r \in Requests : Owes(r) /\ queue'[i].attempt = req[r].on
  <1>1. ASSUME NEW e, Publish(e) PROVE queue'[i] = e
    BY <1>1 DEF Publish, TypeOK, QueueTypeOK
  <1>2. CASE DOMAIN queue' = DOMAIN queue
    BY <1>2
  <1>3. ASSUME NEW j, NEW s, Mark(j, s) PROVE FALSE
    BY <1>3 DEF Mark, TypeOK, QueueTypeOK
  <1>4. ASSUME NEW r \in Requests, Proceed(r)
        PROVE  Owes(r) /\ queue'[i].attempt = req[r].on
    <2>1. CASE SubmitPublish(r)
      BY <1>1, <2>1 DEF SubmitPublish, Submission, Owes
    <2>2. CASE AiPublish(r)
      BY <1>1, <2>2 DEF AiPublish, Submission, Owes
    <2>3. CASE McqPublish(r) \/ ManualPublish(r)
      BY <1>1, <2>3 DEF McqPublish, ManualPublish, Completion, Submits
    <2>4. CASE UNCHANGED queue
      BY <1>2, <2>4
    <2> QED BY <1>4, <2>1, <2>2, <2>3, <2>4
            DEF Proceed, UpdateWrite, SubmitWrite, McqResult, McqStatus, AiMark, AiResult,
                AiReturn, AiFallback, ManualResult, ManualStatus
  <1>5. ASSUME NEW w \in Workers, WorkerStep(w) \/ WorkerFails(w) \/ WorkerCrash(w)
        PROVE  FALSE
    <2>1. CASE WorkerPublish(w)
      BY <1>1, <2>1 DEF WorkerPublish, Completion, Submits
    <2>2. CASE UNCHANGED queue \/ \E j, s : Mark(j, s)
      BY <1>2, <1>3, <2>2
    <2> QED BY <1>5, <2>1, <2>2
            DEF WorkerStep, WorkerPoll, WorkerMark, WorkerResult, WorkerGraded, WorkerAck,
                WorkerNack, WorkerFails, WorkerCrash
  <1>6. ASSUME NEW t \in Ticks, TickStep(t) \/ TickFails(t)
        PROVE  UNCHANGED queue \/ \E j, s : Mark(j, s)
    BY <1>6 DEF TickStep, TickClaim, TickHandle, TickAck, TickNack, TickFails
  <1>7. ASSUME NEW r \in Requests, Arrive(r) \/ RequestFails(r) PROVE UNCHANGED queue
    BY <1>7 DEF Arrive, UpdateRead, SubmitRead, ManualRead, RequestFails
  <1>8. CASE ApiCrash \/ (\E a \in Attempts : Create(a)) \/ UNCHANGED vars
    BY <1>2, <1>8 DEF ApiCrash, Create, vars
  <1> QED BY <1>2, <1>3, <1>4, <1>5, <1>6, <1>7, <1>8 DEF Next

LEMMA AutoEventsNext ==
  ASSUME TypeOK, HandledAlone, SerialInv, AutoInv, [Next]_vars PROVE AutoEvents'
  <1> SUFFICES ASSUME NEW i \in DOMAIN queue', Submits(i)'
               PROVE  /\ attempt'[queue'[i].attempt].kind # "mcq"
                      /\ queue'[i].status = "pending" => NoAuto(queue[i].attempt)'
    BY DEF AutoEvents, Kind
  <1>1. CASE i \notin DOMAIN queue
    <2>1. PICK r \in Requests : Owes(r) /\ queue'[i].attempt = req[r].on
      BY <1>1, NewSubmission
    <2>2. PICK a \in Attempts : a = req[r].on
      BY <2>1, OwesLater, RequestOn DEF Later
    <2>3. Kind(a) # "mcq" /\ NoAuto(a)
      BY <2>1, <2>2 DEF AutoInv, AutoRequests
    <2>4. Kind(a)' # "mcq"
      BY <2>3, AttemptSteps DEF Kind
    <2>5. \A q \in Requests : ~(McqResult(q) /\ req[q].on = a)
      BY <2>3, McqGrades
    <2>6. \A w \in Workers : ~(WorkerResult(w) /\ Job(w).attempt = a)
      BY <1>1, WorkerGrades
    <2>7. NoAuto(a)'
      BY <2>3, <2>5, <2>6, NoAutoKept
    <2> QED BY <2>1, <2>2, <2>4, <2>7 DEF Kind, NoAuto, AutoResults
  <1>2. CASE i \in DOMAIN queue
    <2>1. PICK a \in Attempts : a = queue[i].attempt
      BY <1>2, EventAt
    <2>2. Submits(i) /\ queue'[i].attempt = a
      BY <1>2, <2>1, PayloadKept DEF SamePayload, Submits
    <2>3. Kind(a) # "mcq" /\ (queue[i].status = "pending" => NoAuto(a))
      BY <1>2, <2>1, <2>2 DEF AutoInv, AutoEvents
    <2>4. Kind(a)' # "mcq"
      BY <2>3, AttemptSteps DEF Kind
    <2>5. ASSUME queue'[i].status = "pending" PROVE NoAuto(a)'
      <3>1. queue[i].status = "pending"
        BY <1>2, <2>5, NotPendingAgain
      <3>2. \A q \in Requests : ~(McqResult(q) /\ req[q].on = a)
        BY <2>3, McqGrades
      <3>3. ASSUME NEW w \in Workers, WorkerResult(w), Job(w).attempt = a PROVE FALSE
        <4>1. wk[w].ev \in DOMAIN queue /\ Submits(wk[w].ev) /\ wk[w].pc # "idle"
          BY <3>3, WorkerGrades DEF WorkerResult
        <4>2. wk[w].ev = i
          BY <1>2, <2>1, <2>2, <3>3, <4>1 DEF SerialInv, EventsInv, SubmittedOnce, Submits, Job
        <4> QED BY <3>1, <4>1, <4>2, WorkerHoldsAlone
      <3> QED BY <2>3, <3>1, <3>2, <3>3, NoAutoKept
    <2> QED BY <2>2, <2>4, <2>5 DEF Kind, NoAuto, AutoResults
  <1> QED BY <1>1, <1>2

(* Where a worker that has not graded yet comes from.                      *)
LEMMA WorkerFrom ==
  ASSUME TypeOK, [Next]_vars, NEW w \in Workers, wk'[w].pc \in {"mark", "result"}
  PROVE  \/ wk[w].pc \in {"mark", "result"} /\ wk'[w].ev = wk[w].ev
         \/ /\ wk'[w].ev \in DOMAIN queue /\ Submits(wk'[w].ev)
            /\ queue[wk'[w].ev].status = "pending"
  <1> DEFINE Goal == \/ wk[w].pc \in {"mark", "result"} /\ wk'[w].ev = wk[w].ev
                     \/ /\ wk'[w].ev \in DOMAIN queue /\ queue[wk'[w].ev].topic = "grade_submission"
                        /\ queue[wk'[w].ev].status = "pending"
  <1> USE DEF TypeOK, WorkerTypeOK
  <1>1. ASSUME wk'[w] = wk[w] PROVE Goal
    BY <1>1
  <1>2. ASSUME NEW v \in Workers, WorkerStep(v) \/ WorkerFails(v) \/ WorkerCrash(v), v # w
        PROVE  wk'[w] = wk[w]
    BY <1>2 DEF WorkerStep, WorkerPoll, WorkerMark, WorkerResult, WorkerGraded, WorkerPublish,
           WorkerAck, WorkerNack, WorkerFails, WorkerCrash, WorkerGoto
  <1>3. ASSUME WorkerPoll(w) PROVE Goal
    <2>1. PICK i \in DOMAIN queue : /\ queue[i].topic = "grade_submission"
                                    /\ queue[i].status = "pending"
                                    /\ wk'[w] = [pc |-> "mark", ev |-> i]
      BY <1>3 DEF WorkerPoll, Oldest
    <2>2. wk'[w].ev = i
      BY <2>1
    <2>3. wk'[w].ev \in DOMAIN queue
      BY <2>2
    <2>4. queue[wk'[w].ev].topic = "grade_submission" /\ queue[wk'[w].ev].status = "pending"
      BY <2>1, <2>2
    <2> QED BY <2>3, <2>4
  <1>4. ASSUME WorkerMark(w) PROVE Goal
    BY <1>4 DEF WorkerMark, WorkerGoto
  <1>5. ASSUME WorkerResult(w) \/ WorkerGraded(w) \/ WorkerPublish(w) PROVE Goal
    BY <1>5 DEF WorkerResult, WorkerGraded, WorkerPublish, WorkerGoto
  <1>6. ASSUME WorkerAck(w) \/ WorkerNack(w) \/ WorkerCrash(w) PROVE Goal
    BY <1>6 DEF WorkerAck, WorkerNack, WorkerCrash, Idle
  <1>7. ASSUME WorkerFails(w) PROVE Goal
    <2>1. wk'[w] = IF wk[w].pc = "nack" THEN Idle ELSE [wk[w] EXCEPT !.pc = "nack"]
      BY <1>7 DEF WorkerFails
    <2>2. wk'[w].pc \in {"idle", "nack"}
      BY <2>1 DEF Idle
    <2> QED BY <2>2
  <1>8. ASSUME NEW r \in Requests, Arrive(r) \/ Proceed(r) \/ RequestFails(r)
        PROVE  UNCHANGED wk
    BY <1>8 DEF Arrive, UpdateRead, SubmitRead, ManualRead, RequestFails, Proceed,
           UpdateWrite, SubmitWrite, SubmitPublish, McqResult, McqStatus, McqPublish, AiMark,
           AiResult, AiReturn, AiPublish, AiFallback, ManualResult, ManualStatus, ManualPublish
  <1>9. ASSUME NEW t \in Ticks, TickStep(t) \/ TickFails(t) PROVE UNCHANGED wk
    BY <1>9 DEF TickStep, TickClaim, TickHandle, TickAck, TickNack, TickFails
  <1>10. ASSUME ApiCrash \/ (\E a \in Attempts : Create(a)) \/ UNCHANGED vars PROVE Goal
    BY <1>1, <1>10 DEF ApiCrash, Create, vars
  <1> HIDE DEF Goal
  <1>11. ASSUME WorkerStep(w) \/ WorkerFails(w) \/ WorkerCrash(w) PROVE Goal
    BY <1>3, <1>4, <1>5, <1>6, <1>7, <1>11 DEF WorkerStep
  <1>12. ASSUME NEW v \in Workers, WorkerStep(v) \/ WorkerFails(v) \/ WorkerCrash(v) PROVE Goal
    BY <1>1, <1>2, <1>11, <1>12
  <1>13. ASSUME UNCHANGED wk PROVE Goal
    BY <1>1, <1>13
  <1>14. Goal
    BY <1>8, <1>9, <1>10, <1>12, <1>13 DEF Next
  <1> QED BY <1>14 DEF Goal, Submits

LEMMA AutoWorkersNext ==
  ASSUME TypeOK, HandledAlone, SerialInv, AutoInv, [Next]_vars PROVE AutoWorkers'
  <1> SUFFICES ASSUME NEW w \in Workers, wk'[w].pc \in {"mark", "result"}
               PROVE  NoAuto(Job(w).attempt)'
    BY DEF AutoWorkers
  <1>1. ASSUME NEW i \in DOMAIN queue, wk'[w].ev = i, Submits(i), NoAuto(queue[i].attempt),
               \A v \in Workers : WorkerResult(v) => wk[v].ev # i
        PROVE  NoAuto(Job(w).attempt)'
    <2>1. PICK a \in Attempts : a = queue[i].attempt
      BY <1>1, EventAt
    <2>2. \A q \in Requests : ~(McqResult(q) /\ req[q].on = a)
      BY <1>1, <2>1, McqGrades DEF AutoInv, AutoEvents
    <2>3. \A v \in Workers : ~(WorkerResult(v) /\ Job(v).attempt = a)
      BY <1>1, <2>1, WorkerGrades DEF SerialInv, EventsInv, SubmittedOnce, Submits, Job
    <2>4. NoAuto(a)'
      BY <1>1, <2>1, <2>2, <2>3, NoAutoKept
    <2>5. queue'[i].attempt = a
      BY <2>1, PayloadKept DEF SamePayload
    <2> QED BY <1>1, <2>4, <2>5 DEF Job, NoAuto, AutoResults
  <1>2. CASE wk[w].pc \in {"mark", "result"} /\ wk'[w].ev = wk[w].ev
    <2>1. wk[w].ev \in DOMAIN queue /\ Submits(wk[w].ev)
      BY <1>2 DEF SerialInv, WorkersInv, TypeOK, WorkerTypeOK
    <2>2. NoAuto(queue[wk[w].ev].attempt)
      BY <1>2 DEF AutoInv, AutoWorkers, Job
    <2>3. ASSUME NEW v \in Workers, WorkerResult(v), wk[v].ev = wk[w].ev PROVE FALSE
      <3>1. v = w
        BY <1>2, <2>3, WorkerHoldsAlone DEF WorkerResult
      <3>2. wk'[v].pc = "graded"
        BY <2>3, WorkerGrades
      <3> QED BY <3>1, <3>2
    <2>4. PICK i \in DOMAIN queue : i = wk[w].ev
      BY <2>1
    <2> QED BY <1>1, <1>2, <2>1, <2>2, <2>3, <2>4
  <1>3. CASE /\ wk'[w].ev \in DOMAIN queue /\ Submits(wk'[w].ev)
             /\ queue[wk'[w].ev].status = "pending"
    <2>1. PICK i \in DOMAIN queue : i = wk'[w].ev
      BY <1>3
    <2>2. Submits(i) /\ queue[i].status = "pending"
      BY <1>3, <2>1 DEF Submits
    <2>3. NoAuto(queue[i].attempt)
      BY <2>2 DEF AutoInv, AutoEvents
    <2>4. \A v \in Workers : WorkerResult(v) => wk[v].ev # i
      BY <2>2, WorkerHoldsAlone DEF WorkerResult
    <2> QED BY <1>1, <2>1, <2>2, <2>3, <2>4
  <1> QED BY <1>2, <1>3, WorkerFrom

LEMMA InitAuto == Init => AutoInv
  BY DEF Init, AutoInv, AutoRequests, AutoEvents, AutoWorkers, AutoOpen, GradeOfAnswer, NoAuto,
         AutoResults, Owes, NewRequest, Idle

LEMMA NextAuto == TypeOK /\ HandledAlone /\ SerialInv /\ AutoInv /\ [Next]_vars => AutoInv'
  BY AutoRequestsNext, AutoEventsNext, AutoWorkersNext, AutoOpenNext, GradeOfAnswerNext DEF AutoInv

(* When clients wait for each response, an attempt gets at most one        *)
(* automatic grade, and it is the grade of the stored answer, for any      *)
(* number of workers and whatever crashes.                                 *)
THEOREM GradeOfAnswerAlways == Serial /\ Spec => []GradeOfAnswer
  <1> SUFFICES ASSUME Serial PROVE Spec => []GradeOfAnswer
    OBVIOUS
  <1>1. TypeOK /\ HandledAlone /\ SerialInv /\ AutoInv /\ [Next]_vars => AutoInv'
    BY NextAuto
  <1>2. AutoInv => GradeOfAnswer
    BY DEF AutoInv
  <1>3. Spec => []SerialInv
    BY SerialAlways
  <1> QED BY <1>1, <1>2, <1>3, InitAuto, TypeCorrect, HandledAloneAlways, PTL DEF Spec
-----------------------------------------------------------------------------
(* No event blocks another: the claim query always finds one of a topic    *)
(* that has a pending event.                                               *)
LEMMA LeastIndex ==
  ASSUME NEW S \in SUBSET Nat, S # {}
  PROVE  \E i \in S : \A j \in S : i <= j
  <1>1. IsWellFoundedOn(OpToRel(<, Nat), Nat)
    BY NatLessThanWellFounded
  <1>2. PICK i \in S : \A j \in S : ~(<<j, i>> \in OpToRel(<, Nat))
    BY <1>1, WFMin
  <1>3. \A j \in S : ~(j < i)
    BY <1>2 DEF OpToRel
  <1>4. \A j \in S : i <= j
    BY <1>3
  <1> QED BY <1>4

LEMMA OldestPending ==
  ASSUME TypeOK, NEW n \in DOMAIN queue, Pending(n)
  PROVE  \E i \in 1 .. n : Oldest(queue[n].topic, i)
  <1> DEFINE topic == queue[n].topic
             S == {i \in 1 .. n : queue[i].topic = topic /\ queue[i].status = "pending"}
  <1>1. n \in Nat \ {0} /\ DOMAIN queue = 1 .. Len(queue) /\ Len(queue) \in Nat
    BY DEF TypeOK, QueueTypeOK
  <1>2. S \in SUBSET Nat /\ n \in S
    BY <1>1 DEF Pending
  <1>3. PICK i \in S : \A j \in S : i <= j
    BY <1>2, LeastIndex
  <1>4. ASSUME NEW j \in 1 .. i - 1 PROVE queue[j].status # "pending" \/ queue[j].topic # topic
    <2>1. j \in 1 .. n /\ ~(i <= j)
      BY <1>1, <1>3
    <2> QED BY <1>3, <2>1
  <1>5. Oldest(topic, i)
    BY <1>3, <1>4 DEF Oldest
  <1> QED BY <1>3, <1>5

(* Whatever was lost before it, a pending event can be claimed or an older *)
(* one of its topic can.                                                   *)
THEOREM NeverBlockedAlways == Spec => []NeverBlocked
  <1>1. TypeOK => NeverBlocked
    BY OldestPending DEF NeverBlocked
  <1> QED BY <1>1, TypeCorrect, PTL
-----------------------------------------------------------------------------
(* While no call fails and nothing crashes (Faults = {}): nothing is       *)
(* forgotten.  A step only ends by failing with a fault.                   *)
Waits(i, a) == i \in DOMAIN queue /\ Submits(i) /\ queue[i].status = "pending" /\ queue[i].attempt = a

Works(w, a) == wk[w].pc \in {"mark", "result", "graded"} /\ Job(w).attempt = a

Acts(r, a) == /\ req[r].on = a
              /\ req[r].pc \in AiTry \cup {"publish", "ai_mark", "mcq_result", "mcq_status"}

Open(a) == attempt[a].status \in {"submitted", "grading"}

(* A pending event stays so unless a consumer of its topic claims it.      *)
LEMMA PendingStays ==
  ASSUME TypeOK, HandledAlone, [Next]_vars, NEW i \in DOMAIN queue, queue[i].status = "pending"
  PROVE  \/ i \in DOMAIN queue' /\ queue'[i] = queue[i]
         \/ \E w \in Workers : WorkerPoll(w) /\ wk'[w] = [pc |-> "mark", ev |-> i] /\ Submits(i)
         \/ \E t \in Ticks : TickClaim(t) /\ tick'[t] = [pc |-> "handle", ev |-> i] /\ ~Submits(i)
  <1> DEFINE Stays == i \in DOMAIN queue' /\ queue'[i] = queue[i]
             Goal == \/ Stays
                     \/ \E w \in Workers : /\ WorkerPoll(w) /\ Submits(i)
                                           /\ wk'[w] = [pc |-> "mark", ev |-> i]
                     \/ \E t \in Ticks : /\ TickClaim(t) /\ ~Submits(i)
                                         /\ tick'[t] = [pc |-> "handle", ev |-> i]
  <1> USE DEF TypeOK, QueueTypeOK
  <1>1. ASSUME UNCHANGED queue PROVE Stays
    BY <1>1
  <1>2. ASSUME NEW e, Publish(e) PROVE Stays
    BY <1>2 DEF Publish
  <1>3. ASSUME NEW j \in DOMAIN queue, NEW s, Mark(j, s), j # i PROVE Stays
    BY <1>3 DEF Mark
  <1>4. ASSUME NEW r \in Requests, Arrive(r) \/ Proceed(r) \/ RequestFails(r) PROVE Stays
    <2>1. UNCHANGED queue \/ \E e : Publish(e)
      BY <1>4 DEF Arrive, UpdateRead, SubmitRead, ManualRead, Proceed, UpdateWrite, SubmitWrite,
           SubmitPublish, McqResult, McqStatus, McqPublish, AiMark, AiResult, AiReturn,
           AiPublish, AiFallback, ManualResult, ManualStatus, ManualPublish, RequestFails
    <2> HIDE DEF Stays
    <2> QED BY <2>1, <1>1, <1>2
  <1>5. ASSUME NEW w \in Workers, WorkerPoll(w) PROVE Goal
    <2>1. PICK j \in DOMAIN queue : /\ queue[j].topic = "grade_submission"
                                    /\ Mark(j, "processing")
                                    /\ wk' = [wk EXCEPT ![w] = [pc |-> "mark", ev |-> j]]
      BY <1>5 DEF WorkerPoll, Oldest
    <2>2. CASE j # i
      BY <1>3, <2>1, <2>2
    <2>3. CASE j = i
      <3>1. wk'[w] = [pc |-> "mark", ev |-> i] /\ Submits(i)
        BY <2>1, <2>3 DEF WorkerTypeOK, Submits
      <3> QED BY <1>5, <3>1
    <2> QED BY <2>2, <2>3
  <1>6. ASSUME NEW w \in Workers, WorkerAck(w) \/ WorkerNack(w) PROVE Stays
    <2>1. /\ wk[w].pc # "idle"
          /\ Mark(wk[w].ev, "processed") \/ Mark(wk[w].ev, "failed")
      BY <1>6 DEF WorkerAck, WorkerNack
    <2>2. wk[w].ev \in DOMAIN queue /\ wk[w].ev # i
      BY <2>1, WorkerHoldsAlone
    <2> QED BY <1>3, <2>1, <2>2
  <1>7. ASSUME NEW w \in Workers, WorkerStep(w) \/ WorkerFails(w) \/ WorkerCrash(w) PROVE Goal
    <2>1. CASE WorkerMark(w) \/ WorkerResult(w) \/ WorkerGraded(w) \/ WorkerFails(w) \/ WorkerCrash(w)
      BY <1>1, <2>1 DEF WorkerMark, WorkerResult, WorkerGraded, WorkerFails, WorkerCrash
    <2>2. CASE WorkerPublish(w)
      BY <1>2, <2>2 DEF WorkerPublish
    <2> HIDE DEF Stays
    <2>3. Stays => Goal
      OBVIOUS
    <2> HIDE DEF Goal
    <2> QED BY <1>5, <1>6, <1>7, <2>1, <2>2, <2>3 DEF WorkerStep
  <1>8. ASSUME NEW t \in Ticks, TickClaim(t) PROVE Goal
    <2>1. PICK j \in DOMAIN queue : /\ queue[j].topic = "grade_completed"
                                    /\ Mark(j, "processing")
                                    /\ tick' = [tick EXCEPT ![t] = [pc |-> "handle", ev |-> j]]
      BY <1>8 DEF TickClaim, Oldest
    <2>2. CASE j # i
      BY <1>3, <2>1, <2>2
    <2>3. CASE j = i
      <3>1. tick'[t] = [pc |-> "handle", ev |-> i] /\ ~Submits(i)
        BY <2>1, <2>3 DEF TickTypeOK, Submits
      <3> QED BY <1>8, <3>1
    <2> QED BY <2>2, <2>3
  <1>9. ASSUME NEW t \in Ticks, TickAck(t) \/ TickNack(t) PROVE Stays
    <2>1. /\ tick[t].pc # "idle"
          /\ Mark(tick[t].ev, "processed") \/ Mark(tick[t].ev, "failed")
      BY <1>9 DEF TickAck, TickNack
    <2>2. tick[t].ev \in DOMAIN queue /\ tick[t].ev # i
      BY <2>1, HandlesAlone
    <2> QED BY <1>3, <2>1, <2>2
  <1>10. ASSUME NEW t \in Ticks, TickStep(t) \/ TickFails(t) PROVE Goal
    <2>1. CASE TickHandle(t) \/ TickFails(t)
      BY <1>1, <2>1 DEF TickHandle, TickFails
    <2> HIDE DEF Stays
    <2>2. Stays => Goal
      OBVIOUS
    <2> HIDE DEF Goal
    <2> QED BY <1>8, <1>9, <1>10, <2>1, <2>2 DEF TickStep
  <1>11. ASSUME ApiCrash \/ (\E b \in Attempts : Create(b)) \/ UNCHANGED vars PROVE Stays
    BY <1>1, <1>11 DEF ApiCrash, Create, vars
  <1>12. Stays => Goal
    OBVIOUS
  <1> HIDE DEF Stays, Goal
  <1>13. Goal
    BY <1>4, <1>7, <1>10, <1>11, <1>12 DEF Next
  <1> QED BY <1>13 DEF Goal, Stays

(* A request that will see to an attempt goes on to do so, hands it over   *)
(* as an event, or grades it.                                              *)
LEMMA ActsOn ==
  ASSUME Faults = {}, TypeOK, [Next]_vars, NEW r \in Requests, NEW a \in Attempts, Acts(r, a)
  PROVE  \/ Acts(r, a)'
         \/ \E i \in DOMAIN queue' : Waits(i, a)'
         \/ attempt'[a].status = "graded"
  <1> DEFINE Goal == \/ Acts(r, a)'
                     \/ \E i \in DOMAIN queue' : Waits(i, a)'
                     \/ attempt'[a].status = "graded"
  <1>1. ASSUME req'[r] = req[r] PROVE Goal
    BY <1>1 DEF Acts
  <1>2. ASSUME NEW q \in Requests, q # r, Arrive(q) \/ Proceed(q) PROVE req'[r] = req[r]
    BY <1>2 DEF Arrive, UpdateRead, SubmitRead, ManualRead, Proceed,
           UpdateWrite, SubmitWrite, SubmitPublish, McqResult, McqStatus, McqPublish, AiMark,
           AiResult, AiReturn, AiPublish, AiFallback, ManualResult, ManualStatus, ManualPublish,
           Goto, TypeOK, ReqTypeOK
  <1>3. ASSUME NEW pc, Goto(r, pc), pc \in {"ai_result", "ai_return", "ai_publish", "mcq_status"}
        PROVE  Goal
    <2>1. req'[r].pc = pc /\ req'[r].on = req[r].on
      BY <1>3, GotoKeeps DEF TypeOK
    <2> QED BY <1>3, <2>1 DEF Acts, AiTry
  <1>4. ASSUME Proceed(r) PROVE Goal
    <2>1. CASE AiMark(r) \/ AiResult(r) \/ AiReturn(r) \/ McqResult(r)
      BY <1>3, <2>1 DEF AiMark, AiResult, AiReturn, McqResult
    <2>2. CASE SubmitPublish(r) \/ AiPublish(r)
      <3>1. PICK student : Publish(Submission(a, student, Given(r)))
        BY <2>2 DEF SubmitPublish, AiPublish, Acts
      <3>2. PICK i \in Nat : i = Len(queue) + 1
        BY DEF TypeOK, QueueTypeOK
      <3>3. i \in DOMAIN queue' /\ queue'[i] = Submission(a, student, Given(r))
        BY <3>1, <3>2 DEF Publish, TypeOK, QueueTypeOK
      <3>4. Waits(i, a)'
        BY <3>3 DEF Submission, Waits, Submits
      <3> QED BY <3>3, <3>4
    <2>3. CASE McqStatus(r)
      BY <2>3 DEF McqStatus, Acts, TypeOK, AttemptTypeOK, AttemptRow
    <2> HIDE DEF Goal
    <2>4. req[r].pc \in {"ai_result", "ai_return", "ai_publish", "publish", "ai_mark", "mcq_result",
                         "mcq_status"}
      BY DEF Acts, AiTry
    <2> QED BY <1>4, <2>1, <2>2, <2>3, <2>4
            DEF Proceed, UpdateWrite, SubmitWrite, McqPublish, AiFallback, ManualResult,
                ManualStatus, ManualPublish
  <1>5. ASSUME Arrive(r) PROVE FALSE
    BY <1>5 DEF Arrive, UpdateRead, SubmitRead, ManualRead, MayStart, Acts, AiTry
  <1>6. ASSUME RequestFails(r) \/ ApiCrash PROVE FALSE
    BY <1>6 DEF RequestFails, ApiCrash
  <1>7. ASSUME NEW w \in Workers, WorkerStep(w) \/ WorkerFails(w) \/ WorkerCrash(w)
        PROVE  UNCHANGED req
    BY <1>7 DEF WorkerStep, WorkerPoll, WorkerMark, WorkerResult, WorkerGraded, WorkerPublish,
           WorkerAck, WorkerNack, WorkerFails, WorkerCrash
  <1>8. ASSUME NEW t \in Ticks, TickStep(t) \/ TickFails(t) PROVE UNCHANGED req
    BY <1>8 DEF TickStep, TickClaim, TickHandle, TickAck, TickNack, TickFails
  <1>9. ASSUME (\E b \in Attempts : Create(b)) \/ UNCHANGED vars PROVE UNCHANGED req
    BY <1>9 DEF Create, vars
  <1>10. ASSUME NEW q \in Requests, RequestFails(q) PROVE FALSE
    BY <1>10 DEF RequestFails
  <1> HIDE DEF Goal
  <1>11. Goal
    BY <1>1, <1>2, <1>4, <1>5, <1>6, <1>7, <1>8, <1>9, <1>10 DEF Next
  <1> QED BY <1>11 DEF Goal

(* A worker that holds the event of an attempt goes on to grade it.        *)
LEMMA WorksOn ==
  ASSUME Faults = {}, TypeOK, [Next]_vars, NEW w \in Workers, NEW a \in Attempts, Works(w, a)
  PROVE  Works(w, a)' \/ attempt'[a].status = "graded"
  <1> DEFINE Goal == Works(w, a)' \/ attempt'[a].status = "graded"
  <1>1. wk[w].ev \in DOMAIN queue /\ queue[wk[w].ev].attempt = a
    BY DEF Works, TypeOK, WorkerTypeOK, Job
  <1>2. ASSUME wk'[w].ev = wk[w].ev, wk'[w].pc \in {"mark", "result", "graded"} PROVE Goal
    BY <1>1, <1>2, PayloadKept DEF SamePayload, Works, Job
  <1>3. ASSUME wk'[w] = wk[w] PROVE Goal
    BY <1>2, <1>3 DEF Works
  <1>4. ASSUME NEW v \in Workers, WorkerStep(v), v # w
        PROVE  wk'[w] = wk[w]
    BY <1>4 DEF WorkerStep, WorkerPoll, WorkerMark, WorkerResult, WorkerGraded, WorkerPublish,
           WorkerAck, WorkerNack, WorkerGoto, TypeOK, WorkerTypeOK
  <1>5. ASSUME WorkerMark(w) \/ WorkerResult(w) PROVE Goal
    BY <1>2, <1>5 DEF WorkerMark, WorkerResult, WorkerGoto, TypeOK, WorkerTypeOK
  <1>6. ASSUME WorkerGraded(w) PROVE Goal
    BY <1>6 DEF WorkerGraded, SetStatus, Works, TypeOK, AttemptTypeOK, AttemptRow
  <1>7. ASSUME WorkerPoll(w) \/ WorkerPublish(w) \/ WorkerAck(w) \/ WorkerNack(w) PROVE FALSE
    BY <1>7 DEF WorkerPoll, WorkerPublish, WorkerAck, WorkerNack, Works
  <1>8. ASSUME NEW v \in Workers, WorkerFails(v) \/ WorkerCrash(v) PROVE FALSE
    BY <1>8 DEF WorkerFails, WorkerCrash
  <1>9. ASSUME NEW r \in Requests, Arrive(r) \/ Proceed(r) \/ RequestFails(r)
        PROVE  UNCHANGED wk
    BY <1>9 DEF Arrive, UpdateRead, SubmitRead, ManualRead, RequestFails, Proceed,
           UpdateWrite, SubmitWrite, SubmitPublish, McqResult, McqStatus, McqPublish, AiMark,
           AiResult, AiReturn, AiPublish, AiFallback, ManualResult, ManualStatus, ManualPublish
  <1>10. ASSUME NEW t \in Ticks, TickStep(t) \/ TickFails(t) PROVE UNCHANGED wk
    BY <1>10 DEF TickStep, TickClaim, TickHandle, TickAck, TickNack, TickFails
  <1>11. ASSUME ApiCrash \/ (\E b \in Attempts : Create(b)) \/ UNCHANGED vars PROVE UNCHANGED wk
    BY <1>11 DEF ApiCrash, Create, vars
  <1> HIDE DEF Goal
  <1>12. ASSUME NEW v \in Workers, WorkerStep(v) PROVE Goal
    BY <1>3, <1>4, <1>5, <1>6, <1>7, <1>12 DEF WorkerStep
  <1>13. Goal
    BY <1>3, <1>8, <1>9, <1>10, <1>11, <1>12 DEF Next
  <1> QED BY <1>13 DEF Goal

(* Who opens an attempt sees to it.                                        *)
NoFallback == \A r \in Requests : req[r].pc # "ai_fallback"

Seen(a) == \/ LeftToTeacher(a)
           \/ \E r \in Requests : Acts(r, a)
           \/ \E i \in DOMAIN queue : Waits(i, a)
           \/ \E w \in Workers : Works(w, a)

LEMMA SeenIs == ASSUME NEW a PROVE Seen(a) <=> Attending(a) \/ LeftToTeacher(a)
  BY DEF Seen, Attending, Acts, Waits, Works, Submits

LEMMA Opens ==
  ASSUME Faults = {}, TypeOK, NoFallback, [Next]_vars, NEW a \in Attempts, Open(a)', ~Open(a)
  PROVE  Seen(a)'
  <1>1. ASSUME UNCHANGED attempt PROVE FALSE
    BY <1>1 DEF Open
  <1>2. ASSUME NEW b \in Attempts, Create(b) PROVE FALSE
    BY <1>2 DEF Create, SetStatus, Open, TypeOK, AttemptTypeOK, AttemptRow
  <1>3. ASSUME NEW r \in Requests, NEW pc, Goto(r, pc), req[r].on = a,
               pc \in AiTry \cup {"publish", "ai_mark", "mcq_result", "mcq_status", "left"}
        PROVE  Seen(a)'
    <2>1. req'[r].pc = pc /\ req'[r].on = a
      BY <1>3, GotoKeeps DEF TypeOK
    <2> QED BY <1>3, <2>1 DEF Seen, LeftToTeacher, Acts
  <1>4. ASSUME NEW b \in Attempts, b # a, NEW s, NEW x,
               \/ SetStatus(b, s)
               \/ attempt' = [attempt EXCEPT ![b].status = s, ![b].score = x]
               \/ attempt' = [attempt EXCEPT ![b].status = s, ![b].answer = x]
               \/ attempt' = [attempt EXCEPT ![b].answer = x]
        PROVE  FALSE
    BY <1>4 DEF SetStatus, Open, TypeOK, AttemptTypeOK
  <1>5. ASSUME NEW r \in Requests, SubmitWrite(r) PROVE Seen(a)'
    <2>1. req[r].on \in Attempts /\ Route(r) \in {"publish", "ai_mark", "mcq_result", "left"}
      BY <1>5, RequestOn DEF SubmitWrite, Route
    <2>2. Goto(r, Route(r))
      BY <1>5 DEF SubmitWrite
    <2>3. req[r].on = a
      BY <1>4, <1>5, <2>1 DEF SubmitWrite
    <2> QED BY <1>3, <2>1, <2>2, <2>3
  <1>6. ASSUME NEW r \in Requests, AiMark(r) \/ AiReturn(r) PROVE Seen(a)'
    <2>1. req[r].on \in Attempts
      BY <1>6, RequestOn DEF AiMark, AiReturn
    <2>2. req[r].on = a
      BY <1>4, <1>6, <2>1 DEF AiMark, AiReturn
    <2> QED BY <1>3, <1>6, <2>2 DEF AiMark, AiReturn, AiTry
  <1>7. ASSUME NEW r \in Requests, McqStatus(r) \/ ManualStatus(r) PROVE FALSE
    <2>1. req[r].on \in Attempts
      BY <1>7, RequestOn DEF McqStatus, ManualStatus
    <2>2. req[r].on = a
      BY <1>4, <1>7, <2>1 DEF McqStatus, ManualStatus
    <2> QED BY <1>7, <2>2 DEF McqStatus, ManualStatus, Open, TypeOK, AttemptTypeOK, AttemptRow
  <1>8. ASSUME NEW r \in Requests, UpdateWrite(r) PROVE FALSE
    <2>1. req[r].on \in Attempts
      BY <1>8, RequestOn DEF UpdateWrite
    <2> QED BY <1>8, <2>1 DEF UpdateWrite, Open, TypeOK, AttemptTypeOK, AttemptRow
  <1>9. ASSUME NEW r \in Requests, Arrive(r) \/ Proceed(r) \/ RequestFails(r) PROVE Seen(a)'
    <2>1. CASE UNCHANGED attempt
      BY <1>1, <2>1
    <2> QED BY <1>5, <1>6, <1>7, <1>8, <1>9, <2>1
            DEF NoFallback, Arrive, UpdateRead, SubmitRead, ManualRead, RequestFails, Proceed,
                SubmitPublish, McqResult, McqPublish, AiResult, AiPublish, AiFallback,
                ManualResult, ManualPublish
  <1>10. ASSUME NEW w \in Workers, WorkerMark(w) PROVE Seen(a)'
    <2>1. Job(w).attempt \in Attempts /\ wk[w].ev \in DOMAIN queue
      BY <1>10, JobType DEF WorkerMark, TypeOK, Event
    <2>2. Job(w).attempt = a
      BY <1>4, <1>10, <2>1 DEF WorkerMark
    <2>3. wk'[w].pc = "result" /\ wk'[w].ev = wk[w].ev /\ UNCHANGED queue
      BY <1>10 DEF WorkerMark, WorkerGoto, TypeOK, WorkerTypeOK
    <2> QED BY <2>2, <2>3 DEF Seen, Works, Job
  <1>11. ASSUME NEW w \in Workers, WorkerGraded(w) PROVE FALSE
    <2>1. Job(w).attempt \in Attempts
      BY <1>11, JobType DEF WorkerGraded, TypeOK, Event
    <2>2. Job(w).attempt = a
      BY <1>4, <1>11, <2>1 DEF WorkerGraded
    <2> QED BY <1>11, <2>2 DEF WorkerGraded, SetStatus, Open, TypeOK, AttemptTypeOK, AttemptRow
  <1>12. ASSUME NEW w \in Workers, WorkerStep(w) \/ WorkerFails(w) \/ WorkerCrash(w) PROVE Seen(a)'
    <2>1. CASE UNCHANGED attempt
      BY <1>1, <2>1
    <2> QED BY <1>10, <1>11, <1>12, <2>1
            DEF WorkerStep, WorkerPoll, WorkerResult, WorkerPublish, WorkerAck, WorkerNack,
                WorkerFails, WorkerCrash
  <1>13. ASSUME NEW t \in Ticks, TickStep(t) \/ TickFails(t) PROVE UNCHANGED attempt
    BY <1>13 DEF TickStep, TickClaim, TickHandle, TickAck, TickNack, TickFails
  <1>14. ASSUME ApiCrash \/ UNCHANGED vars PROVE UNCHANGED attempt
    BY <1>14 DEF ApiCrash, vars
  <1> QED BY <1>1, <1>2, <1>9, <1>12, <1>13, <1>14 DEF Next

LEMMA SeenOn ==
  ASSUME Faults = {}, TypeOK, HandledAlone, [Next]_vars, NEW a \in Attempts, Seen(a)
  PROVE  Seen(a)' \/ attempt'[a].status = "graded"
  <1>1. CASE LeftToTeacher(a)
    <2>1. PICK r \in Requests : req[r].on = a /\ req[r].pc = "left"
      BY <1>1 DEF LeftToTeacher
    <2>2. req'[r] = req[r]
      <3>1. ASSUME NEW q \in Requests, Arrive(q) \/ Proceed(q) \/ RequestFails(q)
            PROVE  req'[r] = req[r]
        BY <2>1, <3>1 DEF Arrive, UpdateRead, SubmitRead, ManualRead, MayStart, RequestFails, Proceed,
           UpdateWrite, SubmitWrite, SubmitPublish, McqResult, McqStatus, McqPublish, AiMark,
           AiResult, AiReturn, AiPublish, AiFallback, ManualResult, ManualStatus, ManualPublish,
           Goto, TypeOK, ReqTypeOK
      <3>2. ASSUME NEW w \in Workers, WorkerStep(w) \/ WorkerFails(w) \/ WorkerCrash(w)
            PROVE  UNCHANGED req
        BY <3>2 DEF WorkerStep, WorkerPoll, WorkerMark, WorkerResult, WorkerGraded, WorkerPublish,
               WorkerAck, WorkerNack, WorkerFails, WorkerCrash
      <3>3. ASSUME NEW t \in Ticks, TickStep(t) \/ TickFails(t) PROVE UNCHANGED req
        BY <3>3 DEF TickStep, TickClaim, TickHandle, TickAck, TickNack, TickFails
      <3>4. CASE ApiCrash \/ (\E b \in Attempts : Create(b)) \/ UNCHANGED vars
        BY <3>4 DEF ApiCrash, Create, vars
      <3> QED BY <3>1, <3>2, <3>3, <3>4 DEF Next
    <2> QED BY <2>1, <2>2 DEF Seen, LeftToTeacher
  <1>2. CASE \E r \in Requests : Acts(r, a)
    BY <1>2, ActsOn DEF Seen
  <1>3. CASE \E w \in Workers : Works(w, a)
    BY <1>3, WorksOn DEF Seen
  <1>4. ASSUME NEW i \in DOMAIN queue, Waits(i, a) PROVE Seen(a)'
    <2>1. CASE i \in DOMAIN queue' /\ queue'[i] = queue[i]
      BY <1>4, <2>1 DEF Waits, Submits, Seen
    <2>2. ASSUME NEW w \in Workers, wk'[w] = [pc |-> "mark", ev |-> i] PROVE Seen(a)'
      <3>1. wk'[w].pc = "mark" /\ wk'[w].ev = i
        BY <2>2
      <3>2. queue'[i].attempt = a
        BY <1>4, PayloadKept DEF SamePayload, Waits
      <3> QED BY <3>1, <3>2 DEF Seen, Works, Job
    <2> QED BY <1>4, <2>1, <2>2, PendingStays DEF Waits
  <1> QED BY <1>1, <1>2, <1>3, <1>4 DEF Seen

LEMMA NoFallbackNext ==
  ASSUME Faults = {}, TypeOK, NoFallback, [Next]_vars PROVE NoFallback'
  <1> SUFFICES ASSUME NEW r \in Requests PROVE req'[r].pc # "ai_fallback"
    BY DEF NoFallback
  <1>1. CASE UNCHANGED req
    BY <1>1 DEF NoFallback
  <1>2. ASSUME NEW q \in Requests, Arrive(q) PROVE req'[r].pc # "ai_fallback"
    BY <1>2 DEF Arrive, UpdateRead, SubmitRead, ManualRead, NewRequest, NoFallback, TypeOK, ReqTypeOK
  <1>3. ASSUME NEW q \in Requests, NEW pc, Goto(q, pc), pc # "ai_fallback"
        PROVE  req'[r].pc # "ai_fallback"
    BY <1>3, GotoKeeps DEF NoFallback, TypeOK
  <1>4. ASSUME NEW q \in Requests, Proceed(q) PROVE req'[r].pc # "ai_fallback"
    <2>1. CASE SubmitWrite(q)
      <3>1. Route(q) # "ai_fallback"
        BY DEF Route
      <3>2. Goto(q, Route(q))
        BY <2>1 DEF SubmitWrite
      <3> QED BY <1>3, <3>1, <3>2
    <2>2. CASE ~SubmitWrite(q)
      <3>1. \/ Goto(q, "done") \/ Goto(q, "mcq_status") \/ Goto(q, "mcq_publish")
            \/ Goto(q, "ai_result") \/ Goto(q, "ai_return") \/ Goto(q, "ai_publish")
            \/ Goto(q, "man_status") \/ Goto(q, "man_publish")
        BY <1>4, <2>2 DEF Proceed, UpdateWrite, SubmitPublish, McqResult, McqStatus, McqPublish,
             AiMark, AiResult, AiReturn, AiPublish, AiFallback, ManualResult, ManualStatus,
             ManualPublish
      <3> QED BY <1>3, <3>1
    <2> QED BY <2>1, <2>2
  <1>5. ASSUME NEW q \in Requests, RequestFails(q) PROVE FALSE
    BY <1>5 DEF RequestFails
  <1>6. ASSUME NEW w \in Workers, WorkerStep(w) \/ WorkerFails(w) \/ WorkerCrash(w)
        PROVE  UNCHANGED req
    BY <1>6 DEF WorkerStep, WorkerPoll, WorkerMark, WorkerResult, WorkerGraded, WorkerPublish,
           WorkerAck, WorkerNack, WorkerFails, WorkerCrash
  <1>7. ASSUME NEW t \in Ticks, TickStep(t) \/ TickFails(t) PROVE UNCHANGED req
    BY <1>7 DEF TickStep, TickClaim, TickHandle, TickAck, TickNack, TickFails
  <1>8. CASE ApiCrash \/ (\E b \in Attempts : Create(b)) \/ UNCHANGED vars
    BY <1>1, <1>8 DEF ApiCrash, Create, vars
  <1> QED BY <1>1, <1>2, <1>3, <1>4, <1>5, <1>6, <1>7, <1>8 DEF Next

(* While calls succeed, an attempt that waits for its grade is being       *)
(* attended to, however updates, submissions, gradings by the teacher and  *)
(* workers overlap: the safety half of GradedInTheEnd.                     *)
THEOREM AttendedAlways == Faults = {} /\ Spec => []Attended
  <1> SUFFICES ASSUME Faults = {} PROVE Spec => []Attended
    OBVIOUS
  <1>1. Init => NoFallback /\ Attended
    BY DEF Init, NoFallback, NewRequest, Attended
  <1>2. TypeOK /\ HandledAlone /\ (NoFallback /\ Attended) /\ [Next]_vars => (NoFallback /\ Attended)'
    <2> SUFFICES ASSUME TypeOK, HandledAlone, NoFallback, Attended, [Next]_vars
                 PROVE  NoFallback' /\ Attended'
      OBVIOUS
    <2>1. ASSUME NEW a \in Attempts, Open(a)' PROVE Seen(a)'
      <3>1. CASE Open(a)
        <4>1. Seen(a)
          BY <3>1, SeenIs DEF Attended, Open
        <4> QED BY <2>1, <4>1, SeenOn DEF Open
      <3>2. CASE ~Open(a)
        BY <2>1, <3>2, Opens
      <3> QED BY <3>1, <3>2
    <2>2. ASSUME NEW a \in Attempts, Open(a)' PROVE Attending(a)' \/ LeftToTeacher(a)'
      BY <2>1, <2>2 DEF Seen, Attending, Acts, Waits, Works, Submits
    <2>3. Attended'
      BY <2>2 DEF Attended, Open
    <2> QED BY <2>3, NoFallbackNext
  <1> QED BY <1>1, <1>2, TypeCorrect, HandledAloneAlways, PTL DEF Spec
-----------------------------------------------------------------------------
(* Completions on their way to the student.  A database error that the     *)
(* poller meets comes after the message; only a crash between the claim    *)
(* and the message loses it.                                               *)
Completes(i) == queue[i].topic = "grade_completed"

LEMMA HandlesOn ==
  ASSUME "crash" \notin Faults, TypeOK, [Next]_vars, NEW t \in Ticks,
         tick[t].pc = "handle", queue[tick[t].ev].student
  PROVE  \/ tick'[t] = tick[t]
         \/ \E m \in DOMAIN sent' : sent'[m] = tick[t].ev
  <1> DEFINE Goal == tick'[t] = tick[t] \/ \E m \in DOMAIN sent' : sent'[m] = tick[t].ev
  <1>1. ASSUME UNCHANGED tick PROVE Goal
    BY <1>1
  <1>2. ASSUME NEW u \in Ticks, u # t, TickStep(u) \/ TickFails(u) PROVE tick'[t] = tick[t]
    BY <1>2 DEF TickStep, TickClaim, TickHandle, TickAck, TickNack, TickFails, TypeOK, TickTypeOK
  <1>3. ASSUME TickHandle(t) PROVE Goal
    <2>1. sent' = Append(sent, tick[t].ev) /\ sent \in Seq(Nat) /\ tick[t].ev \in Nat
      BY <1>3 DEF TickHandle, TypeOK, TickTypeOK
    <2>2. Len(sent) + 1 \in DOMAIN sent' /\ sent'[Len(sent) + 1] = tick[t].ev
      BY <2>1
    <2> QED BY <2>2
  <1>4. ASSUME TickClaim(t) \/ TickAck(t) \/ TickNack(t) \/ TickFails(t) PROVE FALSE
    BY <1>4 DEF TickClaim, TickAck, TickNack, TickFails
  <1>5. ASSUME NEW r \in Requests, Arrive(r) \/ Proceed(r) \/ RequestFails(r)
        PROVE  UNCHANGED tick
    BY <1>5 DEF Arrive, UpdateRead, SubmitRead, ManualRead, RequestFails, Proceed,
           UpdateWrite, SubmitWrite, SubmitPublish, McqResult, McqStatus, McqPublish, AiMark,
           AiResult, AiReturn, AiPublish, AiFallback, ManualResult, ManualStatus, ManualPublish
  <1>6. ASSUME NEW w \in Workers, WorkerStep(w) \/ WorkerFails(w) \/ WorkerCrash(w)
        PROVE  UNCHANGED tick
    BY <1>6 DEF WorkerStep, WorkerPoll, WorkerMark, WorkerResult, WorkerGraded, WorkerPublish,
           WorkerAck, WorkerNack, WorkerFails, WorkerCrash
  <1>7. ASSUME ApiCrash PROVE FALSE
    BY <1>7 DEF ApiCrash
  <1>8. ASSUME (\E b \in Attempts : Create(b)) \/ UNCHANGED vars PROVE UNCHANGED tick
    BY <1>8 DEF Create, vars
  <1> HIDE DEF Goal
  <1>9. Goal
    BY <1>1, <1>2, <1>3, <1>4, <1>5, <1>6, <1>7, <1>8 DEF Next, TickStep, Goal
  <1> QED BY <1>9 DEF Goal

(* A row that was not there is pending.                                    *)
LEMMA NewPending ==
  ASSUME TypeOK, [Next]_vars, NEW i \in DOMAIN queue', i \notin DOMAIN queue
  PROVE  queue'[i].status = "pending"
  <1>0. /\ \A a, student, sel : Submission(a, student, sel).status = "pending"
        /\ \A a, by, student, score, meta :
             Completion(a, by, student, score, meta).status = "pending"
    BY DEF Submission, Completion
  <1>1. ASSUME NEW e, Publish(e), e.status = "pending" PROVE queue'[i].status = "pending"
    BY <1>1 DEF Publish, TypeOK, QueueTypeOK
  <1>2. ASSUME NEW j, NEW s, Mark(j, s) PROVE FALSE
    BY <1>2 DEF Mark, TypeOK, QueueTypeOK
  <1>3. CASE UNCHANGED queue
    BY <1>3
  <1>4. ASSUME NEW r \in Requests, Arrive(r) \/ Proceed(r) \/ RequestFails(r)
        PROVE  UNCHANGED queue \/ \E e : Publish(e) /\ e.status = "pending"
    <2>1. CASE SubmitPublish(r) \/ AiPublish(r)
      BY <1>0, <2>1 DEF SubmitPublish, AiPublish
    <2>2. CASE McqPublish(r) \/ ManualPublish(r)
      <3>1. \E a, by, student, score, meta : Publish(Completion(a, by, student, score, meta))
        BY <2>2 DEF McqPublish, ManualPublish
      <3> QED BY <1>0, <3>1
    <2> QED BY <1>4, <2>1, <2>2
            DEF Arrive, UpdateRead, SubmitRead, ManualRead, Proceed, UpdateWrite, SubmitWrite,
                McqResult, McqStatus, AiMark, AiResult, AiReturn, AiFallback, ManualResult,
                ManualStatus, RequestFails
  <1>5. ASSUME NEW w \in Workers, WorkerStep(w) \/ WorkerFails(w) \/ WorkerCrash(w)
        PROVE  UNCHANGED queue \/ (\E e : Publish(e) /\ e.status = "pending") \/ (\E j, s : Mark(j, s))
    BY <1>5 DEF WorkerStep, WorkerPoll, WorkerMark, WorkerResult, WorkerGraded, WorkerPublish,
           WorkerAck, WorkerNack, WorkerFails, WorkerCrash, Completion
  <1>6. ASSUME NEW t \in Ticks, TickStep(t) \/ TickFails(t)
        PROVE  UNCHANGED queue \/ (\E j, s : Mark(j, s))
    BY <1>6 DEF TickStep, TickClaim, TickHandle, TickAck, TickNack, TickFails
  <1>7. CASE ApiCrash \/ (\E a \in Attempts : Create(a)) \/ UNCHANGED vars
    BY <1>3, <1>7 DEF ApiCrash, Create, vars
  <1> QED BY <1>1, <1>2, <1>3, <1>4, <1>5, <1>6, <1>7 DEF Next

(* No message to a student is lost while the API does not crash, however   *)
(* poll() calls overlap and whichever database calls fail: the safety half *)
(* of StudentTold.                                                         *)
THEOREM UnderwayAlways == "crash" \notin Faults /\ Spec => []Underway
  <1> SUFFICES ASSUME "crash" \notin Faults PROVE Spec => []Underway
    OBVIOUS
  <1>1. Init => Underway
    BY DEF Init, Underway
  <1>2. TypeOK /\ HandledAlone /\ Underway /\ [Next]_vars => Underway'
    <2> SUFFICES ASSUME TypeOK, HandledAlone, Underway, [Next]_vars,
                        NEW i \in DOMAIN queue', Completes(i)', queue'[i].student
                 PROVE  \/ queue'[i].status = "pending"
                        \/ \E t \in Ticks : tick'[t].pc = "handle" /\ tick'[t].ev = i
                        \/ \E m \in DOMAIN sent' : sent'[m] = i
      BY DEF Underway, Completes
    <2>1. CASE i \notin DOMAIN queue
      BY <2>1, NewPending
    <2>2. CASE i \in DOMAIN queue
      <3>1. Completes(i) /\ queue[i].student /\ ~Submits(i)
        BY <2>2, PayloadKept DEF SamePayload, Completes, Submits
      <3>2. CASE queue[i].status = "pending"
        <4>1. ASSUME NEW t \in Ticks, tick'[t] = [pc |-> "handle", ev |-> i]
              PROVE  tick'[t].pc = "handle" /\ tick'[t].ev = i
          BY <4>1
        <4> QED BY <2>2, <3>1, <3>2, <4>1, PendingStays
      <3>3. ASSUME NEW t \in Ticks, tick[t].pc = "handle", tick[t].ev = i
            PROVE  \/ \E u \in Ticks : tick'[u].pc = "handle" /\ tick'[u].ev = i
                   \/ \E m \in DOMAIN sent' : sent'[m] = i
        BY <3>1, <3>3, HandlesOn
      <3>4. ASSUME Emitted(i) PROVE \E m \in DOMAIN sent' : sent'[m] = i
        BY <3>4, SentGrows DEF Emitted
      <3> QED BY <2>2, <3>1, <3>2, <3>3, <3>4 DEF Underway, Completes, Emitted
    <2> QED BY <2>1, <2>2
  <1> QED BY <1>1, <1>2, TypeCorrect, HandledAloneAlways, PTL DEF Spec
-----------------------------------------------------------------------------
(* While no database call fails: which rows name no student, and who       *)
(* settles a row as failed.                                                *)
KindOf(a) == attempt[a].kind

RoutedInv == \A r \in Requests :
  /\ req[r].pc \in AiPcs => KindOf(req[r].on) = "ai"
  /\ req[r].pc \in {"mcq_result", "mcq_status", "mcq_publish"} => KindOf(req[r].on) = "mcq"

UnnamedInv == \A i \in DOMAIN queue : ~queue[i].student =>
  /\ Submits(i) => KindOf(queue[i].attempt) = "ai"
  /\ KindOf(queue[i].attempt) \in {"mcq", "ai"}

NacksInv == /\ \A w \in Workers : wk[w].pc # "nack"
            /\ \A t \in Ticks : tick[t].pc = "nack" => ~queue[tick[t].ev].student

FailedInv == \A i \in DOMAIN queue : queue[i].status = "failed" =>
  queue[i].topic = "grade_completed" /\ ~queue[i].student

NamelessInv == RoutedInv /\ UnnamedInv /\ NacksInv /\ FailedInv

LEMMA RoutedNext == TypeOK /\ RoutedInv /\ [Next]_vars => RoutedInv'
  <1> SUFFICES ASSUME TypeOK, RoutedInv, [Next]_vars, NEW r \in Requests
               PROVE  /\ req'[r].pc \in AiPcs => attempt'[req'[r].on].kind = "ai"
                      /\ req'[r].pc \in {"mcq_result", "mcq_status", "mcq_publish"}
                           => attempt'[req'[r].on].kind = "mcq"
    BY DEF RoutedInv, KindOf
  <1> DEFINE Routed == {"mcq_result", "mcq_status", "mcq_publish"}
             Goal == \/ req'[r].pc \notin AiPcs \cup Routed
                     \/ /\ req'[r].on = req[r].on /\ req[r].on \in Attempts
                        /\ req'[r].pc \in AiPcs => KindOf(req[r].on) = "ai"
                        /\ req'[r].pc \in Routed => KindOf(req[r].on) = "mcq"
  <1>1. ASSUME req'[r] = req[r] PROVE Goal
    BY <1>1 DEF RoutedInv, TypeOK, ReqTypeOK, AiPcs, AiTry
  <1>2. ASSUME NEW q \in Requests, Arrive(q) \/ Proceed(q) \/ RequestFails(q), q # r
        PROVE  req'[r] = req[r]
    BY <1>2 DEF Arrive, UpdateRead, SubmitRead, ManualRead, RequestFails, Proceed,
           UpdateWrite, SubmitWrite, SubmitPublish, McqResult, McqStatus, McqPublish, AiMark,
           AiResult, AiReturn, AiPublish, AiFallback, ManualResult, ManualStatus, ManualPublish,
           Goto, TypeOK, ReqTypeOK
  <1>3. ASSUME Arrive(r) PROVE Goal
    <2>1. req'[r].pc \in {"update", "submit", "man_result"}
      BY <1>3 DEF Arrive, UpdateRead, SubmitRead, ManualRead, NewRequest, TypeOK, ReqTypeOK
    <2> QED BY <2>1 DEF AiPcs, AiTry
  <1>4. ASSUME NEW pc, Goto(r, pc), pc \in AiPcs => req[r].pc \in AiPcs,
               pc \in Routed => req[r].pc \in Routed
        PROVE  Goal
    <2>1. req'[r].pc = pc /\ req'[r].on = req[r].on
      BY <1>4, GotoKeeps DEF TypeOK
    <2>2. req[r].pc \in AiPcs \cup Routed => req[r].on \in Attempts
      BY RequestOn DEF AiPcs, AiTry
    <2> QED BY <1>4, <2>1, <2>2 DEF RoutedInv
  <1>5. ASSUME SubmitWrite(r) PROVE Goal
    <2>1. req'[r].pc = Route(r) /\ req'[r].on = req[r].on /\ req[r].on \in Attempts
      BY <1>5, GotoKeeps, RequestOn DEF SubmitWrite, TypeOK
    <2>2. /\ Route(r) \in AiPcs => KindOf(req[r].on) = "ai"
          /\ Route(r) \in Routed => KindOf(req[r].on) = "mcq"
      BY DEF Route, KindOf, AiPcs, AiTry
    <2> QED BY <2>1, <2>2
  <1>6. ASSUME Proceed(r) /\ ~SubmitWrite(r) PROVE Goal
    <2> DEFINE Keeps(pc) == /\ pc \in AiPcs => req[r].pc \in AiPcs
                            /\ pc \in Routed => req[r].pc \in Routed
    <2>1. \E pc : Goto(r, pc) /\ Keeps(pc)
      <3>1. CASE \/ UpdateWrite(r) \/ SubmitPublish(r) \/ McqPublish(r) \/ AiPublish(r)
                 \/ AiFallback(r) \/ ManualPublish(r)
        <4>1. Goto(r, "done")
          BY <3>1 DEF UpdateWrite, SubmitPublish, McqPublish, AiPublish, AiFallback, ManualPublish
        <4> QED BY <4>1 DEF AiPcs, AiTry
      <3>2. CASE McqResult(r) \/ McqStatus(r)
        BY <3>2 DEF McqResult, McqStatus, AiPcs, AiTry
      <3>3. CASE AiMark(r) \/ AiResult(r) \/ AiReturn(r)
        BY <3>3 DEF AiMark, AiResult, AiReturn, AiPcs, AiTry
      <3>4. CASE ManualResult(r) \/ ManualStatus(r)
        BY <3>4 DEF ManualResult, ManualStatus, AiPcs, AiTry
      <3> QED BY <1>6, <3>1, <3>2, <3>3, <3>4 DEF Proceed
    <2>2. PICK pc : Goto(r, pc) /\ Keeps(pc)
      BY <2>1
    <2> HIDE DEF Goal
    <2> QED BY <1>4, <2>2
  <1>7. ASSUME RequestFails(r) PROVE Goal
    <2>1. \/ req[r].pc \in AiTry /\ Goto(r, "ai_fallback")
          \/ Goto(r, "done")
      BY <1>7 DEF RequestFails
    <2>2. CASE req[r].pc \in AiTry /\ Goto(r, "ai_fallback")
      BY <1>4, <2>2 DEF AiPcs, AiTry
    <2>3. CASE Goto(r, "done")
      BY <1>4, <2>3 DEF AiPcs, AiTry
    <2> QED BY <2>1, <2>2, <2>3
  <1>8. ASSUME ApiCrash PROVE Goal
    BY <1>8 DEF ApiCrash, TypeOK, ReqTypeOK, RequestState, AiPcs, AiTry
  <1>9. ASSUME NEW w \in Workers, WorkerStep(w) \/ WorkerFails(w) \/ WorkerCrash(w)
        PROVE  UNCHANGED req
    BY <1>9 DEF WorkerStep, WorkerPoll, WorkerMark, WorkerResult, WorkerGraded, WorkerPublish,
           WorkerAck, WorkerNack, WorkerFails, WorkerCrash
  <1>10. ASSUME NEW t \in Ticks, TickStep(t) \/ TickFails(t) PROVE UNCHANGED req
    BY <1>10 DEF TickStep, TickClaim, TickHandle, TickAck, TickNack, TickFails
  <1>11. ASSUME (\E b \in Attempts : Create(b)) \/ UNCHANGED vars PROVE UNCHANGED req
    BY <1>11 DEF Create, vars
  <1> HIDE DEF Goal
  <1>12. Goal
    BY <1>1, <1>2, <1>3, <1>5, <1>6, <1>7, <1>8, <1>9, <1>10, <1>11 DEF Next
  <1> QED BY <1>12, AttemptSteps DEF Goal, KindOf

(* A row without a student id is of an mcq or of an AI question.           *)
LEMMA NewUnnamed ==
  ASSUME TypeOK, WorkersInv, RoutedInv, UnnamedInv, [Next]_vars,
         NEW i \in DOMAIN queue', i \notin DOMAIN queue, ~queue'[i].student
  PROVE  /\ Submits(i)' => KindOf(queue'[i].attempt) = "ai"
         /\ KindOf(queue'[i].attempt) \in {"mcq", "ai"}
  <1> DEFINE Goal == /\ queue'[i].topic = "grade_submission" => KindOf(queue'[i].attempt) = "ai"
                     /\ KindOf(queue'[i].attempt) \in {"mcq", "ai"}
  <1>1. ASSUME NEW e, Publish(e) PROVE queue'[i] = e
    BY <1>1 DEF Publish, TypeOK, QueueTypeOK
  <1>2. ASSUME DOMAIN queue' = DOMAIN queue PROVE Goal
    BY <1>2
  <1>3. ASSUME NEW j, NEW s, Mark(j, s) PROVE FALSE
    BY <1>3 DEF Mark, TypeOK, QueueTypeOK
  <1>4. ASSUME NEW r \in Requests, Proceed(r) PROVE Goal
    <2>1. CASE SubmitPublish(r)
      BY <1>1, <2>1 DEF SubmitPublish, Submission
    <2>2. CASE AiPublish(r)
      BY <1>1, <2>2 DEF AiPublish, Submission, RoutedInv, AiPcs, AiTry
    <2>3. CASE McqPublish(r)
      BY <1>1, <2>3 DEF McqPublish, Completion, RoutedInv
    <2>4. CASE ManualPublish(r)
      BY <1>1, <2>4 DEF ManualPublish, Completion
    <2>5. CASE UNCHANGED queue
      BY <1>2, <2>5
    <2> HIDE DEF Goal
    <2> QED BY <1>4, <2>1, <2>2, <2>3, <2>4, <2>5
            DEF Proceed, UpdateWrite, SubmitWrite, McqResult, McqStatus, AiMark, AiResult,
                AiReturn, AiFallback, ManualResult, ManualStatus
  <1>5. ASSUME NEW w \in Workers, WorkerStep(w) \/ WorkerFails(w) \/ WorkerCrash(w) PROVE Goal
    <2>1. CASE WorkerPublish(w)
      <3>1. wk[w].ev \in DOMAIN queue /\ Submits(wk[w].ev)
        BY <2>1 DEF WorkerPublish, WorkersInv, TypeOK, WorkerTypeOK
      <3>2. ~Job(w).student => KindOf(Job(w).attempt) = "ai"
        BY <3>1 DEF UnnamedInv, Job
      <3> QED BY <1>1, <2>1, <3>2 DEF WorkerPublish, Completion
    <2>2. CASE UNCHANGED queue \/ \E j, s : Mark(j, s)
      BY <1>2, <1>3, <2>2
    <2> HIDE DEF Goal
    <2> QED BY <1>5, <2>1, <2>2
            DEF WorkerStep, WorkerPoll, WorkerMark, WorkerResult, WorkerGraded, WorkerAck,
                WorkerNack, WorkerFails, WorkerCrash
  <1>6. ASSUME NEW t \in Ticks, TickStep(t) \/ TickFails(t)
        PROVE  UNCHANGED queue \/ \E j, s : Mark(j, s)
    BY <1>6 DEF TickStep, TickClaim, TickHandle, TickAck, TickNack, TickFails
  <1>7. ASSUME NEW r \in Requests, Arrive(r) \/ RequestFails(r) PROVE UNCHANGED queue
    BY <1>7 DEF Arrive, UpdateRead, SubmitRead, ManualRead, RequestFails
  <1>8. ASSUME ApiCrash \/ (\E a \in Attempts : Create(a)) \/ UNCHANGED vars PROVE Goal
    BY <1>2, <1>8 DEF ApiCrash, Create, vars
  <1> HIDE DEF Goal
  <1>9. Goal
    BY <1>2, <1>3, <1>4, <1>5, <1>6, <1>7, <1>8 DEF Next
  <1> QED BY <1>9 DEF Goal, Submits

LEMMA UnnamedNext ==
  TypeOK /\ TypeOK' /\ WorkersInv /\ RoutedInv /\ UnnamedInv /\ [Next]_vars => UnnamedInv'
  <1> SUFFICES ASSUME TypeOK, TypeOK', WorkersInv, RoutedInv, UnnamedInv, [Next]_vars,
                      NEW i \in DOMAIN queue', ~queue'[i].student
               PROVE  /\ queue'[i].topic = "grade_submission"
                           => attempt'[queue'[i].attempt].kind = "ai"
                      /\ attempt'[queue'[i].attempt].kind \in {"mcq", "ai"}
    BY DEF UnnamedInv, Submits, KindOf
  <1>1. queue'[i].attempt \in Attempts
    <2>1. queue'[i] \in Event
      BY DEF TypeOK, QueueTypeOK
    <2> QED BY <2>1 DEF Event
  <1>2. /\ queue'[i].topic = "grade_submission" => KindOf(queue'[i].attempt) = "ai"
        /\ KindOf(queue'[i].attempt) \in {"mcq", "ai"}
    <2>1. CASE i \in DOMAIN queue
      BY <2>1, PayloadKept DEF SamePayload, UnnamedInv, Submits
    <2>2. CASE i \notin DOMAIN queue
      BY <2>2, NewUnnamed DEF Submits
    <2> QED BY <2>1, <2>2
  <1> QED BY <1>1, <1>2, AttemptSteps DEF KindOf

LEMMA NacksNext ==
  ASSUME "db" \notin Faults, TypeOK, NacksInv, [Next]_vars
  PROVE  NacksInv'
  <1>1. ASSUME NEW w \in Workers PROVE wk'[w].pc # "nack"
    <2> USE DEF TypeOK, WorkerTypeOK
    <2>1. CASE UNCHANGED wk
      BY <2>1 DEF NacksInv
    <2>2. ASSUME NEW v \in Workers, WorkerStep(v) \/ WorkerCrash(v) PROVE wk'[w].pc # "nack"
      BY <2>2 DEF NacksInv, WorkerStep, WorkerPoll, WorkerMark, WorkerResult, WorkerGraded,
             WorkerPublish, WorkerAck, WorkerNack, WorkerCrash, WorkerGoto, Idle
    <2>3. ASSUME NEW v \in Workers, WorkerFails(v) PROVE FALSE
      BY <2>3 DEF WorkerFails
    <2>4. ASSUME NEW r \in Requests, Arrive(r) \/ Proceed(r) \/ RequestFails(r)
          PROVE  UNCHANGED wk
      BY <2>4 DEF Arrive, UpdateRead, SubmitRead, ManualRead, RequestFails, Proceed,
           UpdateWrite, SubmitWrite, SubmitPublish, McqResult, McqStatus, McqPublish, AiMark,
           AiResult, AiReturn, AiPublish, AiFallback, ManualResult, ManualStatus, ManualPublish
    <2>5. ASSUME NEW t \in Ticks, TickStep(t) \/ TickFails(t) PROVE UNCHANGED wk
      BY <2>5 DEF TickStep, TickClaim, TickHandle, TickAck, TickNack, TickFails
    <2>6. CASE ApiCrash \/ (\E b \in Attempts : Create(b)) \/ UNCHANGED vars
      BY <2>1, <2>6 DEF ApiCrash, Create, vars
    <2> QED BY <2>1, <2>2, <2>3, <2>4, <2>5, <2>6 DEF Next
  <1>2. ASSUME NEW t \in Ticks, tick'[t].pc = "nack"
        PROVE  /\ tick[t].pc # "idle" /\ tick'[t].ev = tick[t].ev
               /\ ~queue[tick[t].ev].student
    <2> USE DEF TypeOK, TickTypeOK
    <2> DEFINE Goal == /\ tick[t].pc # "idle" /\ tick'[t].ev = tick[t].ev
                       /\ ~queue[tick[t].ev].student
    <2>1. ASSUME tick'[t] = tick[t] PROVE Goal
      BY <1>2, <2>1 DEF NacksInv
    <2>2. ASSUME NEW u \in Ticks, TickStep(u), u # t PROVE tick'[t] = tick[t]
      BY <2>2 DEF TickStep, TickClaim, TickHandle, TickAck, TickNack
    <2>3. ASSUME TickHandle(t) PROVE Goal
      BY <1>2, <2>3 DEF TickHandle
    <2>4. ASSUME TickClaim(t) \/ TickAck(t) \/ TickNack(t) \/ ApiCrash PROVE Goal
      BY <1>2, <2>4 DEF TickClaim, TickAck, TickNack, ApiCrash, Idle
    <2>5. ASSUME NEW u \in Ticks, TickFails(u) PROVE FALSE
      BY <2>5 DEF TickFails
    <2>6. ASSUME NEW r \in Requests, Arrive(r) \/ Proceed(r) \/ RequestFails(r)
          PROVE  UNCHANGED tick
      BY <2>6 DEF Arrive, UpdateRead, SubmitRead, ManualRead, RequestFails, Proceed,
           UpdateWrite, SubmitWrite, SubmitPublish, McqResult, McqStatus, McqPublish, AiMark,
           AiResult, AiReturn, AiPublish, AiFallback, ManualResult, ManualStatus, ManualPublish
    <2>7. ASSUME NEW w \in Workers, WorkerStep(w) \/ WorkerFails(w) \/ WorkerCrash(w)
          PROVE  UNCHANGED tick
      BY <2>7 DEF WorkerStep, WorkerPoll, WorkerMark, WorkerResult, WorkerGraded, WorkerPublish,
             WorkerAck, WorkerNack, WorkerFails, WorkerCrash
    <2>8. ASSUME (\E b \in Attempts : Create(b)) \/ UNCHANGED vars PROVE UNCHANGED tick
      BY <2>8 DEF Create, vars
    <2> HIDE DEF Goal
    <2>9. Goal
      BY <2>1, <2>2, <2>3, <2>4, <2>5, <2>6, <2>7, <2>8 DEF Next, TickStep
    <2> QED BY <2>9 DEF Goal
  <1>3. ASSUME NEW t \in Ticks, tick'[t].pc = "nack" PROVE ~queue'[tick'[t].ev].student
    <2>1. PICK i \in DOMAIN queue : i = tick[t].ev
      BY <1>2, <1>3 DEF TypeOK, TickTypeOK
    <2> QED BY <1>2, <1>3, <2>1, PayloadKept DEF SamePayload
  <1> QED BY <1>1, <1>3 DEF NacksInv

(* A row becomes failed when it already was, or a poll() call or a worker  *)
(* sets it.                                                                *)
LEMMA FailedNext ==
  ASSUME TypeOK, TicksInv, NacksInv, FailedInv, [Next]_vars
  PROVE  FailedInv'
  <1> SUFFICES ASSUME NEW i \in DOMAIN queue', queue'[i].status = "failed"
               PROVE  queue'[i].topic = "grade_completed" /\ ~queue'[i].student
    BY DEF FailedInv
  <1>1. i \in DOMAIN queue
    BY NewPending
  <1> DEFINE Same == queue[i].status = "failed"
             Nameless == queue[i].topic = "grade_completed" /\ ~queue[i].student
  <1>2. ASSUME UNCHANGED queue PROVE Same
    BY <1>2
  <1>3. ASSUME NEW e, Publish(e) PROVE Same
    BY <1>1, <1>3 DEF Publish, TypeOK, QueueTypeOK
  <1>4. ASSUME NEW j, NEW s, Mark(j, s) PROVE Same \/ (j = i /\ s = "failed")
    <2>1. \A k \in DOMAIN queue : k # j => queue'[k] = queue[k]
      BY <1>4 DEF Mark
    <2>2. i = j => queue'[i].status = s
      BY <1>1, <1>4, EventAt DEF Mark, Event
    <2> QED BY <1>1, <2>1, <2>2
  <1>5. ASSUME NEW r \in Requests, Arrive(r) \/ Proceed(r) \/ RequestFails(r)
        PROVE  UNCHANGED queue \/ \E e : Publish(e)
    BY <1>5 DEF Arrive, UpdateRead, SubmitRead, ManualRead, Proceed, UpdateWrite, SubmitWrite,
         SubmitPublish, McqResult, McqStatus, McqPublish, AiMark, AiResult, AiReturn,
         AiPublish, AiFallback, ManualResult, ManualStatus, ManualPublish, RequestFails
  <1>6. ASSUME NEW w \in Workers, WorkerStep(w) \/ WorkerFails(w) \/ WorkerCrash(w)
        PROVE  \/ UNCHANGED queue \/ \E e : Publish(e)
               \/ \E j, s : Mark(j, s) /\ s # "failed"
    <2>1. ~WorkerNack(w)
      BY DEF NacksInv, WorkerNack
    <2> QED BY <1>6, <2>1 DEF WorkerStep, WorkerPoll, WorkerMark, WorkerResult, WorkerGraded,
           WorkerPublish, WorkerAck, WorkerFails, WorkerCrash
  <1>7. ASSUME NEW t \in Ticks, TickStep(t) \/ TickFails(t) PROVE Same \/ Nameless
    <2>1. CASE TickNack(t)
      <3>1. Mark(tick[t].ev, "failed") /\ tick[t].pc = "nack"
        BY <2>1 DEF TickNack
      <3>2. Same \/ tick[t].ev = i
        BY <1>4, <3>1
      <3> QED BY <3>1, <3>2 DEF NacksInv, TicksInv
    <2>2. CASE TickClaim(t) \/ TickAck(t)
      <3>1. \E j, s : Mark(j, s) /\ s # "failed"
        BY <2>2 DEF TickClaim, TickAck
      <3> QED BY <1>4, <3>1
    <2>3. CASE TickHandle(t) \/ TickFails(t)
      BY <1>2, <2>3 DEF TickHandle, TickFails
    <2> QED BY <1>7, <2>1, <2>2, <2>3 DEF TickStep
  <1>8. ASSUME ApiCrash \/ (\E b \in Attempts : Create(b)) \/ UNCHANGED vars PROVE Same
    BY <1>2, <1>8 DEF ApiCrash, Create, vars
  <1> HIDE DEF Same, Nameless
  <1>9. Same \/ Nameless
    BY <1>2, <1>3, <1>4, <1>5, <1>6, <1>7, <1>8 DEF Next
  <1>10. Nameless
    BY <1>1, <1>9 DEF Same, Nameless, FailedInv
  <1> QED BY <1>1, <1>10, PayloadKept DEF SamePayload, Nameless

(* A grading never fails, and the only completions that fail are those the *)
(* code publishes without a student id: of an mcq and of an AI question.   *)
(* It needs the database, not the processes, to be up.                     *)
THEOREM OnlyNamelessFailAlways == "db" \notin Faults /\ Spec => []OnlyNamelessFail
  <1> SUFFICES ASSUME "db" \notin Faults PROVE Spec => []OnlyNamelessFail
    OBVIOUS
  <1>1. Init => NamelessInv
    BY DEF Init, NamelessInv, RoutedInv, UnnamedInv, NacksInv, FailedInv, NewRequest, Idle,
           AiPcs, AiTry
  <1>2. TypeOK /\ TypeOK' /\ ProcessedInv /\ NamelessInv /\ [Next]_vars => NamelessInv'
    BY RoutedNext, UnnamedNext, NacksNext, FailedNext DEF NamelessInv, ProcessedInv
  <1>3. NamelessInv => OnlyNamelessFail
    BY DEF NamelessInv, UnnamedInv, FailedInv, OnlyNamelessFail, KindOf
  <1> QED BY <1>1, <1>2, <1>3, TypeCorrect, ProcessedAlways, PTL DEF Spec
=============================================================================
