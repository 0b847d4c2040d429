-------------------------- MODULE Grading_proofs ---------------------------
(***************************************************************************)
(* Machine-checked facts about the grading pipeline, for any number of     *)
(* attempts, requests, workers and poller executions, with or without      *)
(* faults, serial clients or not.                                          *)
(***************************************************************************)
EXTENDS Grading, TLAPS

Statuses == {"pending", "processing", "processed", "failed"}

(* Appending an event keeps the table a table and every row where it is.   *)
LEMMA AppendEvent ==
  ASSUME NEW q \in Seq(Event), NEW e \in Event
  PROVE  /\ Append(q, e) \in Seq(Event)
         /\ DOMAIN Append(q, e) = DOMAIN q \cup {Len(q) + 1}
         /\ Len(q) + 1 \notin DOMAIN q
         /\ \A i \in DOMAIN q : Append(q, e)[i] = q[i]
         /\ Append(q, e)[Len(q) + 1] = e
  OBVIOUS

(* Changing the status of a row keeps the table a table.                   *)
LEMMA MarkEvent ==
  ASSUME NEW q \in Seq(Event), NEW i \in DOMAIN q, NEW s \in Statuses
  PROVE  /\ [q EXCEPT ![i].status = s] \in Seq(Event)
         /\ DOMAIN [q EXCEPT ![i].status = s] = DOMAIN q
         /\ Len([q EXCEPT ![i].status = s]) = Len(q)
  <1>1. q[i] \in Event
    OBVIOUS
  <1>2. [q[i] EXCEPT !.status = s] \in Event
    BY <1>1 DEF Event, Statuses
  <1> QED BY <1>2

(* Every score the worker computes is a score.                             *)
LEMMA WorkerScoreType ==
  ASSUME NEW e \in Event PROVE WorkerScore(e) \in Scores
  BY GradingAssumption DEF WorkerScore, Scores

LEMMA SubmissionType ==
  ASSUME NEW a \in Attempts, NEW b \in BOOLEAN, NEW d \in Answers \cup {None}
  PROVE  Submission(a, b, d) \in Event
  BY DEF Submission, Event

LEMMA CompletionType ==
  ASSUME NEW a \in Attempts, NEW src \in {"api", "worker"}, NEW b \in BOOLEAN,
         NEW s \in Scores, NEW by \in {"auto", "manual"}
  PROVE  Completion(a, src, b, s, by) \in Event
  BY DEF Completion, Event, Answers, Scores

(* What a request or a worker remembers has its type.                      *)
LEMMA RequestType ==
  ASSUME ReqTypeOK, NEW r \in Requests, req[r].pc # "new"
  PROVE  /\ req[r].on \in Attempts
         /\ Given(r) \in Answers \cup {None}
         /\ McqScore(Given(r)) \in Scores
         /\ Route(r) \in ReqPcs \ {"new", "man_result", "man_status", "man_publish"}
  BY GradingAssumption
     DEF ReqTypeOK, RequestState, Given, McqScore, Route, ReqPcs, AiPcs, AiTry, Answers, Scores

LEMMA JobType ==
  ASSUME QueueTypeOK, WorkerTypeOK, NEW w \in Workers, wk[w].pc # "idle"
  PROVE  Job(w) \in Event /\ wk[w].ev \in DOMAIN queue
  BY DEF QueueTypeOK, WorkerTypeOK, Job

(* Updating one attempt, adding one result.                                *)
LEMMA AddResultType ==
  ASSUME ResultsTypeOK, NEW a \in Attempts, NEW s \in Scores,
         NEW by \in {"auto", "manual", "placeholder"}, AddResult(a, s, by)
  PROVE  ResultsTypeOK'
  <1>1. [score |-> s, by |-> by] \in Result
    BY DEF Result
  <1>2. results[a] \in Seq(Result)
    BY DEF ResultsTypeOK
  <1>3. Append(results[a], [score |-> s, by |-> by]) \in Seq(Result)
    BY <1>1, <1>2
  <1> QED BY <1>3 DEF ResultsTypeOK, AddResult

LEMMA SetStatusType ==
  ASSUME AttemptTypeOK, NEW a \in Attempts,
         NEW s \in {"in_progress", "submitted", "grading", "graded"}, SetStatus(a, s)
  PROVE  AttemptTypeOK'
  BY DEF AttemptTypeOK, SetStatus, AttemptRow

LEMMA GotoType ==
  ASSUME ReqTypeOK, NEW r \in Requests, req[r].pc # "new", NEW pc \in ReqPcs \ {"new"},
         \/ pc \notin {"man_result", "man_status", "man_publish"}
         \/ req[r].score \in Scores,
         Goto(r, pc)
  PROVE  ReqTypeOK'
  BY DEF ReqTypeOK, Goto, RequestState

(* A request that starts remembers the attempt it works on.                *)
LEMMA StartType ==
  ASSUME ReqTypeOK, NEW r \in Requests, NEW start \in RequestState,
         start.on \in Attempts, start.pc = "man_result" => start.score \in Scores,
         start.pc \in {"update", "submit", "man_result"},
         req' = [req EXCEPT ![r] = start]
  PROVE  ReqTypeOK'
  BY DEF ReqTypeOK

(* Appending or marking a row of the table leaves every execution a row.   *)
LEMMA PublishType ==
  ASSUME TypeOK, NEW e \in Event, Publish(e)
  PROVE  QueueTypeOK' /\ DOMAIN queue \subseteq DOMAIN queue'
  BY AppendEvent DEF TypeOK, QueueTypeOK, Publish

LEMMA MarkType ==
  ASSUME TypeOK, NEW i \in DOMAIN queue, NEW s \in Statuses, Mark(i, s)
  PROVE  QueueTypeOK' /\ DOMAIN queue' = DOMAIN queue
  BY MarkEvent DEF TypeOK, QueueTypeOK, Mark
-----------------------------------------------------------------------------
(* One step of each kind preserves the types.                              *)

LEMMA CreateTypes ==
  ASSUME TypeOK, NEW a \in Attempts, Create(a) PROVE TypeOK'
  <1>1. AttemptTypeOK'
    BY SetStatusType DEF TypeOK, Create
  <1> QED BY <1>1 DEF TypeOK, Create, ResultsTypeOK, QueueTypeOK, ReqTypeOK, WorkerTypeOK, TickTypeOK

LEMMA ArriveTypes ==
  ASSUME TypeOK, NEW r \in Requests, Arrive(r) PROVE TypeOK'
  <1>1. PICK a \in Attempts :
          \/ \E d \in Answers \cup {None} : UpdateRead(r, a, d) \/ SubmitRead(r, a, d)
          \/ \E s \in Scores : ManualRead(r, a, s)
    <2>1. 0 .. MaxScore \subseteq Scores
      BY GradingAssumption DEF Scores
    <2>2. ASSUME NEW a \in Attempts PROVE AnswersTo(attempt[a].kind) \subseteq Answers \cup {None}
      BY GradingAssumption DEF AnswersTo, Answers
    <2> QED BY <2>1, <2>2 DEF Arrive
  <1>2. attempt[a].answer \in Answers \cup {None}
    BY DEF TypeOK, AttemptTypeOK, AttemptRow
  <1>3. ReqTypeOK'
    <2> USE StartType DEF TypeOK, NewRequest, RequestState, ReqPcs
    <2>1. ASSUME NEW d \in Answers \cup {None}, UpdateRead(r, a, d) PROVE ReqTypeOK'
      <3> DEFINE start == [NewRequest EXCEPT !.pc = "update", !.on = a, !.dto = d]
      <3>1. start \in RequestState /\ start.on = a /\ start.pc = "update"
        OBVIOUS
      <3>2. req' = [req EXCEPT ![r] = start]
        BY <2>1 DEF UpdateRead
      <3> HIDE DEF start
      <3> QED BY <3>1, <3>2
    <2>2. ASSUME NEW d \in Answers \cup {None}, SubmitRead(r, a, d) PROVE ReqTypeOK'
      <3> DEFINE start == [NewRequest EXCEPT !.pc = "submit", !.on = a, !.dto = d,
                                             !.seen = attempt[a].answer]
      <3>1. start \in RequestState /\ start.on = a /\ start.pc = "submit"
        BY <1>2
      <3>2. req' = [req EXCEPT ![r] = start]
        BY <2>2 DEF SubmitRead
      <3> HIDE DEF start
      <3> QED BY <3>1, <3>2
    <2>3. ASSUME NEW s \in Scores, ManualRead(r, a, s) PROVE ReqTypeOK'
      <3> DEFINE start == [NewRequest EXCEPT !.pc = "man_result", !.on = a, !.score = s]
      <3>1. start \in RequestState /\ start.on = a /\ start.score = s /\ start.pc = "man_result"
        OBVIOUS
      <3>2. req' = [req EXCEPT ![r] = start]
        BY <2>3 DEF ManualRead
      <3> HIDE DEF start
      <3> QED BY <3>1, <3>2
    <2> QED BY <1>1, <2>1, <2>2, <2>3
  <1>4. UNCHANGED <<attempt, results, queue, wk, tick, sent>>
    BY <1>1 DEF UpdateRead, SubmitRead, ManualRead
  <1> QED BY <1>3, <1>4
          DEF TypeOK, AttemptTypeOK, ResultsTypeOK, QueueTypeOK, WorkerTypeOK, TickTypeOK

(* The queue is written by publishing only, or not at all.                 *)
LEMMA ProceedTypes ==
  ASSUME TypeOK, NEW r \in Requests, Proceed(r) PROVE TypeOK'
  <1> DEFINE a == req[r].on
  <1>1. req[r].pc # "new"
    BY DEF Proceed, UpdateWrite, SubmitWrite, SubmitPublish, McqResult, McqStatus, McqPublish,
           AiMark, AiResult, AiReturn, AiPublish, AiFallback,
           ManualResult, ManualStatus, ManualPublish
  <1>2. /\ a \in Attempts
        /\ Given(r) \in Answers \cup {None}
        /\ McqScore(Given(r)) \in Scores
        /\ Route(r) \in ReqPcs \ {"new", "man_result", "man_status", "man_publish"}
        /\ req[r].dto \in Answers \cup {None}
    BY <1>1, RequestType DEF TypeOK, ReqTypeOK, RequestState
  <1>3. ASSUME req[r].pc \in {"man_result", "man_status", "man_publish"}
        PROVE  req[r].score \in Scores
    BY <1>3 DEF TypeOK, ReqTypeOK
  <1>4. wk' = wk /\ tick' = tick /\ sent' = sent
    BY DEF Proceed, UpdateWrite, SubmitWrite, SubmitPublish, McqResult, McqStatus, McqPublish,
           AiMark, AiResult, AiReturn, AiPublish, AiFallback,
           ManualResult, ManualStatus, ManualPublish
  <1>5. ReqTypeOK'
    <2> USE <1>1, <1>2, <1>3, GotoType DEF TypeOK, ReqPcs, AiPcs, AiTry
    <2>1. CASE UpdateWrite(r) \/ SubmitWrite(r) \/ SubmitPublish(r)
      BY <2>1 DEF UpdateWrite, SubmitWrite, SubmitPublish
    <2>2. CASE McqResult(r) \/ McqStatus(r) \/ McqPublish(r)
      BY <2>2 DEF McqResult, McqStatus, McqPublish
    <2>3. CASE AiMark(r) \/ AiResult(r) \/ AiReturn(r) \/ AiPublish(r) \/ AiFallback(r)
      BY <2>3 DEF AiMark, AiResult, AiReturn, AiPublish, AiFallback
    <2>4. CASE ManualResult(r) \/ ManualStatus(r) \/ ManualPublish(r)
      BY <2>4 DEF ManualResult, ManualStatus, ManualPublish
    <2> QED BY <2>1, <2>2, <2>3, <2>4 DEF Proceed
  <1>6. AttemptTypeOK'
    <2> USE <1>2, <1>3 DEF TypeOK, AttemptTypeOK, AttemptRow, Answers
    <2> a \in Attempts /\ attempt[a] \in AttemptRow
      OBVIOUS
    <2>1. CASE UpdateWrite(r)
      BY <2>1 DEF UpdateWrite
    <2>2. CASE SubmitWrite(r)
      <3>1. PICK d \in Answers \cup {None} :
              attempt' = [attempt EXCEPT ![a].status = "submitted", ![a].answer = d]
        BY <2>2 DEF SubmitWrite
      <3> QED BY <3>1
    <2>3. CASE McqStatus(r)
      <3>1. PICK sc \in Scores :
              attempt' = [attempt EXCEPT ![a].status = "graded", ![a].score = sc]
        BY <2>3 DEF McqStatus
      <3> QED BY <3>1
    <2>4. CASE AiMark(r) \/ AiFallback(r)
      BY <2>4, SetStatusType DEF AiMark, AiFallback
    <2>5. CASE AiReturn(r)
      <3>1. PICK sc \in Scores :
              attempt' = [attempt EXCEPT ![a].status = "submitted", ![a].score = sc]
        BY <2>5, GradingAssumption DEF AiReturn, Scores
      <3> QED BY <3>1
    <2>6. CASE ManualStatus(r)
      BY <2>6 DEF ManualStatus
    <2>7. CASE attempt' = attempt
      BY <2>7
    <2> QED BY <2>1, <2>2, <2>3, <2>4, <2>5, <2>6, <2>7
            DEF Proceed, SubmitPublish, McqResult, McqPublish, AiResult, AiPublish,
                ManualResult, ManualPublish
  <1>7. ResultsTypeOK'
    <2> USE <1>2, <1>3, AddResultType DEF TypeOK
    <2>1. CASE McqResult(r)
      BY <2>1 DEF McqResult
    <2>2. CASE AiResult(r)
      BY <2>2, GradingAssumption DEF AiResult, Scores
    <2>3. CASE ManualResult(r)
      BY <2>3 DEF ManualResult
    <2>4. CASE results' = results
      BY <2>4 DEF ResultsTypeOK
    <2> QED BY <2>1, <2>2, <2>3, <2>4
            DEF Proceed, UpdateWrite, SubmitWrite, SubmitPublish, McqStatus, McqPublish,
                AiMark, AiReturn, AiPublish, AiFallback, ManualStatus, ManualPublish
  <1>8. QueueTypeOK' /\ DOMAIN queue \subseteq DOMAIN queue'
    <2> USE <1>2, <1>3
    <2>1. CASE SubmitPublish(r)
      BY <2>1, SubmissionType, PublishType DEF SubmitPublish
    <2>2. CASE McqPublish(r)
      BY <2>2, CompletionType, PublishType DEF McqPublish
    <2>3. CASE AiPublish(r)
      BY <2>3, SubmissionType, PublishType DEF AiPublish
    <2>4. CASE ManualPublish(r)
      BY <2>4, CompletionType, PublishType DEF ManualPublish
    <2>5. CASE queue' = queue
      BY <2>5 DEF TypeOK, QueueTypeOK
    <2> QED BY <2>1, <2>2, <2>3, <2>4, <2>5
            DEF Proceed, UpdateWrite, SubmitWrite, McqResult, McqStatus, AiMark, AiResult,
                AiReturn, AiFallback, ManualResult, ManualStatus
  <1> QED BY <1>4, <1>5, <1>6, <1>7, <1>8 DEF TypeOK, WorkerTypeOK, TickTypeOK

LEMMA RequestFailsTypes ==
  ASSUME TypeOK, NEW r \in Requests, RequestFails(r) PROVE TypeOK'
  <1>1. ReqTypeOK'
    BY GotoType DEF TypeOK, RequestFails, ReqPcs, AiPcs, AiTry
  <1> QED BY <1>1 DEF RequestFails, TypeOK, AttemptTypeOK, ResultsTypeOK, QueueTypeOK,
                     WorkerTypeOK, TickTypeOK

LEMMA WorkerTypes ==
  ASSUME TypeOK, NEW w \in Workers, WorkerStep(w) \/ WorkerFails(w) \/ WorkerCrash(w)
  PROVE  TypeOK'
  <1>1. UNCHANGED <<req, tick, sent>>
    BY DEF WorkerStep, WorkerPoll, WorkerMark, WorkerResult, WorkerGraded, WorkerPublish,
           WorkerAck, WorkerNack, WorkerFails, WorkerCrash
  <1>2. ASSUME wk[w].pc # "idle"
        PROVE  /\ Job(w) \in Event
               /\ wk[w].ev \in DOMAIN queue
               /\ Job(w).attempt \in Attempts
               /\ Job(w).student \in BOOLEAN
               /\ WorkerScore(Job(w)) \in Scores
    BY <1>2, JobType, WorkerScoreType DEF TypeOK, Event
  <1>3. AttemptTypeOK'
    <2>1. CASE WorkerMark(w)
      BY <1>2, <2>1, SetStatusType DEF WorkerMark, TypeOK
    <2>2. CASE WorkerGraded(w)
      BY <1>2, <2>2, SetStatusType DEF WorkerGraded, TypeOK
    <2>3. CASE attempt' = attempt
      BY <2>3 DEF TypeOK, AttemptTypeOK
    <2> QED BY <2>1, <2>2, <2>3
            DEF WorkerStep, WorkerPoll, WorkerResult, WorkerPublish, WorkerAck, WorkerNack,
                WorkerFails, WorkerCrash
  <1>4. ResultsTypeOK'
    <2>1. CASE WorkerResult(w)
      BY <1>2, <2>1, AddResultType DEF WorkerResult, TypeOK
    <2>2. CASE results' = results
      BY <2>2 DEF TypeOK, ResultsTypeOK
    <2> QED BY <2>1, <2>2
            DEF WorkerStep, WorkerPoll, WorkerMark, WorkerGraded, WorkerPublish, WorkerAck,
                WorkerNack, WorkerFails, WorkerCrash
  <1>5. QueueTypeOK' /\ DOMAIN queue \subseteq DOMAIN queue'
    <2>1. CASE WorkerPoll(w)
      BY <2>1, MarkType DEF WorkerPoll, Statuses
    <2>2. CASE WorkerPublish(w)
      BY <1>2, <2>2, CompletionType, PublishType DEF WorkerPublish
    <2>3. CASE WorkerAck(w)
      BY <1>2, <2>3, MarkType DEF WorkerAck, Statuses
    <2>4. CASE WorkerNack(w)
      BY <1>2, <2>4, MarkType DEF WorkerNack, Statuses
    <2>5. CASE queue' = queue
      BY <2>5 DEF TypeOK, QueueTypeOK
    <2> QED BY <2>1, <2>2, <2>3, <2>4, <2>5
            DEF WorkerStep, WorkerMark, WorkerResult, WorkerGraded, WorkerFails, WorkerCrash
  <1>6. WorkerTypeOK'
    <2> USE DEF TypeOK, WorkerTypeOK, WorkerPcs, Idle, WorkerGoto
    <2>1. CASE WorkerPoll(w)
      <3>1. PICK i \in DOMAIN queue : wk' = [wk EXCEPT ![w] = [pc |-> "mark", ev |-> i]]
        BY <2>1 DEF WorkerPoll
      <3>2. i \in Nat
        BY DEF QueueTypeOK
      <3> QED BY <1>5, <3>1, <3>2
    <2>2. CASE WorkerMark(w) \/ WorkerResult(w) \/ WorkerGraded(w) \/ WorkerPublish(w)
      BY <1>5, <2>2 DEF WorkerMark, WorkerResult, WorkerGraded, WorkerPublish
    <2>3. CASE WorkerAck(w) \/ WorkerNack(w) \/ WorkerCrash(w)
      <3>1. wk' = [wk EXCEPT ![w] = Idle]
        BY <2>3 DEF WorkerAck, WorkerNack, WorkerCrash
      <3>2. Idle \in [pc : WorkerPcs, ev : Nat] /\ Idle.pc = "idle"
        OBVIOUS
      <3> HIDE DEF Idle
      <3> QED BY <1>5, <3>1, <3>2
    <2>4. CASE WorkerFails(w)
      <3>1. CASE wk[w].pc = "nack"
        BY <1>5, <2>4, <3>1 DEF WorkerFails
      <3>2. CASE wk[w].pc # "nack"
        <4>1. wk' = [wk EXCEPT ![w] = [wk[w] EXCEPT !.pc = "nack"]]
          BY <2>4, <3>2 DEF WorkerFails
        <4>2. [wk[w] EXCEPT !.pc = "nack"] \in [pc : WorkerPcs, ev : Nat]
          OBVIOUS
        <4>3. wk[w].pc # "idle"
          BY <2>4 DEF WorkerFails
        <4>4. [wk[w] EXCEPT !.pc = "nack"].ev = wk[w].ev
          OBVIOUS
        <4> QED BY <1>5, <4>1, <4>2, <4>3, <4>4
      <3> QED BY <3>1, <3>2
    <2> QED BY <2>1, <2>2, <2>3, <2>4 DEF WorkerStep
  <1> QED BY <1>1, <1>3, <1>4, <1>5, <1>6 DEF TypeOK, ReqTypeOK, TickTypeOK

LEMMA TickTypes ==
  ASSUME TypeOK, NEW t \in Ticks, TickStep(t) \/ TickFails(t)
  PROVE  TypeOK'
  <1>1. UNCHANGED <<attempt, results, req, wk>>
    BY DEF TickStep, TickClaim, TickHandle, TickAck, TickNack, TickFails
  <1>2. ASSUME tick[t].pc # "idle" PROVE tick[t].ev \in DOMAIN queue /\ tick[t].ev \in Nat
    BY <1>2 DEF TypeOK, TickTypeOK
  <1>3. QueueTypeOK' /\ DOMAIN queue \subseteq DOMAIN queue'
    <2>1. CASE TickClaim(t)
      BY <2>1, MarkType DEF TickClaim, Statuses
    <2>2. CASE TickAck(t)
      BY <1>2, <2>2, MarkType DEF TickAck, Statuses
    <2>3. CASE TickNack(t)
      BY <1>2, <2>3, MarkType DEF TickNack, Statuses
    <2>4. CASE queue' = queue
      BY <2>4 DEF TypeOK, QueueTypeOK
    <2> QED BY <2>1, <2>2, <2>3, <2>4 DEF TickStep, TickHandle, TickFails
  <1>4. TickTypeOK'
    <2> USE DEF TypeOK, TickTypeOK, TickPcs, Idle
    <2>1. CASE TickClaim(t)
      <3>1. PICK i \in DOMAIN queue : tick' = [tick EXCEPT ![t] = [pc |-> "handle", ev |-> i]]
        BY <2>1 DEF TickClaim
      <3>2. i \in Nat
        BY DEF QueueTypeOK
      <3> QED BY <1>3, <3>1, <3>2
    <2>2. CASE TickHandle(t)
      BY <1>3, <2>2 DEF TickHandle
    <2>3. CASE TickAck(t) \/ TickNack(t)
      <3>1. tick' = [tick EXCEPT ![t] = Idle]
        BY <2>3 DEF TickAck, TickNack
      <3>2. Idle \in [pc : TickPcs, ev : Nat] /\ Idle.pc = "idle"
        OBVIOUS
      <3> HIDE DEF Idle
      <3> QED BY <1>3, <3>1, <3>2
    <2>4. CASE TickFails(t)
      <3>1. CASE tick[t].pc = "nack"
        BY <1>3, <2>4, <3>1 DEF TickFails
      <3>2. CASE tick[t].pc # "nack"
        <4>1. tick' = [tick EXCEPT ![t] = [tick[t] EXCEPT !.pc = "nack"]]
          BY <2>4, <3>2 DEF TickFails
        <4>2. [tick[t] EXCEPT !.pc = "nack"] \in [pc : TickPcs, ev : Nat]
          OBVIOUS
        <4>3. tick[t].pc # "idle"
          BY <2>4 DEF TickFails
        <4>4. [tick[t] EXCEPT !.pc = "nack"].ev = tick[t].ev
          OBVIOUS
        <4> QED BY <1>3, <4>1, <4>2, <4>3, <4>4
      <3> QED BY <3>1, <3>2
    <2> QED BY <2>1, <2>2, <2>3, <2>4 DEF TickStep
  <1>5. sent' \in Seq(Nat)
    BY <1>2 DEF TypeOK, TickStep, TickClaim, TickHandle, TickAck, TickNack, TickFails
  <1> QED BY <1>1, <1>3, <1>4, <1>5
          DEF TypeOK, AttemptTypeOK, ResultsTypeOK, ReqTypeOK, WorkerTypeOK

LEMMA ApiCrashTypes ==
  ASSUME TypeOK, ApiCrash PROVE TypeOK'
  <1>1. ReqTypeOK'
    <2>1. ASSUME NEW r \in Requests
          PROVE  /\ req'[r] \in RequestState
                 /\ req'[r].pc # "new" => req'[r].on \in Attempts
                 /\ req'[r].pc \in {"man_result", "man_status", "man_publish"}
                      => req'[r].score \in Scores
      <3>1. /\ req[r] \in RequestState
            /\ req'[r] = IF req[r].pc \in {"new", "left"} THEN req[r] ELSE [req[r] EXCEPT !.pc = "done"]
        BY DEF TypeOK, ReqTypeOK, ApiCrash
      <3> QED BY <3>1 DEF TypeOK, ReqTypeOK, RequestState, ReqPcs
    <2>2. DOMAIN req' = Requests /\ req' = [r \in Requests |-> req'[r]]
      BY DEF ApiCrash
    <2> QED BY <2>1, <2>2 DEF ReqTypeOK
  <1>2. TickTypeOK'
    BY DEF TypeOK, TickTypeOK, ApiCrash, TickPcs, Idle
  <1> QED BY <1>1, <1>2
          DEF ApiCrash, TypeOK, AttemptTypeOK, ResultsTypeOK, QueueTypeOK, WorkerTypeOK

LEMMA NextTypes == TypeOK /\ [Next]_vars => TypeOK'
  <1> SUFFICES ASSUME TypeOK, [Next]_vars PROVE TypeOK'
    OBVIOUS
  <1>1. CASE UNCHANGED vars
    BY <1>1 DEF vars, TypeOK, AttemptTypeOK, ResultsTypeOK, QueueTypeOK, ReqTypeOK,
                WorkerTypeOK, TickTypeOK
  <1> QED BY <1>1, CreateTypes, ArriveTypes, ProceedTypes, RequestFailsTypes, WorkerTypes,
             TickTypes, ApiCrashTypes DEF Next

LEMMA InitTypes == Init => TypeOK
  BY DEF Init, TypeOK, AttemptTypeOK, AttemptRow, ResultsTypeOK, QueueTypeOK, ReqTypeOK,
         RequestState, NewRequest, ReqPcs, WorkerTypeOK, WorkerPcs, TickTypeOK, TickPcs, Idle

(* The tables hold rows of their types, every score is between 0 and the   *)
(* maximum, and every execution works on an attempt and a row that exist.  *)
THEOREM TypeCorrect == Spec => []TypeOK
  BY InitTypes, NextTypes, PTL DEF Spec
-----------------------------------------------------------------------------
(* The pipeline implements EventQueue: every step of it publishes, claims, *)
(* settles, lets go of rows or leaves the table alone.                     *)

LEMMA InitRefines == Init => EQ!Init
  BY GradingAssumption DEF Init, EQ!Init, RowView, Holds, Idle

(* Publishing shows as one more pending row.                               *)
LEMMA PublishView ==
  ASSUME TypeOK, NEW e \in Event, e.status = "pending", Publish(e)
  PROVE  RowView' = Append(RowView, [topic |-> e.topic, src |-> e.src, status |-> "pending"])
  <1>1. queue \in Seq(Event)
    BY DEF TypeOK, QueueTypeOK
  <1> DEFINE v == [topic |-> e.topic, src |-> e.src, status |-> "pending"]
  <1>2. /\ queue' = Append(queue, e)
        /\ Len(queue') = Len(queue) + 1
        /\ DOMAIN queue' = 1 .. Len(queue) + 1
        /\ \A i \in 1 .. Len(queue) : queue'[i] = queue[i]
        /\ queue'[Len(queue) + 1] = e
    BY <1>1 DEF Publish
  <1>3. RowView \in Seq({[topic |-> x.topic, src |-> x.src, status |-> x.status] : x \in Event})
    BY <1>1 DEF RowView
  <1>4. Len(RowView) = Len(queue) /\ DOMAIN RowView = 1 .. Len(queue)
    BY <1>1 DEF RowView
  <1>5. /\ DOMAIN Append(RowView, v) = 1 .. Len(queue) + 1
        /\ \A i \in 1 .. Len(queue) : Append(RowView, v)[i] = RowView[i]
        /\ Append(RowView, v)[Len(queue) + 1] = v
        /\ Append(RowView, v) = [i \in 1 .. Len(queue) + 1 |-> Append(RowView, v)[i]]
    BY <1>3, <1>4
  <1>6. RowView' = [i \in 1 .. Len(queue) + 1 |->
                     [topic |-> queue'[i].topic, src |-> queue'[i].src,
                      status |-> queue'[i].status]]
    BY <1>2 DEF RowView
  <1>7. \A i \in 1 .. Len(queue) + 1 :
          Append(RowView, v)[i] = [topic |-> queue'[i].topic, src |-> queue'[i].src,
                                   status |-> queue'[i].status]
    BY <1>1, <1>2, <1>4, <1>5 DEF RowView
  <1> QED BY <1>5, <1>6, <1>7

(* Marking a row shows as the same change of that row's status.            *)
LEMMA MarkView ==
  ASSUME TypeOK, NEW i \in DOMAIN queue, NEW s \in Statuses, Mark(i, s)
  PROVE  RowView' = [RowView EXCEPT ![i].status = s]
  <1>1. queue \in Seq(Event) /\ DOMAIN queue' = DOMAIN queue
    BY MarkType DEF TypeOK, QueueTypeOK
  <1>2. \A j \in DOMAIN queue : /\ queue'[j].topic = queue[j].topic
                                /\ queue'[j].src = queue[j].src
                                /\ queue'[j].status = IF j = i THEN s ELSE queue[j].status
    BY <1>1 DEF Mark, Event
  <1> QED BY <1>1, <1>2 DEF RowView

LEMMA SameView == ASSUME UNCHANGED queue PROVE UNCHANGED RowView
  BY DEF RowView

LEMMA SameHolds == ASSUME UNCHANGED <<wk, tick>> PROVE UNCHANGED Holds
  BY DEF Holds

(* The rest of a worker's or of a poller's step shows as Holds changing at *)
(* one consumer, or not at all.                                            *)
LEMMA WorkerHolds ==
  ASSUME NEW w \in Workers, TypeOK, NEW s, wk' = [wk EXCEPT ![w] = s], UNCHANGED tick
  PROVE  Holds' = [Holds EXCEPT ![w] = IF s.pc = "idle" THEN 0 ELSE s.ev]
  BY GradingAssumption DEF Holds, TypeOK, WorkerTypeOK

LEMMA TickHolds ==
  ASSUME NEW t \in Ticks, TypeOK, NEW s, tick' = [tick EXCEPT ![t] = s], UNCHANGED wk
  PROVE  Holds' = [Holds EXCEPT ![t] = IF s.pc = "idle" THEN 0 ELSE s.ev]
  BY GradingAssumption DEF Holds, TypeOK, TickTypeOK
LEMMA WorkerTakes ==
  ASSUME NEW w \in Workers, TypeOK, NEW i,
         wk' = [wk EXCEPT ![w] = [pc |-> "mark", ev |-> i]], UNCHANGED tick
  PROVE  Holds' = [Holds EXCEPT ![w] = i]
  BY GradingAssumption DEF Holds, TypeOK, WorkerTypeOK

LEMMA WorkerReleases ==
  ASSUME NEW w \in Workers, TypeOK, wk' = [wk EXCEPT ![w] = Idle], UNCHANGED tick
  PROVE  Holds' = [Holds EXCEPT ![w] = 0]
  BY GradingAssumption DEF Holds, TypeOK, WorkerTypeOK, Idle

LEMMA TickTakes ==
  ASSUME NEW t \in Ticks, TypeOK, NEW i,
         tick' = [tick EXCEPT ![t] = [pc |-> "handle", ev |-> i]], UNCHANGED wk
  PROVE  Holds' = [Holds EXCEPT ![t] = i]
  BY GradingAssumption DEF Holds, TypeOK, TickTypeOK

LEMMA TickReleases ==
  ASSUME NEW t \in Ticks, TypeOK, tick' = [tick EXCEPT ![t] = Idle], UNCHANGED wk
  PROVE  Holds' = [Holds EXCEPT ![t] = 0]
  BY GradingAssumption DEF Holds, TypeOK, TickTypeOK, Idle

LEMMA PublishRefines ==
  ASSUME TypeOK, NEW e \in Event, e.status = "pending", Publish(e), UNCHANGED Holds
  PROVE  EQ!Publish
  BY PublishView DEF EQ!Publish, Event

LEMMA OldestView ==
  ASSUME NEW i \in DOMAIN queue, NEW topic, Oldest(topic, i), queue \in Seq(Event)
  PROVE  /\ i \in DOMAIN RowView
         /\ RowView[i].status = "pending"
         /\ EQ!Oldest(i)
  BY DEF Oldest, RowView, EQ!Oldest

LEMMA ClaimRefines ==
  ASSUME TypeOK, NEW c \in Workers \cup Ticks, Holds[c] = 0,
         NEW i \in DOMAIN queue, NEW topic, Oldest(topic, i), Mark(i, "processing"),
         Holds' = [Holds EXCEPT ![c] = i]
  PROVE  EQ!Claim
  BY OldestView, MarkView DEF EQ!Claim, Statuses, TypeOK, QueueTypeOK

LEMMA SettleRefines ==
  ASSUME TypeOK, NEW c \in Workers \cup Ticks, Holds[c] \in DOMAIN queue, Holds[c] # 0,
         NEW s \in {"processed", "failed"}, Mark(Holds[c], s),
         Holds' = [Holds EXCEPT ![c] = 0]
  PROVE  EQ!Settle
  BY MarkView DEF EQ!Settle, Statuses

LEMMA WorkerStepRefines ==
  ASSUME TypeOK, NEW w \in Workers, WorkerStep(w) \/ WorkerFails(w) \/ WorkerCrash(w)
  PROVE  [EQ!Next]_(EQ!vars)
  <1>1. /\ Holds[w] = IF wk[w].pc = "idle" THEN 0 ELSE wk[w].ev
        /\ wk[w].pc # "idle" => wk[w].ev \in DOMAIN queue /\ wk[w].ev # 0
    BY DEF Holds, TypeOK, WorkerTypeOK, QueueTypeOK
  <1>2. wk[w] \in [pc : WorkerPcs, ev : Nat] /\ wk \in [Workers -> [pc : WorkerPcs, ev : Nat]]
    BY DEF TypeOK, WorkerTypeOK
  <1>3. UNCHANGED tick
    BY DEF WorkerStep, WorkerPoll, WorkerMark, WorkerResult, WorkerGraded, WorkerPublish,
           WorkerAck, WorkerNack, WorkerFails, WorkerCrash
  <1>4. ASSUME NEW pc \in WorkerPcs \ {"idle"}, wk[w].pc # "idle",
               wk' = [wk EXCEPT ![w].pc = pc]
        PROVE  UNCHANGED Holds
    <2> DEFINE s == [wk[w] EXCEPT !.pc = pc]
    <2>1. s.pc = pc /\ s.ev = wk[w].ev /\ wk' = [wk EXCEPT ![w] = s]
      BY <1>2, <1>4
    <2> HIDE DEF s
    <2>2. Holds' = [Holds EXCEPT ![w] = IF s.pc = "idle" THEN 0 ELSE s.ev]
      BY <1>3, <2>1, WorkerHolds
    <2>3. Holds' = [Holds EXCEPT ![w] = Holds[w]]
      BY <1>1, <1>4, <2>1, <2>2
    <2> QED BY <2>3 DEF Holds
  <1>5. CASE WorkerPoll(w)
    <2>1. PICK i \in DOMAIN queue :
            /\ Oldest("grade_submission", i)
            /\ Mark(i, "processing")
            /\ wk' = [wk EXCEPT ![w] = [pc |-> "mark", ev |-> i]]
      BY <1>5 DEF WorkerPoll
    <2>2. Holds' = [Holds EXCEPT ![w] = i]
      BY <1>3, <2>1, WorkerTakes
    <2>3. Holds[w] = 0
      BY <1>1, <1>5 DEF WorkerPoll
    <2> QED BY <2>1, <2>2, <2>3, ClaimRefines DEF EQ!Next
  <1>6. CASE WorkerMark(w) \/ WorkerResult(w) \/ WorkerGraded(w)
    <2>1. UNCHANGED Holds
      BY <1>4, <1>6 DEF WorkerMark, WorkerResult, WorkerGraded, WorkerGoto, WorkerPcs
    <2>2. UNCHANGED RowView
      BY <1>6, SameView DEF WorkerMark, WorkerResult, WorkerGraded
    <2> QED BY <2>1, <2>2 DEF EQ!vars
  <1>7. CASE WorkerPublish(w)
    <2>1. UNCHANGED Holds
      BY <1>4, <1>7 DEF WorkerPublish, WorkerGoto, WorkerPcs
    <2>2. PICK e \in Event : e.status = "pending" /\ Publish(e)
      <3>1. /\ Job(w).attempt \in Attempts
            /\ Job(w).student \in BOOLEAN
            /\ WorkerScore(Job(w)) \in Scores
        BY <1>7, JobType, WorkerScoreType DEF WorkerPublish, TypeOK, Event
      <3> QED BY <1>7, <3>1, CompletionType DEF WorkerPublish, Completion
    <2> QED BY <2>1, <2>2, PublishRefines DEF EQ!Next
  <1>8. CASE WorkerAck(w) \/ WorkerNack(w)
    <2>1. PICK s \in {"processed", "failed"} : Mark(wk[w].ev, s)
      BY <1>8 DEF WorkerAck, WorkerNack
    <2>2. wk[w].pc # "idle" /\ wk' = [wk EXCEPT ![w] = Idle]
      BY <1>8 DEF WorkerAck, WorkerNack
    <2>3. Holds' = [Holds EXCEPT ![w] = 0]
      BY <1>3, <2>2, WorkerReleases
    <2> QED BY <1>1, <2>1, <2>2, <2>3, SettleRefines DEF EQ!Next
  <1>9. ASSUME UNCHANGED queue, wk' = [wk EXCEPT ![w] = Idle]
        PROVE  EQ!LetGo
    <2>1. Holds' = [Holds EXCEPT ![w] = 0]
      BY <1>3, <1>9, WorkerReleases
    <2>2. Holds' = [c \in Workers \cup Ticks |-> IF c \in {w} THEN 0 ELSE Holds[c]]
      BY <2>1 DEF Holds
    <2>3. UNCHANGED RowView
      BY <1>9, SameView
    <2> QED BY <2>2, <2>3 DEF EQ!LetGo
  <1>10. CASE WorkerFails(w)
    <2>1. CASE wk[w].pc = "nack"
      BY <1>9, <1>10, <2>1 DEF WorkerFails, EQ!Next
    <2>2. CASE wk[w].pc # "nack"
      <3>1. wk' = [wk EXCEPT ![w].pc = "nack"]
        BY <1>10, <2>2 DEF WorkerFails
      <3>2. UNCHANGED Holds
        BY <1>4, <1>10, <3>1 DEF WorkerFails, WorkerPcs
      <3> QED BY <1>10, <3>2, SameView DEF WorkerFails, EQ!vars
    <2> QED BY <2>1, <2>2
  <1>11. CASE WorkerCrash(w)
    BY <1>9, <1>11 DEF WorkerCrash, EQ!Next
  <1> QED BY <1>5, <1>6, <1>7, <1>8, <1>10, <1>11 DEF WorkerStep

LEMMA TickStepRefines ==
  ASSUME TypeOK, NEW t \in Ticks, TickStep(t) \/ TickFails(t)
  PROVE  [EQ!Next]_(EQ!vars)
  <1>1. /\ Holds[t] = IF tick[t].pc = "idle" THEN 0 ELSE tick[t].ev
        /\ tick[t].pc # "idle" => tick[t].ev \in DOMAIN queue /\ tick[t].ev # 0
    BY GradingAssumption DEF Holds, TypeOK, TickTypeOK, QueueTypeOK
  <1>2. tick[t] \in [pc : TickPcs, ev : Nat] /\ tick \in [Ticks -> [pc : TickPcs, ev : Nat]]
    BY DEF TypeOK, TickTypeOK
  <1>3. UNCHANGED wk
    BY DEF TickStep, TickClaim, TickHandle, TickAck, TickNack, TickFails
  <1>4. ASSUME NEW pc \in TickPcs \ {"idle"}, tick[t].pc # "idle",
               tick' = [tick EXCEPT ![t].pc = pc]
        PROVE  UNCHANGED Holds
    <2> DEFINE s == [tick[t] EXCEPT !.pc = pc]
    <2>1. s.pc = pc /\ s.ev = tick[t].ev /\ tick' = [tick EXCEPT ![t] = s]
      BY <1>2, <1>4
    <2> HIDE DEF s
    <2>2. Holds' = [Holds EXCEPT ![t] = IF s.pc = "idle" THEN 0 ELSE s.ev]
      BY <1>3, <2>1, TickHolds
    <2>3. Holds' = [Holds EXCEPT ![t] = Holds[t]]
      BY <1>1, <1>4, <2>1, <2>2
    <2> QED BY <2>3 DEF Holds
  <1>5. CASE TickClaim(t)
    <2>1. PICK i \in DOMAIN queue :
            /\ Oldest("grade_completed", i)
            /\ Mark(i, "processing")
            /\ tick' = [tick EXCEPT ![t] = [pc |-> "handle", ev |-> i]]
      BY <1>5 DEF TickClaim
    <2>2. Holds' = [Holds EXCEPT ![t] = i]
      BY <1>3, <2>1, TickTakes
    <2>3. Holds[t] = 0
      BY <1>1, <1>5 DEF TickClaim
    <2> QED BY <2>1, <2>2, <2>3, ClaimRefines DEF EQ!Next
  <1>6. CASE TickHandle(t)
    <2>1. UNCHANGED Holds
      BY <1>4, <1>6 DEF TickHandle, TickPcs
    <2> QED BY <1>6, <2>1, SameView DEF TickHandle, EQ!vars
  <1>7. CASE TickAck(t) \/ TickNack(t)
    <2>1. PICK s \in {"processed", "failed"} : Mark(tick[t].ev, s)
      BY <1>7 DEF TickAck, TickNack
    <2>2. tick[t].pc # "idle" /\ tick' = [tick EXCEPT ![t] = Idle]
      BY <1>7 DEF TickAck, TickNack
    <2>3. Holds' = [Holds EXCEPT ![t] = 0]
      BY <1>3, <2>2, TickReleases
    <2> QED BY <1>1, <2>1, <2>2, <2>3, SettleRefines DEF EQ!Next
  <1>8. CASE TickFails(t)
    <2>1. CASE tick[t].pc = "nack"
      <3>1. tick' = [tick EXCEPT ![t] = Idle]
        BY <1>8, <2>1 DEF TickFails
      <3>2. Holds' = [Holds EXCEPT ![t] = 0]
        BY <1>3, <3>1, TickReleases
      <3>3. Holds' = [c \in Workers \cup Ticks |-> IF c \in {t} THEN 0 ELSE Holds[c]]
        BY <3>2 DEF Holds
      <3> QED BY <1>8, <3>3, SameView DEF TickFails, EQ!LetGo, EQ!Next
    <2>2. CASE tick[t].pc # "nack"
      <3>1. tick' = [tick EXCEPT ![t].pc = "nack"]
        BY <1>8, <2>2 DEF TickFails
      <3>2. UNCHANGED Holds
        BY <1>4, <1>8, <3>1 DEF TickFails, TickPcs
      <3> QED BY <1>8, <3>2, SameView DEF TickFails, EQ!vars
    <2> QED BY <2>1, <2>2
  <1> QED BY <1>5, <1>6, <1>7, <1>8 DEF TickStep

LEMMA RequestStepRefines ==
  ASSUME TypeOK, NEW r \in Requests, Arrive(r) \/ Proceed(r) \/ RequestFails(r)
  PROVE  [EQ!Next]_(EQ!vars)
  <1>1. UNCHANGED <<wk, tick>>
    BY DEF Arrive, UpdateRead, SubmitRead, ManualRead, Proceed, UpdateWrite, SubmitWrite,
           SubmitPublish, McqResult, McqStatus, McqPublish, AiMark, AiResult, AiReturn,
           AiPublish, AiFallback, ManualResult, ManualStatus, ManualPublish, RequestFails
  <1>2. UNCHANGED Holds
    BY <1>1, SameHolds
  <1>3. ASSUME NEW e \in Event, e.status = "pending", Publish(e) PROVE EQ!Next
    BY <1>2, <1>3, PublishRefines DEF EQ!Next
  <1>4. CASE SubmitPublish(r) \/ AiPublish(r)
    <2>1. req[r].on \in Attempts /\ Given(r) \in Answers \cup {None}
      BY <1>4, RequestType DEF TypeOK, SubmitPublish, AiPublish
    <2> QED BY <1>3, <1>4, <2>1, SubmissionType DEF SubmitPublish, AiPublish, Submission
  <1>5. CASE McqPublish(r) \/ ManualPublish(r)
    <2>1. req[r].on \in Attempts /\ McqScore(Given(r)) \in Scores
      BY <1>5, RequestType DEF TypeOK, McqPublish, ManualPublish
    <2>2. ManualPublish(r) => req[r].score \in Scores
      BY DEF ManualPublish, TypeOK, ReqTypeOK
    <2> QED BY <1>3, <1>5, <2>1, <2>2, CompletionType DEF McqPublish, ManualPublish, Completion
  <1>6. CASE UNCHANGED queue
    BY <1>2, <1>6, SameView DEF EQ!vars
  <1> QED BY <1>4, <1>5, <1>6
          DEF Arrive, UpdateRead, SubmitRead, ManualRead, Proceed, UpdateWrite, SubmitWrite,
              McqResult, McqStatus, AiMark, AiResult, AiReturn, AiFallback, ManualResult,
              ManualStatus, RequestFails

LEMMA ApiCrashRefines ==
  ASSUME TypeOK, ApiCrash PROVE [EQ!Next]_(EQ!vars)
  <1>1. Holds' = [c \in Workers \cup Ticks |-> IF c \in Ticks THEN 0 ELSE Holds[c]]
    BY GradingAssumption DEF ApiCrash, Holds, Idle
  <1>2. UNCHANGED RowView
    BY SameView DEF ApiCrash
  <1> QED BY <1>1, <1>2 DEF EQ!LetGo, EQ!Next

LEMMA NextRefines == TypeOK /\ [Next]_vars => [EQ!Next]_(EQ!vars)
  <1> SUFFICES ASSUME TypeOK, [Next]_vars PROVE [EQ!Next]_(EQ!vars)
    OBVIOUS
  <1>1. CASE UNCHANGED <<queue, wk, tick>>
    BY <1>1, SameView, SameHolds DEF EQ!vars
  <1>2. CASE \E a \in Attempts : Create(a)
    BY <1>1, <1>2 DEF Create
  <1>3. CASE UNCHANGED vars
    BY <1>1, <1>3 DEF vars
  <1> QED BY <1>2, <1>3, RequestStepRefines, WorkerStepRefines, TickStepRefines, ApiCrashRefines
          DEF Next

(* Whatever requests, workers and poller executions there are, the grading *)
(* pipeline keeps the promises of EventQueue.                              *)
THEOREM Refinement == Spec => UsesEventQueue
  <1>1. TypeOK /\ [Next]_vars => [EQ!Next]_(EQ!vars)
    BY NextRefines
  <1> QED BY <1>1, InitRefines, TypeCorrect, PTL DEF Spec, UsesEventQueue, EQ!Spec

(* No event is handled by two workers or two poll() calls at once.         *)
THEOREM HandledAloneAlways == Spec => []HandledAlone
  BY Refinement, EQ!HeldAloneAlways, PTL DEF UsesEventQueue, HandledAlone

(* No event is retried or settled twice: its row moves from pending to     *)
(* processing to processed or failed and no other way.                     *)
THEOREM EventsOnlyForward == Spec => EQ!OnlyForward
  BY Refinement, EQ!OnlyForwardAlways DEF UsesEventQueue

(* While nothing fails, the completions of the worker are claimed in the   *)
(* order in which it published them, and so are those of the API: the      *)
(* newest grade a grader gave a student is never overtaken by an older one *)
(* of its own.                                                             *)
THEOREM EventsInOrder == Faults = {} => (Spec => []EQ!ClaimedInOrder)
  <1> SUFFICES ASSUME Faults = {} PROVE Spec => []EQ!ClaimedInOrder
    OBVIOUS
  <1>1. EQ!Spec => []EQ!ClaimedInOrder
    BY EQ!ClaimedInOrderAlways
  <1> QED BY <1>1, Refinement, PTL DEF UsesEventQueue
=============================================================================
