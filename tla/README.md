# A TLA+ development of GALS

GALS is a tutoring system: a NestJS API (`apps/api`), Python workers
(`apps/worker`, `apps/pyfeat-worker`, `apps/openface3-worker`), a React client
(`apps/web`), PostgreSQL, Redis and a blob store. Nearly everything that can go
wrong in it without a unit test noticing goes wrong *between* two awaited calls:
requests that overlap, timers that fire again before the last run has ended,
workers that die with a job in their hands, rows whose status was checked a
moment ago. These modules model that part of the program.

All source paths below are relative to the repository.

## 1. The system

### Components, state, operations

| component | state | operations | what makes it correct |
|---|---|---|---|
| attempts (`apps/api/src/attempts`) | `attempts`, `grading_results` | create, update, submit (with MCQ grading or the detached AI trigger), manual grade | an attempt is submitted once and graded on the answer it keeps; a grade always has a result behind it |
| event bus (`apps/api/src/event-bus`, `packages/shared/src/event-bus.ts`) | `event_queue` | publish, poll and process | a row is handled by one consumer, settled at most once, never put back |
| grade-completed poller (`apps/api/src/grading`) | nothing of its own | poll every 2 s, emit to the student's room | a student is told of each completion once |
| grading worker (`apps/worker/app`) | nothing of its own | poll, grade, publish the completion | what it acknowledges has been graded |
| pre-generation (`apps/api/src/pre-generation`) | `pre_generated_exercises` | backfill, process one pending, regenerate | an exercise is generated by one run and ends done or in error |
| recording, OpenFace3, Py-Feat (`apps/api/src/{recording,openface3,pyfeat}`, `apps/*-worker`) | segments, job rows, two Redis lists, frames | complete a segment, enqueue, retry, backfill, process | a job is processed once and its status says what happened to it |
| dialogue and guides (`apps/api/src/dialogue`) | guides, notes, messages | chat, publish a guide request, poll every 3 s | the student learns whether the guide is ready |
| sessions and activity log (`apps/api/src/activity-log`) | sessions, log rows, summaries | open, close, record, summarise | a session is closed once |
| LLM usage and quota (`apps/api/src/rag`) | usage rows, a Redis counter per user and day | check, call, record | the cap is exceeded by at most what is in flight, and the day that reaches it is reported |
| code decomposition (`apps/api/src/code-decomposition`) | one JSON session per row: a tree of steps, the code, counters | infer, check, add, edit, delete, reorder, hint, reveal, show, adopt, advance, sync, match, complete | no step is left without its parent; help is earned; what passes is what was judged |
| RAG and student RAG | documents, chunks, embeddings | index, retrieve | a document ends indexed or in error |
| learning interventions (`apps/api/src/learning-interventions`) | interventions (one JSON session per row), spaced-repetition cards | check a step, advance, ask, complete, submit a test, rate a card | steps are passed in order and only when earned; results belong to the answers; a known card comes later each time |
| page content | versions | edit, publish | one published version per page |
| the rest | single rows | create, read, update, delete | ownership checks; not modelled |

`PROJECT.json` lists every component with its status, and under `hazards` the
places where the code is hard to test, each at its line.

### How they interact

```
 student ── submit ──> attempts ──publish(grade_submission)──> event_queue
 teacher ── grade  ──>    │                                      │  ^
                          │ MCQ, manual: publish(grade_completed) │  │ grade_completed
                          └──────────────────────────────────────┤  │
                                                   grading worker <──┘
 student <── socket ── GradeCompletedPoller <── grade_completed ── event_queue
```

Every handler is a sequence of awaited database calls and holds no lock across
them. The event queue is the only place where a row is claimed atomically
(`FOR UPDATE SKIP LOCKED`, in both the TypeScript and the Python consumer).

### What is hard

* overlapping requests on one attempt: a double submit, an autosave that
  overlaps a submit, a teacher who grades while the AI trigger still runs;
* `setInterval` does not wait for the last `poll()`, so consumers overlap
  inside one process as well as across processes;
* the API and the worker stamp `created_at` with their own clocks;
* each handler writes result, status and event in separate calls: any of them
  may fail, and either process may die in between;
* an event that is claimed and not settled is never claimed again;
* the id of an analysis job is on the Redis list or in a thread's memory, and its
  status in the database: every step that moves one does not move the other;
* a retry or a reset checks a row in one call and writes it by id in the next;
* a session is one JSON value: a handler reads it, asks a language model for
  seconds and writes the whole value back, over whatever was written meanwhile;
* the cost of a call is known after the call, and may fall on another day.

## 2. Modules

| module | kind | models |
|---|---|---|
| `EventQueue` | abstract | `event_queue` as its users rely on it: publish, claim the oldest, settle, let go; with its theorems |
| `Grading` | detailed | attempts, results, the queue, API requests, the worker and the poller |
| `MCGrading` | model checking | small sets and the symmetry of `Grading` |
| `JobLifecycle` | abstract | what a table of background jobs promises: submit, claim, settle, abandon, put back, remove; with its theorems |
| `PreGeneration` | detailed | the table of pre-generated exercises, the timer that works on it, backfill and teacher requests |
| `MCPreGeneration` | model checking | small sets and the symmetry of `PreGeneration` |
| `PreGeneration_proofs` | proofs | the safety of `PreGeneration`, its queue, and its refinement of `JobLifecycle` |
| `Openface3Jobs` | detailed | one recorded segment: the upload's completion, the analysis job, the Redis list, retries, backfill, the worker's threads, the stored frames |
| `MCOpenface3Jobs` | model checking | small sets and the symmetry of `Openface3Jobs` |
| `Openface3Jobs_proofs` | proofs | the safety of `Openface3Jobs` and its refinement of `JobLifecycle` |
| `Grading_proofs` | proofs | type correctness, the refinement of `EventQueue` and what follows from it: `HandledAlone`, the order and the statuses of events |
| `GradingResults_proofs` | proofs | results, grades and notifications; what `Serial` adds; what is never forgotten, blocked or failed |
| `CodeDecomposition` | detailed | the session of one guided decomposition and every handler that writes it |
| `MCCodeDecomposition` | model checking | small sets and the symmetry of `CodeDecomposition` |
| `CodeDecomposition_proofs` | proofs | the safety of `CodeDecomposition` |
| `LlmQuota` | detailed, extended by its users | the daily spend cap around every call of the language model |
| `SpacedRepetition` | pure functions | the SM-2 scheduler of flashcards |
| `LearningSessions` | composition | one learning intervention and one card, on `LlmQuota` and `SpacedRepetition` |
| `MCLearningSessions` | model checking | small sets and the symmetry of `LearningSessions` |
| `LearningSessions_proofs` | proofs | the safety of `LlmQuota`, `SpacedRepetition` and `LearningSessions` |

### EventQueue

State: `row`, the sequence of rows with topic, publisher and status, and
`holds`, the row each consumer works on (0 for none). `Publish` appends a
pending row; `Claim` takes the oldest pending row of a topic *of one
publisher*, because only rows stamped by one clock are ordered (`worker` is one
clock here; several worker processes on several hosts would be several
publishers). `SKIP LOCKED` may pass over a row that another claim has locked and
then gives back, when that claim fails: `Skips = TRUE` allows it. `Settle` makes
it processed or failed; `LetGo` is a consumer that dies, or whose call to
settle fails: the row stays in processing. `HeldAlone` says that two consumers
never hold one row; `OnlyForward` that a row only ever moves from pending to
processing to its outcome; `ClaimedInOrder` that of one publisher's rows of one
topic the older is claimed first, unless `Skips`.

### Grading

One action is one database call together with the code that runs up to the next
await; this is the granularity at which Node interleaves handlers. A worker
step is one transaction of `app/db.py`.

| variable | code |
|---|---|
| `attempt[a]` | the row of `attempts`: status, the question's kind, the answer, `current_score` |
| `results[a]` | the rows of `grading_results` of the attempt |
| `queue` | the rows of `event_queue`, in the order of insertion |
| `req[r]` | an API request: where it stands, what it read, what its body said |
| `wk[w]` | one `EventLoop` of the worker, with the event it holds |
| `tick[t]` | one execution of `GradeCompletedPoller.poll()` |
| `sent` | the messages emitted to students |

| actions | code |
|---|---|
| `Create` | `AttemptsService.create` |
| `UpdateRead`, `UpdateWrite` | `update`: the check, then the unconditional write |
| `SubmitRead`, `SubmitWrite`, `SubmitPublish` | `submit`: the check, the write, and for open questions the event |
| `McqResult`, `McqStatus`, `McqPublish` | `autoGradeMCQ` |
| `AiMark`, `AiResult`, `AiReturn`, `AiPublish`, `AiFallback` | `triggerAiGrading`, which is not awaited |
| `ManualRead`, `ManualResult`, `ManualStatus`, `ManualPublish` | `manualGrade` |
| `WorkerPoll` ... `WorkerAck`, `WorkerNack` | `_poll_loop` and `process_grading_event` |
| `TickClaim`, `TickHandle`, `TickAck`, `TickNack` | `poll` through `pollAndProcess` |
| `RequestFails`, `WorkerFails`, `TickFails` | the awaited call throws; the handler's `catch` decides where it goes on |
| `ApiCrash`, `WorkerCrash` | a process dies and is restarted; what it held in memory is gone |

Abstractions. An answer is the number of points its content earns, so "the
answer" and "the score it deserves" need no text. An mcq answer may earn less than
nothing, which `autoGradeMCQ` counts as 0, and more than the maximum: the sum of
partial credit counts a repeated id again (lines 368-379) and no schema asks for
distinct ids, so such a score is stored and published. Scores are any naturals
in the module; `MaxChosen` bounds what an mcq answer earns in a run. A teacher's
score is checked against the maximum. The kinds of question are the
branches of `submit()`, of `triggerAiGrading()` (`stray`: an AI question without a
course) and of the grader. `answerKey.maxScore` is taken equal to
the question's `maxScore`. A failed call has no
effect (a commit whose acknowledgement is lost is not modelled). An AI question without an answer or without a course is left to the teacher: the
trigger returns at once, and its request stays `left`, which is history and no longer a
handler. The mastery
update after grading reads tables that the migrations dropped; the worker
swallows its exception, so it changes nothing. When the code gains a second API
process, it adds ticks and requests of the same kind.

### JobLifecycle

State: `state` of each job and `holder`, the job in each worker's hands. A
waiting job is claimed by one worker, which settles it; a worker that dies
leaves its job running (nothing in the code reclaims one); only a settled job
is put back; a waiting job that cannot be started may be rejected; jobs may be
removed under their workers' hands, and `Remove(S, W)` names the workers for
which that ends the work. `HeldOnce`: no job is in two workers' hands.

### PreGeneration

A key is one exercise, (page, strategy, set), of one document; a set of keys is
what a configuration asks for.

| variable | code |
|---|---|
| `row[k]`, `order` | the rows of `pre_generated_exercises` and their creation order |
| `cfg` | the course's row of `pre_generation_configs` |
| `text`, `indexed`, `deleted` | the document: its chunks, `indexedAt`, whether it is there |
| `tick[t]` | an execution of `processNextPending()`; the timer starts one every 5 s |
| `queuer[q]` | a backfill or a teacher's request, and what it has left to queue |

| actions | code |
|---|---|
| `TickFind`, `TickMark` | the select of the oldest pending row; the update by id alone |
| `TickText`, `TickDoc`, `TickLlm`, `TickDone`, `TickBlank`, `TickError` | the rest of `processNextPending()` |
| `Backfill`, `UpdateConfig`, `Documents`, `QueueNext` | `runBackfill`, `updateConfig`, `queueDocumentsForCourse`, `queueDocument` (one upsert per exercise) |
| `RegenerateDocument`, `RegenerateCourse`, `RegenerateConfig` | the teacher's resets |
| `QueueModuleItem`, `ItemDeleteChunks` ... `ItemReset` | `queueModuleItemPregen` and `indexModuleItemPdf` |
| `DeleteDocument` | `RagService.deleteDocument`: the rows go by cascade |
| `TickFails`, `QueuerFails`, `Crash` | an awaited call throws; the API dies |

`Patient = TRUE` is the environment in which a tick has marked its row before
the next tick looks for one (the two calls take less than the timer's 5 s);
`Patient = FALSE` drops it. Content is reduced to one question: was it generated
after the row was last reset? A row's content is `"late"` when its generation
began before that reset. Abstractions: one document (documents share only the
order in which rows are taken up), the language model answers or throws, a
page's chunks are there or not. The window in which `indexModuleItemPdf` has
deleted the chunks and not yet created them is modelled: a tick that reads in it
writes a false "insufficient text" error. A PDF without text is indexed without
chunks. Nobody handles the rejection of the queueing that `updateConfig` starts
(line 85): it ends the API, so `Crash` is possible with failing database calls
alone. When that rejection comes from the deleted document instead, nothing is
left that the API's end could change here, and the queuer just stops.

### Openface3Jobs

One recorded segment: jobs of different segments share nothing but the order of
the Redis list. The segment has one live job at most (`recordingSegmentId` is
unique); a backfill that overwrites deletes the job and creates the next, so
`Jobs` are the ids a segment's jobs get one after the other.

| variable | code |
|---|---|
| `upload`, `object` | `recording_segments.uploadStatus`; whether the recording is in the blob store |
| `job[j]`, `frames[j]` | the rows of `openface3_jobs` (status, `frames_processed`) and how many `emotion_frames` a job has |
| `list` | the Redis list `openface3:jobs` |
| `req[r]` | a request that completes, retries or backfills, and the job it remembers |
| `wk[w]` | a thread of the worker and the job it popped |

| actions | code |
|---|---|
| `Upload` | the browser's upload to the presigned URL |
| `Complete`, `CompleteExists`, `CompleteUpdate`, `CompleteConfig`, `FailSegment` | `completeSegment`, `failSegment` |
| `Create`, `Push` | `enqueueJob`: the row, then the list |
| `Retry`, `RetryReset`, then `Push` | `retryJob`: the check, the update by id alone, the list |
| `Backfill`, `BackfillDeleteFrames`, `BackfillDeleteJob`, then `Create`, `Push` | `backfill`, for the one segment of its snapshot |
| `Pop`, `MarkJob`, `Infer`, `Store`, `FailJob` | `worker_loop` and `process_job`: BLPOP, the first commit, the analysis, the transaction of frames and outcome, the `except` branch |
| `RequestFails`, `WorkerFails`, `ApiCrash`, `WorkerCrash` | an awaited call or a database call throws; a process dies |

`OneRetry = TRUE` is the environment in which nobody retries a job that another
retry has read and not yet reset; `OneRetry = FALSE` drops it. Abstractions: the
analysis raises or yields a frame or none; `retries` is written and never read
by a decision, and is left out; the dead-letter key of the list is declared and
never used; a course's configuration is a choice made when it is read; a
segment is never deleted here. A job that is deleted while a thread has it makes
the thread's updates match no row, and its frames fail their foreign key.

### CodeDecomposition

A handler is `Load` (it reads the row), then one action that decides on what was
read and writes the whole `sessionData` back, or `Refuse`. Whatever the model
answers in between is a choice of that action.

| variable | code |
|---|---|
| `session` | `sessionData`: stage, steps (`nodes`), code, the three counters of model calls |
| `status` | the row's status |
| `snap[r]` | the session that request `r` has read |
| `drawn` | steps made so far; their numbers are their places in `nodes` |
| `settled`, `failed`, `edits`, `typed`, `overlap`, `loads` | history: texts that may pass, failed checks of each step and stage, edits and versions of the code, whether requests have overlapped |

| actions | code |
|---|---|
| `Load`, `Refuse` | `loadOwnedSession`; a guard that throws, a model that fails, a handler that only shows something |
| `InferTree`, `CheckTree` | `inferTree`, `checkTree` |
| `AddNode`, `EditNode`, `DeleteNode`, `Reorder` | `mutateNode` |
| `GetNodeHint`, `RevealNode`, `ShowAnswer`, `AdoptTree`, `AdoptCode` | the hint, the reveal, the answer, `adoptSolution` |
| `AdvanceStage`, `CopyToComments`, `SyncCode`, `CheckMatch`, `Complete` | the implementation stage and the end |

Abstractions. A text is 0 until it is edited and then the number of the edit;
the code likewise. A tree of the model (`inferTree`) or of the client (`adoptSolution`) is any set of
steps with any parents: nothing in the code checks its depth, looks for cycles or
for repeated ids, and the client's ids may even be those of earlier steps. A step is
therefore a place in the array with an id, and an action that takes a step by its
id takes the first one that has it, as `find` does. `depthOf` follows parents until
there is none; on a cycle it does not return, so `addNode` and `revealNode` have no
step there (`Shallow`): the request hangs, and the process with it. Hence depth and
acyclicity are no properties of this code, although the comment at lines
1441-1443 says that the depth is enforced "wherever a node is added"; what holds
over all these trees is `TreeClosed`. The wording of hints and feedback, the order of
siblings and the lines a step maps to are left out. `CodeFresh` is not an
invariant: a check that overlaps a sync writes the older code back; `CodeKept`
says that this takes an overlap.

### LlmQuota, SpacedRepetition, LearningSessions

`LlmQuota` is the protocol around one call: `Ask`, `AssertNotExceeded` (compare
the day's counter with the cap), `CallLlm` (a price or a failure), `RecordSpend`
(add to the counter of the day on which the call *ends*, then `Alert` when this
very increment crossed the cap), `Return`. Redis may fail before an increment, or
after it with its outcome unseen; the API may die there too (a call that is
`counted`), and the insert of the event, which nobody awaits, may fail. The code
finds the total before the increment by subtracting in doubles, so `previous` is
one unit off at the worst, a unit being as small as that error. `lost` holds the
days on which a crossing was not seen, rounded away or not stored. "Fires once per
user per day, not on repeat" (`llm-usage-quota.service.ts:103`) is thus not what the
code keeps: with a cap of 0.2, 0.1 spent and two calls of 0.1 in flight, the second
computes 0.3 - 0.1 < 0.2 and alerts again. `AlertedAtCap` says what is kept. Only a
configured cap is modelled; without one nothing is refused.

`SpacedRepetition` is `calculateNextReview` with the ease in hundredths, in which
the code's steps are whole numbers; the code's double may round a product that
lies on a half the other way.

| variable of `LearningSessions` | code |
|---|---|
| `type`, `status`, `data` | the row of `learning_interventions` and its `sessionData` |
| `card` | the row of `spaced_repetition_cards` |
| `req[r]`, `rating[r]` | the handler a request runs and the data it read; the rating it stores and the card it read |
| `day`, `spent`, `alerts`, `lost`, `call` | those of `LlmQuota` |
| `given`, `right`, `overlap`, `loads` | history: answers that students got a response to, those judged correct |

| actions | code |
|---|---|
| `CheckStepResponse`, `StoreCheck` | `checkStepResponse` before and after the model's judgement |
| `AdvanceStep`, `StoreStep` | `advanceStep` |
| `AskQuestion`, `StoreAnswer` | `askQuestion` |
| `Complete`, `StoreCompleted` | `completeStepwiseSession`, `completeElaborationSession` |
| `SubmitPracticeTestAnswers`, `StoreTest` | `submitPracticeTestAnswers` |
| `ReviewCard`, `StoreReview`, `DeleteCard` | `reviewCard`, `deleteCard` |
| `Fail`, `Calls`, `NextDay`, `Crash` | a failed call or write, the steps of `LlmQuota`, midnight, the death of the API |

Abstractions. One intervention of any of the four types, with a card only for
flashcards. A practice test has one short answer that needs the model, or none; the
code grades several at the same time (`Promise.all`, line 2357), so that the calls
in flight, which `CapHeld` counts, may be more than the requests.
A conversation is the set of answers in it; texts, summaries and feedback are
left out. A check whose call fails counts as an attempt, as the code has it.

## 3. Runs

| run | shows | bounds | distinct states |
|---|---|---|---|
| `grading_faults` | `TypeOK`, `GradedBacked`, `ScoreBacked`, `CompletionBacked`, `ToldOnce`, `ProcessedMeansDone`, `UsesEventQueue` while calls fail and processes crash | 1 attempt, 2 requests, 2 workers, 2 ticks, mcq answers from -1 to 2 points | 377,019 |
| `grading_serial` | `SubmittedOnce`, `GradedOnStoredAnswer`, `AnswerKept`, `GradeOfAnswer` when a client waits for each response, and `EventsClaimed`, with failing calls and crashes | 1 attempt, 2 requests, 1 worker, 1 tick | 86,983 |
| `grading_live` | `GradedInTheEnd`, `StudentTold` without faults | 1 attempt, 2 requests | 33,189 |
| `grading_twice` | a violation: two overlapping submits are both accepted | 1 attempt, 2 requests | |
| `grading_nameless` | a violation: MCQ completions are rejected by their own consumer | 1 attempt, 1 request | |
| `pregen_claims` | `TypeOK`, `GeneratedAlone`, `Honoured`, `UsesJobLifecycle` with patient ticks, failing calls, crashes and deletion | 2 exercises, one of a blank page, 2 ticks, 2 queuers | 584,863 |
| `pregen_live` | `Settles`, `Filled` without faults | 2 exercises, 2 ticks, 1 queuer | 32,094 |
| `openface3_jobs` | `TypeOK`, `ProcessedAlone`, `FramesOnce`, `UsesJobLifecycle` when retries of a job do not overlap, with failing calls and crashes | 3 job ids, 2 requests, 2 threads | 35,251 |
| `openface3_live` | `Tracked`, `Settles` without faults | 2 job ids, 2 requests, 2 threads | 27,149 |
| `openface3_retries` | a violation: two overlapping retries queue one job twice | 2 job ids, 2 requests, 2 threads | |
| `decomposition` | `TypeOK`, `TreeClosed`, `HelpEarned`, `TextJudged`, `CodeKept` while requests replace each other's work | 3 steps, any tree of 2, depth 2, 4 requests, 2 at a time, 1 call of each kind, a reveal after 1 failure | 269,043 |
| `learning` | `TypeOK`, `StepsInOrder`, `PassEarned`, `AnswersKept`, `ResultsOfAnswers`, `LaterEachTime`, `CapHeld`, `AlertedAtCap` with failing calls, a failing Redis, crashes and a midnight | 2 steps, 2 attempts, 4 requests or 5 ratings, 2 at a time, a cap of 2 calls | 723,583 |

Why the bounds are enough. The handlers of different attempts share nothing but
`event_queue`, and there the order of rows matters only among pending rows of
one topic; one attempt already yields up to four rows. Two requests are the
least that overlap, and give every pair of handlers (submit and submit, submit
and update, AI trigger and manual grade, two grades). Two workers and two ticks
are the least that can compete for one row. With `MaxScore = 1` an answer is
right or wrong, and with `MaxChosen = 2` an mcq answer also earns less than nothing
or more than the maximum, which is all that the score rules tell apart. The theorems of
section 5 hold for any of these numbers. For the exercises, two ticks are the
least that overlap, two queuers the least that queue one document twice (the
backfill and a request), and two exercises show that one is taken up before
another and that one has text and the other has not. For a recorded segment, two
requests give every pair of completion, retry and backfill, two threads compete
for the list, and with three ids a job is replaced while an earlier one is still
in a thread's hands, twice. The list needs no bound: an id is on it at most once when
retries do not overlap. When they do, failing jobs can pile up on it without
limit, and `openface3_retries` ends at the violation it looks for.

Two requests at a time are the least that overlap on a session. Four in a row
take a decomposition from an inferred tree through a check and an advance into
the second stage, or delete a step under a request that adds to it; three steps
give a step, a child and one more level than `MaxTreeDepth`; a tree of two steps may
be a cycle, a step that is its own parent, or two steps with one id. In `learning` two
steps show one that comes before another, two attempts a pass that is earned by
trying, four requests an advance that overlaps a check, and five ratings a
card that was passed several times, failed and was passed again. A cap of two calls of
cost one is reached by two requests in flight, on either side of the midnight.

The violations are what the code does, and `PROJECT.json` quotes the line each
contradicts. `SubmittedOnce`, `GradedOnStoredAnswer`, `AnswerKept` and `GradeOfAnswer` hold
when requests on an attempt do not overlap; that is the environment `Serial = TRUE`
states, in which only the detached AI trigger runs beside a request. Without
it an update that was checked before a submit and is written after it
(`attempts.service.ts:238-254`) breaks `AnswerKept`, by the same overlap of check and
write that `grading_twice` shows for two submits.

## 4. Fairness

`FairSpec` assumes weak fairness of each request once it has started (Node
resolves every pending await), of each worker's loop (it polls every few
seconds) and of each tick (`setInterval`). Nothing is assumed of arrivals,
faults or crashes. Liveness is checked without faults where the code promises
nothing with them: after a crash between the status write and `publish()` a
submitted attempt stays submitted, since no sweep looks for it. `EventsClaimed`
is checked with faults.

`PreGeneration!FairSpec` assumes weak fairness of each tick and of each queuer's
pending calls and of the backfill, which the timers of `onModuleInit` start again
and again. Teachers' requests are not fair. `Settles` is conditional: a reset
keeps an exercise's creation time, so a teacher who resets the oldest for ever
keeps the others waiting; once resets end, every pending exercise settles.
It says that no exercise is stuck, and is checked without faults only: after a
crash, or when the write of the error fails, a row stays in generating, and no
sweep looks for it.

`Openface3Jobs!FairSpec` assumes weak fairness of each request once it has
started and of each thread, which polls the list for ever. `Tracked` and
`Settles` are checked without faults: a failed push, a crash after BLPOP or an
unwritten failure strands a job, and nothing but a backfill with overwrite finds
it again.

`CodeDecomposition` and `LearningSessions` state safety only and assume no
fairness: a session waits for its student, and no handler leaves another waiting.

## 5. What is proved

All theorems hold for any sets of attempts, requests, workers, jobs and steps and
any bounds, under the named assumptions on the constants of their module, with and
without faults unless a condition is given below.

* `EventQueue!HeldAloneAlways`: no two consumers hold one row. The
  invariant is strengthened by "a held row is in processing": a pending row is
  then held by nobody, and `Claim` takes only pending rows. `OnlyForwardAlways` is
  about every step of it. `ClaimedInOrderAlways` needs both: a row leaves pending
  by `Claim` alone, which takes the oldest of its stream unless `Skips`, and no row
  changes its stream or comes back.
* `Grading_proofs!TypeCorrect`: `TypeOK`, one lemma per group of actions. It bounds
  scores from below only.
* `Grading_proofs!Refinement`: every step of the pipeline maps to a step of
  `EventQueue` or to a stutter, under `RowView` (the row without its payload) and
  `Holds` (the event of a busy worker or tick).
* `Grading_proofs!HandledAloneAlways`, `EventsOnlyForward`, `EventsInOrder`: the
  theorems of `EventQueue` carried over by the refinement. Through it the whole
  pipeline, crashes and failing calls included, neither handles an event twice at
  a time, nor retries one, nor, while nothing fails (`EventsInOrder`), lets a grader's
  newer completion overtake its older.
* `GradingResults_proofs`: `GradedBacked`, `ScoreBacked` and `CompletionBacked`
  are not inductive: a handler between its result and its status write only
  *remembers* that the result is there. `RememberedBacked` says so for every
  such execution, and with it the conjunction is inductive. It also needs that
  results are never removed and that the event of a busy worker does not change.
* `GradingResults_proofs!ToldOnceAlways`: a message is emitted by the tick that
  holds its row, and the row leaves `processing` only to be settled; the
  invariant says that an event whose message is out is held by a tick past its
  handler, or by nobody and not pending. It rests on `HandledAlone`.

* `GradingResults_proofs!ProcessedMeansDoneAlways` needs no condition. An execution
  that is about to acknowledge has done its part already, so `Done` counts the
  grading events it holds with the processed ones; each enters `Done` in the step
  that publishes a completion (`CountInv`), and a tick reaches its acknowledgement
  only through its message (`EmittedInv`).
* `GradingResults_proofs!SubmittedOnceAlways`, `GradedOnStoredAnswerAlways` and
  `AnswerKeptAlways` assume `Serial`. Their invariant says that one request at most
  is in flight, that what it checked still holds (`Opening`), that an attempt which
  has left in_progress is never opened again, and that the one request that owes
  it a grading event still carries the answer that was stored (`Owes`): the
  detached AI trigger outlives its request, so "in flight" alone does not do.
* `GradingResults_proofs!GradeOfAnswerAlways`, under `Serial` too, is the end of that
  chain: an attempt gets one automatic result at most, from the API or from the
  worker, and it is the score of the answer it stores. `AutoInv` says who may still
  give it: an open attempt has none, and neither has one whose request is about to
  grade or to publish, whose event is pending, or whose event a worker holds before
  its result. It uses `HandledAlone` for the worker and `SerialInv` for the requests.
* `GradingResults_proofs!NeverBlockedAlways` needs no condition: a row that was lost
  in processing holds up no other, because the claim looks at pending rows only; of
  those of a topic there is an oldest. It is the safety half of `EventsClaimed`.
* `GradingResults_proofs!AttendedAlways` (no faults, any overlap of requests) and
  `UnderwayAlways` (no crash of the API, failing calls allowed) are the safety halves
  of `GradedInTheEnd` and `StudentTold`: somebody still has the attempt, or the
  message, in hand. Each execution keeps what it attends to until it hands it over in
  the very step in which it lets go; a request that publishes adds a row, a worker
  that claims takes it. `OnlyNamelessFailAlways` (no failing database call) says which
  events can be settled as failed at all: completions of mcq and AI questions, which
  carry no student id. `grading_nameless` shows that the first do fail. Its invariant
  (`NamelessInv`) follows the kind of question from the request to the row.

* `JobLifecycle!HeldOnceAlways`: inductive together with the types, since a held
  job is running or removed and `Claim` takes only waiting ones. `OnlyHolderEndsAlways`
  is an action property from the same invariant: a running job ends by the worker
  that claimed it or is removed; nothing puts it back, and nothing is done unclaimed.
* `PreGeneration_proofs`: `GeneratedAloneAlways`, `HonouredAlways`, `Refinement` (of
  `JobLifecycle`) and `ExercisesEndByTick` (`OnlyHolderEnds`, through the refinement:
  no reset takes an exercise out of a tick's hands), for any number of exercises,
  ticks and queuers, under `PreGenerationAssumption` and `Patient`. The invariant says what
  a tick that found a row may still believe of it: `Found` (the row is pending, or
  gone with its document), `Marked` (it is generating, or gone), `Marks` (at most
  one tick is between the two) and `InTime` (what a tick holds has not been reset,
  since resets leave pending and generating rows alone). Without `Patient` the
  first of these fails: two ticks find one pending row, and both mark it.
  `TypeCorrect` and `QueueServesAlways` need neither `Patient` nor the absence of
  faults. The latter rests on `OrderInv`: `order` lists every exercise that
  is in the table, once, and none that was never queued, so that among the pending
  ones there is an oldest (by well-founded induction on its indices).
  `GeneratingHeldAlways` assumes `Faults = {}` and no `Patient`: a tick lets go of an exercise only by writing its
  outcome, so when two ticks have one exercise and the first settles it, it is no
  longer generating. With `QueueServes` it is the safety half of `Settles`.
* `Openface3Jobs_proofs`: `TypeCorrect` needs no condition; `ProcessedAloneAlways`,
  `FramesOnceAlways`, `Refinement` (of `JobLifecycle`) and, through it,
  `JobsEndByThread` hold under `OneRetry`, for any number of ids, requests and
  threads. A thread checks nothing of what it pops, so the argument is about the id as a token: it travels from the request
  that pushes it to the list to a thread, and `Travels` says that it is in one of
  these places and only once; `Statuses` says that wherever it is, the row is still
  in the status that brought it there, or gone; `Reset1` is what `OneRetry` gives.
  `openface3_retries` shows what happens without it. `TrackedAlways` assumes
  `Faults = {}` instead: a pending job is about to be pushed, listed or just popped,
  and a processing one is in a thread's hands (`TrackedJob`), which each step keeps
  by itself, whether or not retries overlap. `LifecycleKeptAlways` is the lifecycle
  that the worker documents, which `openface3_retries` shows broken by overlapping
  retries; it holds under `OneRetry` while no database call fails, crashes or not.
  The second condition is needed as well: a thread whose first commit failed marks the
  job failed, which has not been processing.

* `CodeDecomposition_proofs`: `TypeCorrect`, `TreeClosedAlways`, `HelpEarnedAlways`,
  `TextJudgedAlways` and `CodeKeptAlways`, for any number of requests and any
  bounds. What a request has read is written back later, so the invariant is one
  of every *version* of the session, stored or remembered: its tree is closed, its
  attempts are failures of its stage, its passing texts are settled. The history
  variables only grow, which is why a remembered version stays right however old
  it is. All of it holds for any tree that is sent, with cycles and repeated ids.
  `NothingUndoneAlways` uses `Calm`: while
  no two requests overlap a request has read the session as it still is, and no
  handler moves the stage or a count back from what it has read.
* `LearningSessions_proofs`: `CapHeldAlways` by counting: what is spent plus the
  calls that were allowed stays below the cap plus one call of every execution.
  `AlertedAtCapAlways` by what one increment does to the number of alerts
  (`AlertStep`): one more only at the cap or across it, and across it one more or a
  lost day. Both are invariants of `LlmQuota`, whose actions the sessions use. `StepsInOrderAlways`, `PassEarnedAlways`, `AnswersKeptAlways` and
  `ResultsOfAnswersAlways` are again about every version of the data, and
  `LaterEachTimeAlways` about the card and every card a rating has read: its
  interval and ease stay large enough for the rounded product to grow.
  `BetterIsLaterAlways` adds that the scheduler is monotone in the rating, for every
  ease and interval a card can reach (`EaseGrows`, `BetterLater`).
  `NothingTakenBackAlways` is an action property: a completed session stays completed
  whatever overlaps, and while nothing does, no step, pass, answer or test is taken
  back, because what a handler stores was computed from the session as it still is.

Every invariant and every safety action property that a passing run checks is
stated by a theorem. `HandledAlone`, `NeverBlocked`, `Attended`, `Underway`,
`OnlyNamelessFail`, `QueueServes`, `GeneratingHeld`, `NothingUndone`,
`NothingTakenBack`, `BetterIsLater` and the `OnlyForward`, `ClaimedInOrder` and
`OnlyHolderEnds` of the abstract modules are stated by theorems alone and are in no
configuration: what the proof gives for every instance needs no run. To see one on a
small instance, add it to the configuration of its module, with the `Faults` and the
environment its theorem assumes.

Only model-checked: the liveness properties (`GradedInTheEnd`, `StudentTold`,
`EventsClaimed`, `Settles`, `Filled`), which are out of the prover's reach; the safety
halves of all but `Filled` are proved, as said above.

## 6. Plan

In order of importance; each module gets runs, mutants and, where it says so,
theorems.

1. `PyfeatJobs`: the second analysis pipeline, which has no unique job per
   segment, commits its rows before the outcome, and marks a stale job id in its
   outer handler; against `JobLifecycle` as far as it goes.
2. The guide poller, as a second user of `EventQueue`.
3. The rest of the learning interventions: saved reviews and generation, whose
   result is one insert after a long call.
4. Page content versions (two overlapping saves may draw one version number),
   the document states of RAG, the sessions of the activity log.
5. `McqScoring`: the partial credit of `autoGradeMCQ` against a reference.

## 7. Not modelled

Prompts, parsing of LLM output, embeddings, retrieval scores, numerical
inference and exports (text and numbers, no shared state); CRUD of courses,
modules, topics, questions and enrolments; authentication and user management;
the web client; deployment. `PROJECT.json` gives the reason for each.

These make up nearly all of the repository's lines: the vendored eye tracker and
face-mesh bundles under `apps/web/public` alone are two fifths of them, the React
pages most of the rest, and in the services the prompts that a call is made of.
The modules cover the lines that decide what is stored, in the services where
requests, timers and workers share it.
