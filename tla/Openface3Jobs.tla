--------------------------- MODULE Openface3Jobs ---------------------------
(***************************************************************************)
(* The analysis of a recorded webcam segment: the upload's completion, the *)
(* table openface3_jobs, the Redis list that carries job ids to the        *)
(* worker's threads, teachers' retries and backfills, and the frames that  *)
(* the worker stores.                                                      *)
(*                                                                         *)
(* One segment: the jobs of two share only the order of the list.          *)
(***************************************************************************)
EXTENDS Integers, Sequences

CONSTANTS Jobs,      \* ids the segment's jobs get, one after the other
          Requests,  \* executions of API requests
          Workers,   \* threads of the worker
          None,      \* no job
          OneRetry,  \* TRUE: a job is retried again once its retry has reset it
          Faults     \* subset of {"db", "crash"}

ASSUME Openface3Assumption ==
  /\ None \notin Jobs
  /\ OneRetry \in BOOLEAN
  /\ Faults \subseteq {"db", "crash"}

VARIABLES upload,  \* recording_segments.uploadStatus
          object,  \* the recording is in the blob store
          job,     \* openface3_jobs
          frames,  \* how many emotion_frames of a job are stored
          list,    \* the Redis list openface3:jobs
          req,     \* local state of each request
          wk       \* local state of each thread

vars == <<upload, object, job, frames, list, req, wk>>
-----------------------------------------------------------------------------
(* counted is frames_processed.  A video yields a frame or none.           *)
Row == [status  : {"absent", "PENDING", "PROCESSING", "COMPLETED", "FAILED", "gone"},
        counted : {0, 1}]

RequestPcs == {"idle", "exists", "complete", "upload_failed", "config", "create", "push",
               "reset", "delete_frames", "delete_job"}
WorkerPcs  == {"idle", "mark", "work", "store", "failed", "reject"}

Init ==
  /\ upload = "PENDING"
  /\ object = FALSE
  /\ job = [j \in Jobs |-> [status |-> "absent", counted |-> 0]]
  /\ frames = [j \in Jobs |-> 0]
  /\ list = <<>>
  /\ req = [r \in Requests |-> [pc |-> "idle", id |-> None]]
  /\ wk = [w \in Workers |-> [pc |-> "idle", id |-> None]]

RequestSet(r, pc, id) == req' = [req EXCEPT ![r] = [pc |-> pc, id |-> id]]
RequestGoto(r, pc)    == req' = [req EXCEPT ![r].pc = pc]
RequestEnds(r)        == RequestSet(r, "idle", None)

(* Mutant: the thread still remembers its last job. *)
WorkerRestsStale(w) == wk' = [wk EXCEPT ![w].pc = "idle"]

WorkerSet(w, pc, id) == wk' = [wk EXCEPT ![w] = [pc |-> pc, id |-> id]]
WorkerGoto(w, pc)    == wk' = [wk EXCEPT ![w].pc = pc]
WorkerRests(w)       == WorkerSet(w, "idle", None)

SetStatus(j, status) == job' = [job EXCEPT ![j].status = status]

(* recordingSegmentId is unique. *)
Live == {j \in Jobs : job[j].status \notin {"absent", "gone"}}
-----------------------------------------------------------------------------
(* RecordingService *)

(* The browser uploads the recording to the blob store. *)
Upload ==
  /\ object' = TRUE
  /\ UNCHANGED <<upload, job, frames, list, req, wk>>

(* completeSegment() *)
Complete(r) ==
  /\ req[r].pc = "idle"
  /\ RequestGoto(r, "exists")
  /\ UNCHANGED <<upload, object, job, frames, list, wk>>

CompleteExists(r) ==
  /\ req[r].pc = "exists"
  /\ RequestGoto(r, IF object THEN "complete" ELSE "upload_failed")
  /\ UNCHANGED <<upload, object, job, frames, list, wk>>

CompleteUpdate(r) ==
  /\ req[r].pc \in {"complete", "upload_failed"}
  /\ upload' = IF req[r].pc = "complete" THEN "COMPLETED" ELSE "FAILED"
  /\ RequestGoto(r, IF req[r].pc = "complete" THEN "config" ELSE "idle")
  /\ UNCHANGED <<object, job, frames, list, wk>>

(* The course may not want the analysis of new segments. *)
CompleteConfig(r) ==
  /\ req[r].pc = "config"
  /\ RequestGoto(r, "create") \/ RequestGoto(r, "idle")
  /\ UNCHANGED <<upload, object, job, frames, list, wk>>

FailSegment ==
  /\ upload' = "FAILED"
  /\ UNCHANGED <<object, job, frames, list, req, wk>>
-----------------------------------------------------------------------------
(* Openface3Service *)

(* enqueueJob(): the insertion throws when the segment has a job. *)
Create(r) ==
  /\ req[r].pc = "create"
  /\ \/ /\ Live # {}
        /\ RequestEnds(r)
        /\ UNCHANGED job
     \/ \E j \in Jobs : /\ Live = {}
                        /\ job[j].status = "absent"
                        /\ SetStatus(j, "PENDING")
                        /\ RequestSet(r, "push", j)
  /\ UNCHANGED <<upload, object, frames, list, wk>>

Push(r) ==
  /\ req[r].pc = "push"
  /\ list' = Append(list, req[r].id)
  /\ RequestEnds(r)
  /\ UNCHANGED <<upload, object, job, frames, wk>>

(* Mutant: a job that is still being processed is retried as well. *)
RetryUnfinished(r) ==
  /\ req[r].pc = "idle"
  /\ \E j \in Jobs : /\ job[j].status \in {"FAILED", "PROCESSING"}
                     /\ OneRetry => \A q \in Requests : req[q] # [pc |-> "reset", id |-> j]
                     /\ RequestSet(r, "reset", j)
  /\ UNCHANGED <<upload, object, job, frames, list, wk>>

(* retryJob(): reads the job, resets it by id alone (an id that is gone    *)
(* throws), reads the segment, which stays, and pushes the job again.      *)
Retry(r) ==
  /\ req[r].pc = "idle"
  /\ \E j \in Jobs : /\ job[j].status = "FAILED"
                     /\ OneRetry => \A q \in Requests : req[q] # [pc |-> "reset", id |-> j]
                     /\ RequestSet(r, "reset", j)
  /\ UNCHANGED <<upload, object, job, frames, list, wk>>

RetryReset(r) ==
  LET j == req[r].id
  IN /\ req[r].pc = "reset"
     /\ \/ /\ job[j].status # "gone"
           /\ SetStatus(j, "PENDING")
           /\ RequestGoto(r, "push")
        \/ /\ job[j].status = "gone"
           /\ RequestEnds(r)
           /\ UNCHANGED job
     /\ UNCHANGED <<upload, object, frames, list, wk>>

(* backfill(): a segment without a job gets one; overwrite replaces its    *)
(* job, in a bounded model while an id is left.                            *)
Backfill(r) ==
  /\ req[r].pc = "idle"
  /\ upload = "COMPLETED"
  /\ \/ /\ Live = {}
        /\ RequestGoto(r, "create")
     \/ \E j \in Live : /\ \E k \in Jobs : job[k].status = "absent"
                        /\ RequestSet(r, "delete_frames", j)
  /\ UNCHANGED <<upload, object, job, frames, list, wk>>

BackfillDeleteFrames(r) ==
  /\ req[r].pc = "delete_frames"
  /\ frames' = [frames EXCEPT ![req[r].id] = 0]
  /\ RequestGoto(r, "delete_job")
  /\ UNCHANGED <<upload, object, job, list, wk>>

(* The frames of a job go with it; a job that is gone makes delete throw. *)
BackfillDeleteJob(r) ==
  LET j == req[r].id
  IN /\ req[r].pc = "delete_job"
     /\ \/ /\ job[j].status # "gone"
           /\ SetStatus(j, "gone")
           /\ frames' = [frames EXCEPT ![j] = 0]
           /\ RequestSet(r, "create", None)
        \/ /\ job[j].status = "gone"
           /\ RequestEnds(r)
           /\ UNCHANGED <<job, frames>>
     /\ UNCHANGED <<upload, object, list, wk>>

(* An awaited call throws, and nothing undoes the calls before it. *)
RequestFails(r) ==
  /\ "db" \in Faults
  /\ req[r].pc # "idle"
  /\ RequestEnds(r)
  /\ UNCHANGED <<upload, object, job, frames, list, wk>>
-----------------------------------------------------------------------------
(* The worker: worker_loop() and process_job() *)

(* BLPOP *)
Pop(w) ==
  /\ wk[w].pc = "idle"
  /\ list # <<>>
  /\ WorkerSet(w, "mark", Head(list))
  /\ list' = Tail(list)
  /\ UNCHANGED <<upload, object, job, frames, req>>

(* An UPDATE by id alone: a job that is gone matches no row.               *)
MarkJob(w) ==
  LET j == wk[w].id
  IN /\ wk[w].pc = "mark"
     /\ IF job[j].status = "gone" THEN UNCHANGED job ELSE SetStatus(j, "PROCESSING")
     /\ WorkerGoto(w, "work")
     /\ UNCHANGED <<upload, object, frames, list, req>>

(* Download, decoding and inference succeed, or one of them raises.        *)
Infer(w) ==
  /\ wk[w].pc = "work"
  /\ WorkerGoto(w, "store") \/ WorkerGoto(w, "failed")
  /\ UNCHANGED <<upload, object, job, frames, list, req>>

(* Mutant: frames are committed before the job is completed. *)
StoreFirst(w) ==
  LET j == wk[w].id
  IN /\ wk[w].pc = "store"
     /\ \E n \in {0, 1} :
          \/ /\ job[j].status # "gone"
             /\ frames' = [frames EXCEPT ![j] = @ + n]
             /\ \/ /\ job' = [job EXCEPT ![j] = [status |-> "COMPLETED", counted |-> n]]
                   /\ WorkerRests(w)
                \/ UNCHANGED job /\ WorkerGoto(w, "failed")
          \/ /\ job[j].status = "gone"
             /\ IF n = 0 THEN WorkerRests(w) ELSE WorkerGoto(w, "failed")
             /\ UNCHANGED <<job, frames>>
     /\ UNCHANGED <<upload, object, list, req>>

(* One transaction: the frames, whose foreign key fails when the job is    *)
(* gone, and the completed job.                                            *)
Store(w) ==
  LET j == wk[w].id
  IN /\ wk[w].pc = "store"
     /\ \E n \in {0, 1} :
          \/ /\ job[j].status # "gone"
             /\ frames' = [frames EXCEPT ![j] = @ + n]
             /\ job' = [job EXCEPT ![j] = [status |-> "COMPLETED", counted |-> n]]
             /\ WorkerRests(w)
          \/ /\ job[j].status = "gone"
             /\ IF n = 0 THEN WorkerRests(w) ELSE WorkerGoto(w, "failed")
             /\ UNCHANGED <<job, frames>>
     /\ UNCHANGED <<upload, object, list, req>>

(* Mutant: the failure is logged only. *)
FailJobSilent(w) ==
  /\ wk[w].pc \in {"failed", "reject"}
  /\ WorkerRests(w)
  /\ UNCHANGED <<upload, object, job, frames, list, req>>

(* The outer except writes the failure. *)
FailJob(w) ==
  LET j == wk[w].id
  IN /\ wk[w].pc \in {"failed", "reject"}
     /\ IF job[j].status = "gone" THEN UNCHANGED job ELSE SetStatus(j, "FAILED")
     /\ WorkerRests(w)
     /\ UNCHANGED <<upload, object, frames, list, req>>

(* A call to the database raises: without a connection the popped id is    *)
(* lost, otherwise the failure is written, unless that raises as well.     *)
WorkerFails(w) ==
  /\ "db" \in Faults
  /\ \/ wk[w].pc \in {"mark", "failed", "reject", "store"} /\ WorkerRests(w)
     \/ wk[w].pc = "mark" /\ WorkerGoto(w, "reject")
     \/ wk[w].pc = "store" /\ WorkerGoto(w, "failed")
  /\ UNCHANGED <<upload, object, job, frames, list, req>>
-----------------------------------------------------------------------------
(* Each process dies and is restarted. *)
ApiCrash ==
  /\ "crash" \in Faults
  /\ req' = [r \in Requests |-> [pc |-> "idle", id |-> None]]
  /\ UNCHANGED <<upload, object, job, frames, list, wk>>

WorkerCrash ==
  /\ "crash" \in Faults
  /\ wk' = [w \in Workers |-> [pc |-> "idle", id |-> None]]
  /\ UNCHANGED <<upload, object, job, frames, list, req>>

RequestStep(r) == \/ CompleteExists(r) \/ CompleteUpdate(r) \/ CompleteConfig(r)
                  \/ Create(r) \/ Push(r) \/ RetryReset(r)
                  \/ BackfillDeleteFrames(r) \/ BackfillDeleteJob(r)

Request(r) == Complete(r) \/ Retry(r) \/ Backfill(r)

WorkerStep(w) == Pop(w) \/ MarkJob(w) \/ Infer(w) \/ Store(w) \/ FailJob(w)

Next == \/ Upload \/ FailSegment
        \/ \E r \in Requests : Request(r) \/ RequestStep(r) \/ RequestFails(r)
        \/ \E w \in Workers : WorkerStep(w) \/ WorkerFails(w)
        \/ ApiCrash \/ WorkerCrash

Spec == Init /\ [][Next]_vars

(* Calls answer, and the threads keep polling. *)
FairSpec == /\ Spec
            /\ \A r \in Requests : WF_vars(RequestStep(r))
            /\ \A w \in Workers : WF_vars(WorkerStep(w))
-----------------------------------------------------------------------------
(* The types of the tables, the list and of what each execution remembers. *)
TypeOK == /\ upload \in {"PENDING", "COMPLETED", "FAILED"}
          /\ object \in BOOLEAN
          /\ job \in [Jobs -> Row]
          /\ frames \in [Jobs -> Nat]
          /\ list \in Seq(Jobs)
          /\ req \in [Requests -> [pc : RequestPcs, id : Jobs \cup {None}]]
          /\ wk \in [Workers -> [pc : WorkerPcs, id : Jobs \cup {None}]]
          /\ \A r \in Requests : req[r].pc \in {"push", "reset", "delete_frames", "delete_job"}
                                   => req[r].id # None
          /\ \A w \in Workers : wk[w].id = None <=> wk[w].pc = "idle"

(* No job is in two threads' hands, though a thread checks nothing of what *)
(* it pops.                                                                *)
ProcessedAlone == \A v, w \in Workers :
                    wk[v].id # None /\ wk[v].id = wk[w].id => v = w

(* Frames are those of one completed analysis: none is stored twice, and   *)
(* none belongs to a job that failed, waits or is processed again.         *)
FramesOnce == \A j \in Jobs : frames[j] # 0 => /\ job[j].status = "COMPLETED"
                                               /\ frames[j] = job[j].counted

(* "PENDING -> PROCESSING -> COMPLETED", "PENDING -> PROCESSING -> FAILED" *)
(* (openface3-worker/main.py:9-11) is what the worker writes.              *)
LifecycleKept == [][\A j \in Jobs : LET old == job[j].status
                                     new == job'[j].status
                                 IN old # new =>
                                      /\ new = "PROCESSING" => old = "PENDING"
                                      /\ new \in {"COMPLETED", "FAILED"} => old = "PROCESSING"]_vars

(* While calls succeed and nothing crashes, no job is lost: one that is    *)
(* pending is about to be pushed, on the list or popped, and one in        *)
(* processing is in a thread's hands.                                      *)
Tracked == \A j \in Jobs :
  /\ job[j].status = "PENDING" => \/ \E r \in Requests : req[r] = [pc |-> "push", id |-> j]
                                  \/ \E i \in DOMAIN list : list[i] = j
                                  \/ \E w \in Workers : wk[w] = [pc |-> "mark", id |-> j]
  /\ job[j].status = "PROCESSING" => \E w \in Workers : wk[w].id = j /\ wk[w].pc # "mark"

(* Without faults every pending job is completed, fails or is replaced.    *)
Settles == \A j \in Jobs :
  job[j].status = "PENDING" ~> job[j].status \in {"COMPLETED", "FAILED", "gone"}

JobState(status) ==
  CASE status = "PENDING"    -> "waiting"
    [] status = "PROCESSING" -> "running"
    [] status = "COMPLETED"  -> "done"
    [] status = "FAILED"     -> "failed"
    [] OTHER                 -> status

(* A thread works on a job from the moment it has marked it. *)
HoldsJob(w) == /\ wk[w].pc \in {"work", "store", "failed"}
               /\ job[wk[w].id].status # "gone"

JL == INSTANCE JobLifecycle WITH
        state  <- [j \in Jobs |-> JobState(job[j].status)],
        holder <- [w \in Workers |-> IF HoldsJob(w) THEN wk[w].id ELSE None]

(* Retries that do not overlap make of table and list a job table.         *)
UsesJobLifecycle == JL!Spec
=============================================================================
