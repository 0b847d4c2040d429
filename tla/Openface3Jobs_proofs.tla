------------------------ MODULE Openface3Jobs_proofs ------------------------
(***************************************************************************)
(* What retries that do not overlap guarantee, for any number of jobs,     *)
(* requests and threads, with failing calls and crashes: a job is in one   *)
(* thread's hands, and its frames are those of one completed analysis.     *)
(* While nothing fails no job is lost, also when retries overlap.          *)
(***************************************************************************)
EXTENDS Openface3Jobs, TLAPS

(* A job's id travels from a request to the list to a thread: it is in one *)
(* of these places at most once.                                           *)
Pushing(r)   == req[r].pc = "push"
Resetting(r) == req[r].pc = "reset"

Listed1 == \A i, k \in DOMAIN list : list[i] = list[k] => i = k
Pushed1 == \A q, r \in Requests : Pushing(q) /\ Pushing(r) /\ req[q].id = req[r].id => q = r
ListedOrPushed == \A i \in DOMAIN list, r \in Requests : Pushing(r) => list[i] # req[r].id
ListedOrHeld   == \A i \in DOMAIN list, w \in Workers : list[i] # wk[w].id
PushedOrHeld   == \A r \in Requests, w \in Workers : Pushing(r) => req[r].id # wk[w].id

Travels == Listed1 /\ Pushed1 /\ ListedOrPushed /\ ListedOrHeld /\ PushedOrHeld /\ ProcessedAlone

(* Wherever it is, its row is still in the status that brought it there,   *)
(* or gone.                                                                *)
Waits(j) == job[j].status \in {"PENDING", "gone"}
Runs(j)  == job[j].status \in {"PROCESSING", "gone"}

Statuses == /\ \A i \in DOMAIN list : Waits(list[i])
            /\ \A r \in Requests : Pushing(r) => Waits(req[r].id)
            /\ \A r \in Requests : Resetting(r) => job[req[r].id].status \in {"FAILED", "gone"}
            /\ \A w \in Workers : wk[w].pc \in {"mark", "reject"} => Waits(wk[w].id)
            /\ \A w \in Workers : wk[w].pc \in {"work", "store", "failed"} => Runs(wk[w].id)

Reset1 == \A q, r \in Requests :
            Resetting(q) /\ Resetting(r) /\ req[q].id = req[r].id => q = r

Inv == TypeOK /\ Travels /\ Statuses /\ Reset1 /\ FramesOnce

Idle == [pc |-> "idle", id |-> None]

LEMMA RequestType ==
  ASSUME TypeOK, NEW r \in Requests
  PROVE  /\ req[r].id \in Jobs \cup {None}
         /\ req[r].pc \in {"push", "reset", "delete_frames", "delete_job"} => req[r].id \in Jobs
  BY DEF TypeOK

LEMMA WorkerType ==
  ASSUME TypeOK, NEW w \in Workers
  PROVE  /\ wk[w].pc \in WorkerPcs
         /\ wk[w].id \in Jobs \cup {None}
         /\ wk[w].id = None <=> wk[w].pc = "idle"
  BY DEF TypeOK

(* The parts of TypeOK that requests and threads can disturb. *)
RequestsOK == /\ req \in [Requests -> [pc : RequestPcs, id : Jobs \cup {None}]]
              /\ \A r \in Requests : req[r].pc \in {"push", "reset", "delete_frames", "delete_job"}
                                       => req[r].id # None

WorkersOK == /\ wk \in [Workers -> [pc : WorkerPcs, id : Jobs \cup {None}]]
             /\ \A w \in Workers : wk[w].id = None <=> wk[w].pc = "idle"

LEMMA RequestSets ==
  ASSUME RequestsOK, NEW r \in Requests, NEW pc \in RequestPcs, NEW id \in Jobs \cup {None},
         pc \in {"push", "reset", "delete_frames", "delete_job"} => id # None,
         RequestSet(r, pc, id)
  PROVE  /\ RequestsOK'
         /\ req'[r].pc = pc /\ req'[r].id = id
         /\ \A q \in Requests \ {r} : req'[q] = req[q]
  <1>1. [pc |-> pc, id |-> id] \in [pc : RequestPcs, id : Jobs \cup {None}]
    OBVIOUS
  <1> QED BY <1>1 DEF RequestsOK, RequestSet

LEMMA RequestGoes ==
  ASSUME RequestsOK, NEW r \in Requests, NEW pc \in RequestPcs,
         pc \in {"push", "reset", "delete_frames", "delete_job"} => req[r].id # None,
         RequestGoto(r, pc)
  PROVE  /\ RequestsOK'
         /\ req'[r].pc = pc /\ req'[r].id = req[r].id
         /\ \A q \in Requests \ {r} : req'[q] = req[q]
  BY DEF RequestsOK, RequestGoto

LEMMA WorkerSets ==
  ASSUME WorkersOK, NEW w \in Workers, NEW pc \in WorkerPcs, NEW id \in Jobs \cup {None},
         id = None <=> pc = "idle", WorkerSet(w, pc, id)
  PROVE  /\ WorkersOK'
         /\ wk'[w].pc = pc /\ wk'[w].id = id
         /\ \A v \in Workers \ {w} : wk'[v] = wk[v]
  <1>1. [pc |-> pc, id |-> id] \in [pc : WorkerPcs, id : Jobs \cup {None}]
    OBVIOUS
  <1> QED BY <1>1 DEF WorkersOK, WorkerSet

LEMMA WorkerGoes ==
  ASSUME WorkersOK, NEW w \in Workers, NEW pc \in WorkerPcs \ {"idle"}, wk[w].pc # "idle",
         WorkerGoto(w, pc)
  PROVE  /\ WorkersOK'
         /\ wk'[w].pc = pc /\ wk'[w].id = wk[w].id
         /\ \A v \in Workers \ {w} : wk'[v] = wk[v]
  BY DEF WorkersOK, WorkerGoto

LEMMA InitInv == Init => Inv
  <1> SUFFICES ASSUME Init PROVE Inv
    OBVIOUS
  <1>1. /\ \A r \in Requests : req[r].pc = "idle" /\ req[r].id = None
        /\ \A w \in Workers : wk[w].pc = "idle" /\ wk[w].id = None
        /\ \A j \in Jobs : frames[j] = 0
        /\ list = <<>>
    BY DEF Init
  <1>2. TypeOK
    <2>1. job \in [Jobs -> Row] /\ frames \in [Jobs -> Nat] /\ list \in Seq(Jobs)
      BY DEF Init, Row
    <2>2. /\ req \in [Requests -> [pc : RequestPcs, id : Jobs \cup {None}]]
          /\ wk \in [Workers -> [pc : WorkerPcs, id : Jobs \cup {None}]]
      BY DEF Init, RequestPcs, WorkerPcs
    <2> QED BY <1>1, <2>1, <2>2 DEF Init, TypeOK
  <1>3. Travels /\ Statuses /\ Reset1 /\ FramesOnce
    BY <1>1 DEF Travels, Listed1, Pushed1, ListedOrPushed, ListedOrHeld, PushedOrHeld,
                ProcessedAlone, Statuses, Reset1, FramesOnce, Pushing, Resetting
  <1> QED BY <1>2, <1>3 DEF Inv
-----------------------------------------------------------------------------
(* Types *)

LEMMA StatusSet ==
  ASSUME TypeOK, NEW j, NEW status \in {"PENDING", "PROCESSING", "FAILED", "gone"},
         SetStatus(j, status)
  PROVE  job' \in [Jobs -> Row]
  BY DEF TypeOK, Row, SetStatus

LEMMA RequestTypeNext ==
  ASSUME TypeOK, NEW r \in Requests, Request(r) \/ RequestStep(r) \/ RequestFails(r)
  PROVE  TypeOK'
  <1>1. RequestsOK /\ None \notin Jobs
    BY Openface3Assumption DEF TypeOK, RequestsOK
  <1>2. ASSUME NEW pc \in RequestPcs, NEW id \in Jobs \cup {None},
               pc \in {"push", "reset", "delete_frames", "delete_job"} => id # None,
               RequestSet(r, pc, id)
        PROVE  RequestsOK'
    BY <1>1, <1>2, RequestSets
  <1>3. ASSUME NEW pc \in RequestPcs,
               pc \in {"push", "reset", "delete_frames", "delete_job"} => req[r].id # None,
               RequestGoto(r, pc)
        PROVE  RequestsOK'
    BY <1>1, <1>3, RequestGoes
  <1>4. RequestsOK'
    <2> USE DEF RequestPcs
    <2>1. CASE Complete(r) \/ CompleteExists(r) \/ CompleteUpdate(r) \/ CompleteConfig(r)
      BY <1>3, <2>1 DEF Complete, CompleteExists, CompleteUpdate, CompleteConfig
    <2>2. CASE Create(r) \/ Push(r) \/ RequestFails(r)
      BY <1>1, <1>2, <2>2 DEF Create, Push, RequestFails, RequestEnds
    <2>3. CASE Retry(r)
      BY <1>1, <1>2, <2>3 DEF Retry
    <2>4. CASE Backfill(r)
      BY <1>1, <1>2, <1>3, <2>4 DEF Backfill, Live
    <2>5. CASE RetryReset(r) \/ BackfillDeleteFrames(r) \/ BackfillDeleteJob(r)
      BY <1>1, <1>2, <1>3, <2>5
         DEF RetryReset, BackfillDeleteFrames, BackfillDeleteJob, RequestEnds, RequestsOK
    <2> QED BY <2>1, <2>2, <2>3, <2>4, <2>5 DEF Request, RequestStep
  <1>5. /\ UNCHANGED <<object, wk>>
        /\ upload' \in {"PENDING", "COMPLETED", "FAILED"}
    BY DEF TypeOK, Request, RequestStep, Complete, CompleteExists, CompleteUpdate, CompleteConfig,
           Create, Push, Retry, RetryReset, Backfill, BackfillDeleteFrames, BackfillDeleteJob,
           RequestFails
  <1>6. job' \in [Jobs -> Row] /\ frames' \in [Jobs -> Nat]
    <2>1. CASE Create(r) \/ RetryReset(r)
      BY <2>1, StatusSet DEF TypeOK, Create, RetryReset
    <2>2. CASE BackfillDeleteFrames(r) \/ BackfillDeleteJob(r)
      BY <2>2, StatusSet DEF TypeOK, BackfillDeleteFrames, BackfillDeleteJob
    <2> QED BY <2>1, <2>2
            DEF TypeOK, Request, RequestStep, Complete, CompleteExists, CompleteUpdate,
                CompleteConfig, Push, Retry, Backfill, RequestFails
  <1>7. list' \in Seq(Jobs)
    <2>1. CASE Push(r)
      BY <2>1, RequestType DEF TypeOK, Push
    <2> QED BY <2>1
            DEF TypeOK, Request, RequestStep, Complete, CompleteExists, CompleteUpdate,
                CompleteConfig, Create, Retry, RetryReset, Backfill, BackfillDeleteFrames,
                BackfillDeleteJob, RequestFails
  <1> QED BY <1>4, <1>5, <1>6, <1>7 DEF TypeOK, RequestsOK

LEMMA WorkerTypeNext ==
  ASSUME TypeOK, NEW w \in Workers, WorkerStep(w) \/ WorkerFails(w)
  PROVE  TypeOK'
  <1>1. WorkersOK /\ None \notin Jobs
    BY Openface3Assumption DEF TypeOK, WorkersOK
  <1>2. WorkersOK'
    <2> USE DEF WorkerPcs, WorkerRests
    <2>1. CASE Pop(w)
      BY <1>1, <2>1, WorkerSets DEF Pop, TypeOK
    <2>2. CASE Store(w)
      BY <1>1, <2>2, WorkerSets, WorkerGoes DEF Store
    <2>3. CASE MarkJob(w) \/ FailJob(w) \/ Infer(w) \/ WorkerFails(w)
      BY <1>1, <2>3, WorkerSets, WorkerGoes DEF MarkJob, FailJob, Infer, WorkerFails
    <2> QED BY <2>1, <2>2, <2>3 DEF WorkerStep
  <1>3. UNCHANGED <<upload, object, req>>
    BY DEF WorkerStep, Pop, MarkJob, Infer, Store, FailJob, WorkerFails
  <1>4. job' \in [Jobs -> Row] /\ frames' \in [Jobs -> Nat] /\ list' \in Seq(Jobs)
    <2>1. CASE MarkJob(w) \/ FailJob(w)
      BY <2>1, StatusSet DEF TypeOK, MarkJob, FailJob
    <2>2. CASE Store(w)
      <3>1. PICK n \in {0, 1} :
              \/ /\ frames' = [frames EXCEPT ![wk[w].id] = @ + n]
                 /\ job' = [job EXCEPT ![wk[w].id] = [status |-> "COMPLETED", counted |-> n]]
              \/ UNCHANGED <<job, frames>>
        BY <2>2 DEF Store
      <3>2. [status |-> "COMPLETED", counted |-> n] \in Row
        BY DEF Row
      <3>3. wk[w].id \in Jobs
        BY <2>2, WorkerType DEF Store
      <3>4. job' \in [Jobs -> Row]
        BY <3>1, <3>2, <3>3 DEF TypeOK
      <3>5. frames' \in [Jobs -> Nat]
        BY <3>1, <3>3 DEF TypeOK
      <3> QED BY <2>2, <3>4, <3>5 DEF TypeOK, Store
    <2>3. CASE Pop(w)
      <3>1. Tail(list) \in Seq(Jobs)
        BY <2>3 DEF TypeOK, Pop
      <3> QED BY <2>3, <3>1 DEF TypeOK, Pop
    <2>4. CASE Infer(w) \/ WorkerFails(w)
      BY <2>4 DEF TypeOK, Infer, WorkerFails
    <2> QED BY <2>1, <2>2, <2>3, <2>4 DEF WorkerStep
  <1> QED BY <1>2, <1>3, <1>4 DEF TypeOK, WorkersOK

LEMMA TypeNext == TypeOK /\ [Next]_vars => TypeOK'
  <1> SUFFICES ASSUME TypeOK, [Next]_vars PROVE TypeOK'
    OBVIOUS
  <1>1. CASE Upload \/ FailSegment \/ UNCHANGED vars
    BY <1>1 DEF TypeOK, Upload, FailSegment, vars
  <1>2. CASE ApiCrash \/ WorkerCrash
    BY <1>2 DEF TypeOK, ApiCrash, WorkerCrash, RequestPcs, WorkerPcs
  <1> QED BY <1>1, <1>2, RequestTypeNext, WorkerTypeNext DEF Next

(* Tables, list, requests and threads keep their types, however requests   *)
(* overlap.                                                                *)
THEOREM TypeCorrect == Spec => []TypeOK
  <1>1. Init => TypeOK
    BY InitInv DEF Inv
  <1> QED BY <1>1, TypeNext, PTL DEF Spec
-----------------------------------------------------------------------------
(* The invariant *)

LEMMA HeldId ==
  ASSUME Inv, NEW w \in Workers, wk[w].pc # "idle"
  PROVE  /\ wk[w].id \in Jobs /\ wk[w].id # None
         /\ \A v \in Workers \ {w} : wk[v].id # wk[w].id
         /\ \A i \in DOMAIN list : list[i] # wk[w].id
         /\ \A r \in Requests : Pushing(r) => req[r].id # wk[w].id
  BY WorkerType DEF Inv, Travels, ProcessedAlone, ListedOrHeld, PushedOrHeld

(* A request that ends up neither pushing nor resetting, and changes no    *)
(* more than itself.                                                       *)
LEMMA RequestCalm ==
  ASSUME Inv, TypeOK', UNCHANGED <<job, frames, list, wk>>,
         \A q \in Requests : req'[q] = req[q] \/ req'[q].pc \notin {"push", "reset"}
  PROVE  Inv'
  BY DEF Inv, Travels, Listed1, Pushed1, ListedOrPushed, ListedOrHeld, PushedOrHeld,
         ProcessedAlone, Statuses, Waits, Runs, Reset1, FramesOnce, Pushing, Resetting

(* A thread that goes on with its job, or drops it, and writes nothing.    *)
LEMMA WorkerCalm ==
  ASSUME Inv, TypeOK', UNCHANGED <<job, frames, list, req>>,
         \A v \in Workers :
           \/ wk'[v] = wk[v]
           \/ wk'[v].id = None
           \/ /\ wk'[v].id = wk[v].id
              /\ \/ wk[v].pc = "mark" /\ wk'[v].pc = "reject"
                 \/ /\ wk[v].pc \in {"work", "store"}
                    /\ wk'[v].pc \in {"store", "failed"}
  PROVE  Inv'
  <1>1. \A v \in Workers : wk'[v].id = None => wk'[v].pc = "idle"
    BY DEF TypeOK
  <1>2. \A i \in DOMAIN list : list[i] # None
    BY Openface3Assumption DEF Inv, TypeOK
  <1>3. \A r \in Requests : Pushing(r) => req[r].id # None
    BY RequestType, Openface3Assumption DEF Inv, Pushing
  <1>4. Travels'
    BY <1>1, <1>2, <1>3 DEF Inv, Travels, Listed1, Pushed1, ListedOrPushed, ListedOrHeld,
                            PushedOrHeld, ProcessedAlone, Pushing
  <1>5. Statuses' /\ Reset1' /\ FramesOnce'
    BY <1>1 DEF Inv, Statuses, Waits, Runs, Reset1, FramesOnce, Pushing, Resetting
  <1> QED BY <1>4, <1>5 DEF Inv

(* A thread that writes the row of its job: nobody else has it.            *)
LEMMA HolderWrites ==
  ASSUME Inv, TypeOK', NEW w \in Workers, wk[w].pc # "idle", UNCHANGED <<list, req>>,
         NEW j \in Jobs, j = wk[w].id, job[j].status \in {"PENDING", "PROCESSING"},
         \A k \in Jobs \ {j} : job'[k] = job[k] /\ frames'[k] = frames[k],
         frames'[j] # 0 => job'[j].status = "COMPLETED" /\ frames'[j] = job'[j].counted,
         \A v \in Workers \ {w} : wk'[v] = wk[v],
         \/ wk'[w].id = None
         \/ wk'[w].id = j /\ wk'[w].pc = "work" /\ job'[j].status = "PROCESSING"
  PROVE  Inv'
  <1>1. /\ \A v \in Workers \ {w} : wk[v].id # j
        /\ \A i \in DOMAIN list : list[i] # j /\ list[i] \in Jobs
        /\ \A r \in Requests : Pushing(r) => req[r].id \in Jobs \ {j}
    BY HeldId, RequestType DEF Inv, TypeOK, Pushing
  <1>2. \A r \in Requests : Resetting(r) => req[r].id \in Jobs \ {j}
    BY RequestType DEF Inv, Statuses, Resetting
  <1>3. j # None /\ (wk'[w].id = None => wk'[w].pc = "idle")
    BY Openface3Assumption DEF TypeOK
  <1>4. \A v \in Workers : wk'[v].pc # "idle" => wk'[v].id \in Jobs
    BY DEF TypeOK
  <1>5. Travels'
    BY <1>1, <1>3, Openface3Assumption
       DEF Inv, Travels, Listed1, Pushed1, ListedOrPushed, ListedOrHeld, PushedOrHeld,
           ProcessedAlone, Pushing
  <1>6. Statuses'
    BY <1>1, <1>2, <1>3, <1>4 DEF Inv, Statuses, Waits, Runs, Pushing, Resetting
  <1>7. Reset1' /\ FramesOnce'
    BY DEF Inv, Reset1, FramesOnce, Resetting
  <1> QED BY <1>5, <1>6, <1>7 DEF Inv

(* A row that goes from a status in which its id is nowhere to pending,    *)
(* with one request to push it.                                            *)
LEMMA Enters ==
  ASSUME Inv, TypeOK', NEW r \in Requests, NEW j \in Jobs,
         UNCHANGED <<frames, list, wk>>, SetStatus(j, "PENDING"),
         job[j].status \in {"absent", "FAILED"},
         \A q \in Requests \ {r} : req'[q] = req[q] /\ (Resetting(q) => req[q].id # j),
         req'[r].pc = "push", req'[r].id = j
  PROVE  Inv'
  <1>1. /\ job'[j].status = "PENDING" /\ job'[j].counted = job[j].counted
        /\ \A k \in Jobs \ {j} : job'[k] = job[k]
    BY DEF Inv, TypeOK, Row, SetStatus
  <1>2. ~Waits(j) /\ ~Runs(j)
    BY DEF Waits, Runs
  <1>3. \A i \in DOMAIN list : list[i] \in Jobs \ {j}
    <2>1. \A i \in DOMAIN list : list[i] \in Jobs
      BY DEF Inv, TypeOK
    <2> QED BY <1>2, <2>1 DEF Inv, Statuses
  <1>4. \A q \in Requests : Pushing(q) => req[q].id \in Jobs \ {j}
    BY <1>2, RequestType DEF Inv, Statuses, Pushing
  <1>5. \A w \in Workers : wk[w].id # j /\ (wk[w].pc # "idle" => wk[w].id \in Jobs \ {j})
    BY <1>2, WorkerType, Openface3Assumption DEF Inv, Statuses, WorkerPcs
  <1>6. \A q \in Requests \ {r} : Resetting(q) => req[q].id \in Jobs \ {j}
    BY RequestType DEF Inv, Resetting
  <1>7. /\ \A q \in Requests : Pushing(q)' => q = r \/ (Pushing(q) /\ req'[q].id = req[q].id)
        /\ \A q \in Requests :
             Resetting(q)' => q # r /\ Resetting(q) /\ req'[q].id = req[q].id
    BY DEF Pushing, Resetting
  <1>8. Listed1' /\ ListedOrHeld' /\ ProcessedAlone'
    BY DEF Inv, Travels, Listed1, ListedOrHeld, ProcessedAlone
  <1>9. Pushed1' /\ ListedOrPushed' /\ PushedOrHeld'
    BY <1>3, <1>4, <1>5, <1>7 DEF Inv, Travels, Pushed1, ListedOrPushed, PushedOrHeld
  <1>10. Statuses'
    <2>1. \A i \in DOMAIN list : Waits(list[i])'
      BY <1>1, <1>3 DEF Inv, Statuses, Waits
    <2>2. \A q \in Requests : (Pushing(q) => Waits(req[q].id))'
      BY <1>1, <1>4, <1>7 DEF Inv, Statuses, Waits
    <2>3. \A q \in Requests : Resetting(q)' => job'[req'[q].id].status \in {"FAILED", "gone"}
      BY <1>1, <1>6, <1>7 DEF Inv, Statuses
    <2>4. \A w \in Workers :
            /\ wk[w].pc \in {"mark", "reject"} => Waits(wk[w].id)'
            /\ wk[w].pc \in {"work", "store", "failed"} => Runs(wk[w].id)'
      BY <1>1, <1>5 DEF Inv, Statuses, Waits, Runs
    <2> QED BY <2>1, <2>2, <2>3, <2>4 DEF Statuses, Pushing, Resetting
  <1>11. Reset1'
    BY <1>7 DEF Inv, Reset1
  <1>12. FramesOnce'
    BY <1>1 DEF Inv, FramesOnce
  <1> QED BY <1>8, <1>9, <1>10, <1>11, <1>12 DEF Inv, Travels
-----------------------------------------------------------------------------
(* Requests *)

LEMMA ReqParts ==
  ASSUME Inv
  PROVE  RequestsOK /\ WorkersOK /\ None \notin Jobs
  BY Openface3Assumption DEF Inv, TypeOK, RequestsOK, WorkersOK

LEMMA CreateInv ==
  ASSUME Inv, TypeOK', NEW r \in Requests, Create(r)
  PROVE  Inv'
  <1>1. CASE RequestEnds(r) /\ UNCHANGED job
    <2>1. req'[r].pc = "idle" /\ \A q \in Requests \ {r} : req'[q] = req[q]
      BY <1>1, ReqParts, RequestSets DEF RequestEnds, RequestPcs
    <2> QED BY <1>1, <2>1, RequestCalm DEF Create
  <1>2. ASSUME NEW j \in Jobs, job[j].status = "absent", SetStatus(j, "PENDING"),
               RequestSet(r, "push", j)
        PROVE  Inv'
    <2>1. req'[r].pc = "push" /\ req'[r].id = j /\ \A q \in Requests \ {r} : req'[q] = req[q]
      BY <1>2, ReqParts, RequestSets DEF RequestPcs
    <2>2. \A q \in Requests : Resetting(q) => req[q].id # j
      BY <1>2 DEF Inv, Statuses
    <2> QED BY <1>2, <2>1, <2>2, Enters DEF Create
  <1> QED BY <1>1, <1>2 DEF Create

LEMMA ResetInv ==
  ASSUME Inv, TypeOK', NEW r \in Requests, RetryReset(r)
  PROVE  Inv'
  <1>1. PICK j \in Jobs : j = req[r].id /\ req[r].pc = "reset"
    BY RequestType DEF RetryReset, Inv
  <1>2. CASE job[j].status = "gone"
    <2>1. req'[r].pc = "idle" /\ \A q \in Requests \ {r} : req'[q] = req[q]
      BY <1>1, <1>2, ReqParts, RequestSets DEF RetryReset, RequestEnds, RequestPcs
    <2> QED BY <1>1, <1>2, <2>1, RequestCalm DEF RetryReset
  <1>3. CASE job[j].status # "gone"
    <2>1. /\ req'[r].pc = "push" /\ req'[r].id = j
          /\ \A q \in Requests \ {r} : req'[q] = req[q]
      BY <1>1, <1>3, ReqParts, RequestGoes DEF RetryReset, RequestPcs
    <2>2. job[j].status = "FAILED" /\ \A q \in Requests \ {r} : Resetting(q) => req[q].id # j
      BY <1>1, <1>3 DEF Inv, Statuses, Reset1, Resetting
    <2> QED BY <1>1, <1>3, <2>1, <2>2, Enters DEF RetryReset
  <1> QED BY <1>2, <1>3

LEMMA RetryInv ==
  ASSUME OneRetry, Inv, TypeOK', NEW r \in Requests, Retry(r)
  PROVE  Inv'
  <1>1. PICK j \in Jobs : /\ job[j].status = "FAILED"
                          /\ \A q \in Requests : req[q] # [pc |-> "reset", id |-> j]
                          /\ RequestSet(r, "reset", j)
    BY DEF Retry
  <1>2. \A q \in Requests : Resetting(q) => req[q].id # j
    BY <1>1 DEF Inv, TypeOK, Resetting
  <1>3. req'[r].pc = "reset" /\ req'[r].id = j /\ \A q \in Requests \ {r} : req'[q] = req[q]
    BY <1>1, ReqParts, RequestSets DEF RequestPcs
  <1>4. UNCHANGED <<job, frames, list, wk>>
    BY DEF Retry
  <1>5. \A q \in Requests : Pushing(q)' => q # r /\ Pushing(q) /\ req'[q] = req[q]
    BY <1>3 DEF Pushing
  <1>6. Travels'
    BY <1>4, <1>5 DEF Inv, Travels, Listed1, Pushed1, ListedOrPushed, ListedOrHeld,
                      PushedOrHeld, ProcessedAlone
  <1>7. Statuses' /\ Reset1' /\ FramesOnce'
    BY <1>1, <1>2, <1>3, <1>4, <1>5
       DEF Inv, Statuses, Waits, Runs, Reset1, FramesOnce, Resetting
  <1> QED BY <1>6, <1>7 DEF Inv

LEMMA PushInv ==
  ASSUME Inv, TypeOK', NEW r \in Requests, Push(r)
  PROVE  Inv'
  <1>1. PICK j \in Jobs : j = req[r].id /\ Pushing(r)
    BY RequestType DEF Push, Pushing, Inv
  <1>2. /\ DOMAIN list' = DOMAIN list \cup {Len(list) + 1}
        /\ list'[Len(list) + 1] = j
        /\ \A i \in DOMAIN list : i # Len(list) + 1 /\ list'[i] = list[i]
    BY <1>1 DEF Push, Inv, TypeOK
  <1>3. req'[r].pc = "idle" /\ \A q \in Requests \ {r} : req'[q] = req[q]
    BY ReqParts, RequestSets DEF Push, RequestEnds, RequestPcs
  <1>4. /\ \A q \in Requests : Pushing(q)' => q # r /\ Pushing(q) /\ req'[q] = req[q]
        /\ \A q \in Requests : Resetting(q)' => Resetting(q) /\ req'[q] = req[q]
    BY <1>3 DEF Pushing, Resetting
  <1>5. UNCHANGED <<job, frames, wk>>
    BY DEF Push
  <1>6. /\ \A i \in DOMAIN list : list[i] # j
        /\ \A w \in Workers : wk[w].id # j
        /\ \A q \in Requests : Pushing(q)' => req[q].id # j
        /\ Waits(j)
    BY <1>1, <1>4 DEF Inv, Travels, ListedOrPushed, PushedOrHeld, Pushed1, Statuses
  <1>7. Listed1'
    BY <1>2, <1>6 DEF Inv, Travels, Listed1
  <1>8. Pushed1' /\ PushedOrHeld' /\ ProcessedAlone'
    BY <1>4, <1>5 DEF Inv, Travels, Pushed1, PushedOrHeld, ProcessedAlone
  <1>9. ListedOrPushed' /\ ListedOrHeld'
    BY <1>2, <1>4, <1>5, <1>6 DEF Inv, Travels, ListedOrPushed, ListedOrHeld
  <1>10. Statuses'
    BY <1>2, <1>4, <1>5, <1>6 DEF Inv, Statuses, Waits, Runs
  <1>11. Reset1' /\ FramesOnce'
    BY <1>4, <1>5 DEF Inv, Reset1, FramesOnce
  <1> QED BY <1>7, <1>8, <1>9, <1>10, <1>11 DEF Inv, Travels

LEMMA DeleteJobInv ==
  ASSUME Inv, TypeOK', NEW r \in Requests, BackfillDeleteJob(r)
  PROVE  Inv'
  <1>1. PICK j \in Jobs : j = req[r].id
    BY RequestType DEF BackfillDeleteJob, Inv
  <1>2. /\ req'[r].pc \in {"idle", "create"}
        /\ \A q \in Requests \ {r} : req'[q] = req[q]
    BY ReqParts, RequestSets DEF BackfillDeleteJob, RequestEnds, RequestPcs
  <1>3. CASE UNCHANGED <<job, frames>>
    BY <1>2, <1>3, RequestCalm DEF BackfillDeleteJob
  <1>4. CASE SetStatus(j, "gone") /\ frames' = [frames EXCEPT ![j] = 0]
    <2>1. /\ job'[j].status = "gone" /\ frames'[j] = 0
          /\ \A k \in Jobs \ {j} : job'[k] = job[k] /\ frames'[k] = frames[k]
      BY <1>4 DEF Inv, TypeOK, Row, SetStatus
    <2>2. \A k \in Jobs : /\ Waits(k) => Waits(k)'
                          /\ Runs(k) => Runs(k)'
                          /\ job[k].status \in {"FAILED", "gone"} => job'[k].status \in {"FAILED", "gone"}
      BY <2>1 DEF Waits, Runs
    <2>3. /\ \A q \in Requests : Pushing(q)' => Pushing(q) /\ req'[q] = req[q]
          /\ \A q \in Requests : Resetting(q)' => Resetting(q) /\ req'[q] = req[q]
      BY <1>2 DEF Pushing, Resetting
    <2>4. UNCHANGED <<list, wk>>
      BY DEF BackfillDeleteJob
    <2>5. Travels' /\ Reset1'
      BY <2>3, <2>4 DEF Inv, Travels, Listed1, Pushed1, ListedOrPushed, ListedOrHeld,
                        PushedOrHeld, ProcessedAlone, Reset1
    <2>6. \A i \in DOMAIN list : list[i] \in Jobs
      BY DEF Inv, TypeOK
    <2>7. /\ \A q \in Requests : Pushing(q) \/ Resetting(q) => req[q].id \in Jobs
          /\ \A w \in Workers : wk[w].pc # "idle" => wk[w].id \in Jobs
      BY RequestType, WorkerType DEF Inv, Pushing, Resetting
    <2>8. Statuses'
      BY <2>2, <2>3, <2>4, <2>6, <2>7 DEF Inv, Statuses
    <2>9. FramesOnce'
      BY <2>1 DEF Inv, FramesOnce
    <2> QED BY <2>5, <2>8, <2>9 DEF Inv
  <1> QED BY <1>1, <1>3, <1>4 DEF BackfillDeleteJob

LEMMA RequestInv ==
  ASSUME OneRetry, Inv, TypeOK', NEW r \in Requests, Request(r) \/ RequestStep(r) \/ RequestFails(r)
  PROVE  Inv'
  <1>1. ASSUME \E pc \in RequestPcs \ {"push", "reset"} :
                 \/ \E id \in Jobs \cup {None} : RequestSet(r, pc, id)
                 \/ RequestGoto(r, pc)
        PROVE  \A q \in Requests : req'[q] = req[q] \/ req'[q].pc \notin {"push", "reset"}
    BY <1>1, ReqParts DEF RequestSet, RequestGoto, RequestsOK
  <1>2. CASE Complete(r) \/ CompleteExists(r) \/ CompleteUpdate(r) \/ CompleteConfig(r)
             \/ Backfill(r) \/ RequestFails(r)
    <2>1. \E pc \in RequestPcs \ {"push", "reset"} :
            \/ \E id \in Jobs \cup {None} : RequestSet(r, pc, id)
            \/ RequestGoto(r, pc)
      BY <1>2 DEF Complete, CompleteExists, CompleteUpdate, CompleteConfig, Backfill, Live,
                  RequestFails, RequestEnds, RequestPcs
    <2> QED BY <1>1, <1>2, <2>1, RequestCalm
            DEF Complete, CompleteExists, CompleteUpdate, CompleteConfig, Backfill, RequestFails
  <1>3. CASE BackfillDeleteFrames(r)
    <2>1. RequestGoto(r, "delete_job") /\ frames' = [frames EXCEPT ![req[r].id] = 0]
      BY <1>3 DEF BackfillDeleteFrames
    <2>2. /\ \A q \in Requests : Pushing(q)' => Pushing(q) /\ req'[q] = req[q]
          /\ \A q \in Requests : Resetting(q)' => Resetting(q) /\ req'[q] = req[q]
      BY <2>1, ReqParts DEF RequestGoto, RequestsOK, Pushing, Resetting
    <2>3. UNCHANGED <<job, list, wk>>
      BY <1>3 DEF BackfillDeleteFrames
    <2>4. Travels' /\ Reset1' /\ Statuses'
      BY <2>2, <2>3 DEF Inv, Travels, Listed1, Pushed1, ListedOrPushed, ListedOrHeld,
                        PushedOrHeld, ProcessedAlone, Reset1, Statuses, Waits, Runs
    <2>5. FramesOnce'
      BY <2>1, <2>3 DEF Inv, TypeOK, FramesOnce
    <2> QED BY <2>4, <2>5 DEF Inv
  <1> QED BY <1>2, <1>3, CreateInv, PushInv, RetryInv, ResetInv, DeleteJobInv
          DEF Request, RequestStep
-----------------------------------------------------------------------------
(* Threads *)

LEMMA PopInv ==
  ASSUME Inv, TypeOK', NEW w \in Workers, Pop(w)
  PROVE  Inv'
  <1>1. /\ list # <<>> /\ list' = Tail(list) /\ WorkerSet(w, "mark", Head(list))
        /\ UNCHANGED <<job, frames, req>>
    BY DEF Pop
  <1>2. PICK j \in Jobs : j = Head(list) /\ j = list[1] /\ 1 \in DOMAIN list
    BY <1>1 DEF Inv, TypeOK
  <1>3. \A i \in DOMAIN list' : /\ i + 1 \in DOMAIN list /\ list'[i] = list[i + 1]
                                /\ i \in Nat /\ i + 1 # 1
    BY <1>1 DEF Inv, TypeOK
  <1>4. wk'[w].pc = "mark" /\ wk'[w].id = j /\ \A v \in Workers \ {w} : wk'[v] = wk[v]
    BY <1>1, <1>2, ReqParts, WorkerSets DEF WorkerPcs
  <1>5. /\ \A i \in DOMAIN list' : list'[i] # j
        /\ \A v \in Workers : wk[v].id # j
        /\ \A r \in Requests : Pushing(r) => req[r].id # j
        /\ Waits(j)
    BY <1>2, <1>3 DEF Inv, Travels, Listed1, ListedOrHeld, ListedOrPushed, Statuses
  <1>6. \A i, k \in DOMAIN list' : i + 1 = k + 1 => i = k
    BY <1>3
  <1>7. Listed1'
    BY <1>3, <1>6 DEF Inv, Travels, Listed1
  <1>8. Pushed1' /\ ListedOrPushed'
    BY <1>1, <1>3 DEF Inv, Travels, Pushed1, ListedOrPushed, Pushing
  <1>9. ListedOrHeld' /\ PushedOrHeld' /\ ProcessedAlone'
    BY <1>1, <1>3, <1>4, <1>5
       DEF Inv, Travels, ListedOrHeld, PushedOrHeld, ProcessedAlone, Pushing
  <1>10. Statuses'
    BY <1>1, <1>3, <1>4, <1>5 DEF Inv, Statuses, Waits, Runs, Pushing, Resetting
  <1>11. Reset1' /\ FramesOnce'
    BY <1>1 DEF Inv, Reset1, FramesOnce, Resetting
  <1> QED BY <1>7, <1>8, <1>9, <1>10, <1>11 DEF Inv, Travels

LEMMA WorkerInv ==
  ASSUME Inv, TypeOK', NEW w \in Workers, WorkerStep(w) \/ WorkerFails(w)
  PROVE  Inv'
  <1> USE ReqParts DEF WorkerRests
  <1>1. CASE Infer(w) \/ WorkerFails(w)
    <2>1. \/ WorkerSet(w, "idle", None)
          \/ wk[w].pc = "mark" /\ WorkerGoto(w, "reject")
          \/ wk[w].pc \in {"work", "store"} /\ \E pc \in {"store", "failed"} : WorkerGoto(w, pc)
      BY <1>1 DEF Infer, WorkerFails
    <2>2. \/ wk'[w].id = None
          \/ wk'[w].id = wk[w].id /\ wk[w].pc = "mark" /\ wk'[w].pc = "reject"
          \/ wk'[w].id = wk[w].id /\ wk[w].pc \in {"work", "store"} /\ wk'[w].pc \in {"store", "failed"}
      BY <2>1, WorkerSets, WorkerGoes DEF WorkerPcs
    <2>3. \A v \in Workers \ {w} : wk'[v] = wk[v]
      BY <2>1, WorkerSets, WorkerGoes DEF WorkerPcs
    <2> QED BY <1>1, <2>2, <2>3, WorkerCalm DEF Infer, WorkerFails
  <1>2. CASE MarkJob(w) \/ FailJob(w) \/ Store(w)
    <2>1. PICK j \in Jobs : j = wk[w].id /\ wk[w].pc # "idle"
      BY <1>2, HeldId DEF MarkJob, FailJob, Store
    <2>2. /\ UNCHANGED <<list, req>>
          /\ \A v \in Workers \ {w} : wk'[v] = wk[v]
      BY <1>2, WorkerSets, WorkerGoes DEF MarkJob, FailJob, Store, WorkerPcs
    <2>3. wk[w].pc \in {"mark", "reject"} => Waits(j)
      BY <2>1 DEF Inv, Statuses
    <2>4. wk[w].pc \in {"work", "store", "failed"} => Runs(j)
      BY <2>1 DEF Inv, Statuses
    <2>5. CASE job[j].status = "gone"
      <3>1. /\ UNCHANGED <<job, frames>>
            /\ \/ wk'[w].id = None
               \/ /\ wk'[w].id = j
                  /\ \/ wk[w].pc = "mark" /\ wk'[w].pc = "work"
                     \/ wk[w].pc = "store" /\ wk'[w].pc = "failed"
        BY <1>2, <2>1, <2>5, WorkerSets, WorkerGoes DEF MarkJob, FailJob, Store, WorkerPcs
      <3>2. \/ wk'[w].id = None
            \/ /\ wk'[w].id = j /\ Runs(j)' /\ wk'[w].pc \in {"work", "failed"}
        BY <2>5, <3>1 DEF Runs
      <3>3. Travels'
        <4>1. /\ \A i \in DOMAIN list : list[i] # None
              /\ \A r \in Requests : Pushing(r) => req[r].id # None
          BY RequestType, Openface3Assumption DEF Inv, TypeOK, Pushing
        <4> QED BY <2>1, <2>2, <3>2, <4>1
                DEF Inv, Travels, Listed1, Pushed1, ListedOrPushed, ListedOrHeld, PushedOrHeld,
                    ProcessedAlone, Pushing
      <3>4. wk'[w].id = None => wk'[w].pc = "idle"
        BY DEF TypeOK
      <3>5. Statuses'
        BY <2>1, <2>2, <3>1, <3>2, <3>4 DEF Inv, Statuses, Waits, Runs, Pushing, Resetting
      <3> QED BY <2>2, <3>1, <3>3, <3>5 DEF Inv, Reset1, FramesOnce, Resetting
    <2>6. CASE job[j].status # "gone"
      <3>1. job[j].status \in {"PENDING", "PROCESSING"} /\ frames[j] = 0
        <4>1. job[j].status \in {"PENDING", "PROCESSING"}
          BY <1>2, <2>3, <2>4, <2>6 DEF MarkJob, FailJob, Store, Waits, Runs
        <4> QED BY <4>1 DEF Inv, FramesOnce
      <3>2. /\ \A k \in Jobs \ {j} : job'[k] = job[k] /\ frames'[k] = frames[k]
            /\ frames'[j] # 0 => job'[j].status = "COMPLETED" /\ frames'[j] = job'[j].counted
        BY <1>2, <2>1, <2>6, <3>1 DEF MarkJob, FailJob, Store, SetStatus, Inv, TypeOK, Row
      <3>3. \/ wk'[w].id = None
            \/ wk'[w].id = j /\ wk'[w].pc = "work" /\ job'[j].status = "PROCESSING"
        BY <1>2, <2>1, <2>6, WorkerSets, WorkerGoes
           DEF MarkJob, FailJob, Store, SetStatus, Inv, TypeOK, Row, WorkerPcs
      <3> QED BY <2>1, <2>2, <3>1, <3>2, <3>3, HolderWrites
    <2> QED BY <2>5, <2>6
  <1> QED BY <1>1, <1>2, PopInv DEF WorkerStep

LEMMA NextInv == ASSUME OneRetry, Inv, [Next]_vars PROVE Inv'
  <1>1. TypeOK'
    BY TypeNext DEF Inv
  <1>2. CASE Upload \/ FailSegment \/ UNCHANGED vars
    BY <1>1, <1>2, RequestCalm DEF Upload, FailSegment, vars
  <1>3. CASE ApiCrash
    <2>1. \A r \in Requests : req'[r].pc = "idle"
      BY <1>3 DEF ApiCrash
    <2> QED BY <1>1, <1>3, <2>1, RequestCalm DEF ApiCrash
  <1>4. CASE WorkerCrash
    <2>1. \A w \in Workers : wk'[w].id = None
      BY <1>4 DEF WorkerCrash
    <2> QED BY <1>1, <1>4, <2>1, WorkerCalm DEF WorkerCrash
  <1> QED BY <1>1, <1>2, <1>3, <1>4, RequestInv, WorkerInv DEF Next

LEMMA InvAlways == OneRetry /\ Spec => []Inv
  <1> SUFFICES ASSUME OneRetry PROVE Spec => []Inv
    OBVIOUS
  <1>1. Inv /\ [Next]_vars => Inv'
    BY NextInv
  <1> QED BY <1>1, InitInv, PTL DEF Spec

(* As long as retries of a job do not overlap, no job is in two threads'   *)
(* hands, whatever else overlaps, fails or crashes.                        *)
THEOREM ProcessedAloneAlways == OneRetry /\ Spec => []ProcessedAlone
  BY InvAlways, PTL DEF Inv, Travels

(* Under the same condition stored frames are those of one completed       *)
(* analysis, as many as the job reports.                                   *)
THEOREM FramesOnceAlways == OneRetry /\ Spec => []FramesOnce
  BY InvAlways, PTL DEF Inv
-----------------------------------------------------------------------------
(* The refinement of JobLifecycle: what it sees of the rows and threads    *)
State  == [j \in Jobs |-> JobState(job[j].status)]
Holder == [w \in Workers |-> IF HoldsJob(w) THEN wk[w].id ELSE None]

JLNext == [JL!Next]_<<State, Holder>>

LEMMA HolderFact ==
  ASSUME Inv, NEW w \in Workers
  PROVE  /\ wk[w].pc \in {"work", "store", "failed"} => wk[w].id \in Jobs /\ Runs(wk[w].id)
         /\ HoldsJob(w) => Holder[w] = wk[w].id
         /\ ~HoldsJob(w) => Holder[w] = None
  BY HeldId DEF Inv, Statuses, HoldsJob, Holder

LEMMA Stutters ==
  ASSUME UNCHANGED job,
         \A w \in Workers : HoldsJob(w)' = HoldsJob(w) /\ (HoldsJob(w) => wk'[w].id = wk[w].id)
  PROVE  JLNext
  <1>1. State' = State
    BY DEF State
  <1>2. Holder' = Holder
    BY DEF Holder
  <1> QED BY <1>1, <1>2 DEF JLNext

LEMMA Abandons ==
  ASSUME UNCHANGED job, NEW W \in SUBSET Workers,
         \A w \in W : ~HoldsJob(w)', \A w \in Workers \ W : wk'[w] = wk[w]
  PROVE  JLNext
  <1>1. State' = State
    BY DEF State
  <1>2. Holder' = [w \in Workers |-> IF w \in W THEN None ELSE Holder[w]]
    BY DEF Holder, HoldsJob
  <1>3. JL!Abandon(W)
    BY <1>1, <1>2 DEF JL!Abandon, State, Holder
  <1> QED BY <1>3 DEF JLNext, JL!Next

(* A status is set, and nobody's job comes or goes. *)
LEMMA StateSet ==
  ASSUME TypeOK, NEW j \in Jobs, NEW status, SetStatus(j, status)
  PROVE  State' = [State EXCEPT ![j] = JobState(status)]
  BY DEF TypeOK, Row, SetStatus, State, JobState

LEMMA HolderKept ==
  ASSUME TypeOK, NEW j \in Jobs, NEW status \in {"PENDING", "FAILED"}, SetStatus(j, status),
         job[j].status # "gone", UNCHANGED wk
  PROVE  Holder' = Holder
  <1>1. \A k \in Jobs : job'[k].status = "gone" <=> job[k].status = "gone"
    BY DEF TypeOK, Row, SetStatus
  <1>2. \A w \in Workers : wk[w].pc \in {"work", "store", "failed"} => wk[w].id \in Jobs
    BY DEF TypeOK
  <1>3. \A w \in Workers : HoldsJob(w)' = HoldsJob(w)
    BY <1>1, <1>2 DEF HoldsJob
  <1> QED BY <1>3 DEF Holder

LEMMA Submits ==
  ASSUME Inv, NEW r \in Requests, Create(r)
  PROVE  JLNext
  <1>1. CASE UNCHANGED job
    BY <1>1, Stutters DEF Create, HoldsJob
  <1>2. CASE \E j \in Jobs : job[j].status = "absent" /\ SetStatus(j, "PENDING")
    <2>1. PICK j \in Jobs : job[j].status = "absent" /\ SetStatus(j, "PENDING")
      BY <1>2
    <2>2. State[j] = "absent" /\ State' = [State EXCEPT ![j] = "waiting"]
      BY <2>1, StateSet DEF State, JobState, Inv
    <2>3. Holder' = Holder
      BY <2>1, HolderKept DEF Create, Inv
    <2>4. JL!Submit(j)
      BY <2>2, <2>3 DEF JL!Submit, State, Holder
    <2> QED BY <2>4 DEF JLNext, JL!Next
  <1> QED BY <1>1, <1>2 DEF Create

LEMMA PutsBack ==
  ASSUME Inv, NEW r \in Requests, RetryReset(r)
  PROVE  JLNext
  <1>1. PICK j \in Jobs : j = req[r].id /\ job[j].status \in {"FAILED", "gone"}
    BY RequestType DEF RetryReset, Inv, Statuses, Resetting
  <1>2. CASE job[j].status = "gone"
    BY <1>1, <1>2, Stutters DEF RetryReset, HoldsJob
  <1>3. CASE job[j].status = "FAILED"
    <2>1. SetStatus(j, "PENDING") /\ UNCHANGED wk
      BY <1>1, <1>3 DEF RetryReset
    <2>2. State' = [State EXCEPT ![j] = "waiting"]
      BY <2>1, StateSet DEF JobState, Inv
    <2>3. Holder' = Holder
      BY <1>3, <2>1, HolderKept DEF Inv
    <2>4. State[j] \in JL!Settled
      BY <1>3 DEF State, JobState, JL!Settled
    <2>5. State' = [k \in Jobs |-> IF k \in {j} THEN "waiting" ELSE State[k]]
      BY <2>2 DEF State
    <2>6. JL!PutBack({j})
      BY <2>3, <2>4, <2>5 DEF JL!PutBack, State, Holder
    <2> QED BY <2>6 DEF JLNext, JL!Next
  <1> QED BY <1>1, <1>2, <1>3

LEMMA Removes ==
  ASSUME Inv, NEW r \in Requests, BackfillDeleteJob(r)
  PROVE  JLNext
  <1>1. PICK j \in Jobs : j = req[r].id
    BY RequestType DEF BackfillDeleteJob, Inv
  <1>2. CASE job[j].status = "gone"
    BY <1>1, <1>2, Stutters DEF BackfillDeleteJob, HoldsJob
  <1>3. CASE job[j].status # "gone"
    <2>1. SetStatus(j, "gone") /\ UNCHANGED wk
      BY <1>1, <1>3 DEF BackfillDeleteJob
    <2>2. PICK W \in SUBSET Workers : W = {w \in Workers : HoldsJob(w) /\ wk[w].id = j}
      OBVIOUS
    <2>3. \A w \in Workers : HoldsJob(w)' <=> HoldsJob(w) /\ w \notin W
      <3>1. \A w \in Workers : wk[w].pc \in {"work", "store", "failed"} => wk[w].id \in Jobs
        BY DEF Inv, TypeOK
      <3>2. \A k \in Jobs : job'[k].status = "gone" <=> (k = j \/ job[k].status = "gone")
        BY <2>1 DEF SetStatus, Inv, TypeOK, Row
      <3> QED BY <2>1, <2>2, <3>1, <3>2 DEF HoldsJob
    <2>4. State' = [k \in Jobs |-> IF k \in {j} THEN "gone" ELSE State[k]]
      <3>1. State' = [State EXCEPT ![j] = "gone"]
        BY <2>1, StateSet DEF JobState, Inv
      <3> QED BY <3>1 DEF State
    <2>5. Holder' = [w \in Workers |-> IF w \in W THEN None ELSE Holder[w]]
      BY <2>1, <2>3 DEF Holder
    <2>6. JL!Remove({j}, W)
      BY <2>4, <2>5 DEF JL!Remove, State, Holder
    <2> QED BY <2>6 DEF JLNext, JL!Next
  <1> QED BY <1>2, <1>3

LEMMA Claims ==
  ASSUME Inv, NEW w \in Workers, MarkJob(w)
  PROVE  JLNext
  <1>1. PICK j \in Jobs : j = wk[w].id /\ Waits(j)
    BY HeldId DEF MarkJob, Inv, Statuses
  <1>2. /\ wk'[w].pc = "work" /\ wk'[w].id = j
        /\ \A v \in Workers \ {w} : wk'[v] = wk[v]
    BY <1>1 DEF MarkJob, WorkerGoto, Inv, TypeOK
  <1>3. CASE job[j].status = "gone"
    <2>1. UNCHANGED job
      BY <1>1, <1>3 DEF MarkJob
    <2>2. ~HoldsJob(w) /\ ~HoldsJob(w)'
      BY <1>1, <1>2, <1>3, <2>1 DEF MarkJob, HoldsJob
    <2> QED BY <1>2, <2>1, <2>2, Stutters DEF HoldsJob
  <1>4. CASE job[j].status = "PENDING"
    <2>1. SetStatus(j, "PROCESSING") /\ wk[w].pc = "mark"
      BY <1>1, <1>4 DEF MarkJob
    <2>2. State[j] = "waiting" /\ State' = [State EXCEPT ![j] = "running"]
      BY <1>4, <2>1, StateSet DEF State, JobState, Inv
    <2>3. /\ \A k \in Jobs : job'[k].status = "gone" <=> job[k].status = "gone"
          /\ \A v \in Workers : wk[v].pc \in {"work", "store", "failed"} => wk[v].id \in Jobs
      BY <1>4, <2>1 DEF SetStatus, Inv, TypeOK, Row
    <2>4. /\ ~HoldsJob(w) /\ HoldsJob(w)'
          /\ \A v \in Workers \ {w} : HoldsJob(v)' = HoldsJob(v)
      BY <1>2, <1>4, <2>1, <2>3 DEF HoldsJob
    <2>5. Holder[w] = None /\ Holder' = [Holder EXCEPT ![w] = j]
      BY <1>2, <2>4 DEF Holder
    <2>6. JL!Claim(w, j)
      BY <2>2, <2>5 DEF JL!Claim, State, Holder
    <2> QED BY <2>6 DEF JLNext, JL!Next
  <1> QED BY <1>1, <1>3, <1>4 DEF Waits

(* The holder of a job that is still there writes its outcome. *)
LEMMA Settling ==
  ASSUME Inv, NEW w \in Workers, HoldsJob(w), WorkerRests(w),
         NEW status \in {"COMPLETED", "FAILED"},
         job'[wk[w].id].status = status,
         \A k \in Jobs \ {wk[w].id} : job'[k].status = job[k].status
  PROVE  JLNext
  <1>1. PICK j \in Jobs : j = wk[w].id /\ job[j].status = "PROCESSING" /\ Holder[w] = j
    BY HolderFact DEF HoldsJob, Runs
  <1>2. /\ wk'[w].pc = "idle"
        /\ \A v \in Workers \ {w} : wk'[v] = wk[v]
    BY DEF WorkerRests, WorkerSet, Inv, TypeOK
  <1>3. State[j] = "running" /\ State' = [State EXCEPT ![j] = JobState(status)]
    BY <1>1 DEF State, JobState
  <1>4. /\ \A k \in Jobs : job'[k].status = "gone" <=> job[k].status = "gone"
        /\ \A v \in Workers : wk[v].pc \in {"work", "store", "failed"} => wk[v].id \in Jobs
    BY <1>1 DEF Inv, TypeOK
  <1>5. ~HoldsJob(w)' /\ \A v \in Workers \ {w} : HoldsJob(v)' = HoldsJob(v)
    BY <1>2, <1>4 DEF HoldsJob
  <1>6. Holder' = [Holder EXCEPT ![w] = None]
    BY <1>2, <1>5 DEF Holder
  <1>7. JobState(status) \in JL!Settled
    BY DEF JobState, JL!Settled
  <1>8. Holder[w] # None
    BY <1>1, Openface3Assumption
  <1>9. JL!Settle(w, JobState(status))
    BY <1>1, <1>3, <1>6, <1>8 DEF JL!Settle, State, Holder
  <1> QED BY <1>7, <1>9 DEF JLNext, JL!Next

LEMMA Rejects ==
  ASSUME Inv, NEW w \in Workers, NEW j \in Jobs, wk[w].pc = "reject",
         job[j].status = "PENDING", SetStatus(j, "FAILED"), WorkerRests(w)
  PROVE  JLNext
  <1>1. /\ wk'[w].pc = "idle"
        /\ \A v \in Workers \ {w} : wk'[v] = wk[v]
    BY DEF WorkerRests, WorkerSet, Inv, TypeOK
  <1>2. State[j] = "waiting" /\ State' = [State EXCEPT ![j] = "failed"]
    BY StateSet DEF State, JobState, Inv
  <1>3. /\ \A k \in Jobs : job'[k].status = "gone" <=> job[k].status = "gone"
        /\ \A v \in Workers : wk[v].pc \in {"work", "store", "failed"} => wk[v].id \in Jobs
    BY DEF SetStatus, Inv, TypeOK, Row
  <1>4. \A v \in Workers : HoldsJob(v)' = HoldsJob(v) /\ (HoldsJob(v) => wk'[v].id = wk[v].id)
    BY <1>1, <1>3 DEF HoldsJob
  <1>5. Holder' = Holder
    BY <1>4 DEF Holder
  <1>6. JL!Reject(j)
    BY <1>2, <1>5 DEF JL!Reject, State, Holder
  <1> QED BY <1>6 DEF JLNext, JL!Next

LEMMA WorkerRefines ==
  ASSUME Inv, NEW w \in Workers, WorkerStep(w) \/ WorkerFails(w)
  PROVE  JLNext
  <1>1. \A v \in Workers \ {w} : wk'[v] = wk[v]
    BY DEF WorkerStep, Pop, MarkJob, Infer, Store, FailJob, WorkerFails, WorkerRests,
           WorkerSet, WorkerGoto, Inv, TypeOK
  <1>2. ASSUME UNCHANGED job, HoldsJob(w)' = HoldsJob(w), HoldsJob(w) => wk'[w].id = wk[w].id
        PROVE  JLNext
    BY <1>1, <1>2, Stutters DEF HoldsJob
  <1>3. ASSUME UNCHANGED job, wk'[w].pc = "idle"
        PROVE  JLNext
    <2>1. {w} \in SUBSET Workers /\ \A v \in {w} : ~HoldsJob(v)'
      BY <1>3 DEF HoldsJob
    <2> QED BY <1>1, <1>3, <2>1, Abandons
  <1>4. WorkerRests(w) => wk'[w].pc = "idle"
    BY DEF WorkerRests, WorkerSet, Inv, TypeOK
  <1>5. ASSUME NEW pc \in WorkerPcs, WorkerGoto(w, pc)
        PROVE  wk'[w].pc = pc /\ wk'[w].id = wk[w].id
    BY <1>5 DEF WorkerGoto, Inv, TypeOK
  <1>6. CASE Pop(w)
    <2>1. wk[w].pc = "idle" /\ wk'[w].pc = "mark" /\ UNCHANGED job
      BY <1>6 DEF Pop, WorkerSet, Inv, TypeOK
    <2> QED BY <1>2, <2>1 DEF HoldsJob
  <1>7. CASE Infer(w)
    BY <1>2, <1>5, <1>7 DEF Infer, HoldsJob, WorkerPcs
  <1>8. CASE WorkerFails(w)
    BY <1>2, <1>3, <1>4, <1>5, <1>8 DEF WorkerFails, HoldsJob, WorkerPcs
  <1>9. CASE Store(w) \/ FailJob(w)
    <2>1. PICK j \in Jobs : j = wk[w].id
      BY <1>9, HeldId DEF Store, FailJob, Inv
    <2>2. CASE job[j].status = "gone"
      <3>1. /\ UNCHANGED job
            /\ wk'[w].pc = "idle" \/ (wk[w].pc = "store" /\ WorkerGoto(w, "failed"))
        BY <1>4, <1>9, <2>1, <2>2 DEF Store, FailJob
      <3> QED BY <1>2, <1>3, <1>5, <2>1, <2>2, <3>1 DEF HoldsJob, WorkerPcs
    <2>3. CASE job[j].status # "gone" /\ wk[w].pc # "reject"
      <3>1. HoldsJob(w) /\ WorkerRests(w)
        BY <1>9, <2>1, <2>3 DEF HoldsJob, Store, FailJob
      <3>2. PICK status \in {"COMPLETED", "FAILED"} :
              /\ job'[j].status = status
              /\ \A k \in Jobs \ {j} : job'[k].status = job[k].status
        <4>1. CASE Store(w)
          <5>1. PICK n \in {0, 1} :
                  job' = [job EXCEPT ![j] = [status |-> "COMPLETED", counted |-> n]]
            BY <2>1, <2>3, <4>1 DEF Store
          <5> QED BY <5>1 DEF Inv, TypeOK
        <4>2. CASE FailJob(w)
          <5>1. SetStatus(j, "FAILED")
            BY <2>1, <2>3, <4>2 DEF FailJob
          <5> QED BY <5>1 DEF SetStatus, Inv, TypeOK, Row
        <4> QED BY <1>9, <4>1, <4>2
      <3> QED BY <2>1, <3>1, <3>2, Settling
    <2>4. CASE job[j].status # "gone" /\ wk[w].pc = "reject"
      <3>1. job[j].status = "PENDING"
        BY <2>1, <2>4 DEF Inv, Statuses, Waits
      <3> QED BY <1>9, <2>1, <2>4, <3>1, Rejects DEF Store, FailJob
    <2> QED BY <2>2, <2>3, <2>4
  <1> QED BY <1>6, <1>7, <1>8, <1>9, Claims DEF WorkerStep

LEMMA NextRefines ==
  ASSUME Inv, [Next]_vars
  PROVE  JLNext
  <1>1. CASE UNCHANGED <<job, wk>>
    BY <1>1, Stutters DEF HoldsJob
  <1>2. ASSUME NEW r \in Requests, Request(r) \/ RequestStep(r) \/ RequestFails(r)
        PROVE  JLNext
    <2>1. CASE Create(r) \/ RetryReset(r) \/ BackfillDeleteJob(r)
      BY <2>1, Submits, PutsBack, Removes
    <2> QED BY <1>1, <1>2, <2>1
            DEF Request, RequestStep, RequestFails, Complete, CompleteExists, CompleteUpdate,
                CompleteConfig, Push, Retry, Backfill, BackfillDeleteFrames
  <1>3. CASE WorkerCrash
    <2>1. \A w \in Workers : ~HoldsJob(w)'
      BY <1>3 DEF WorkerCrash, HoldsJob
    <2> QED BY <1>3, <2>1, Abandons DEF WorkerCrash
  <1> QED BY <1>1, <1>2, <1>3, WorkerRefines DEF Next, Upload, FailSegment, ApiCrash, vars

(* Under the same condition table, list and threads are a job table: every *)
(* step is a step of JobLifecycle or changes nothing it sees.              *)
THEOREM Refinement == OneRetry /\ Spec => UsesJobLifecycle
  <1> SUFFICES ASSUME OneRetry PROVE Spec => UsesJobLifecycle
    OBVIOUS
  <1>1. Init => JL!Init
    BY DEF Init, JL!Init, JobState, HoldsJob
  <1>2. Inv /\ [Next]_vars => [JL!Next]_JL!vars
    BY NextRefines DEF JLNext, JL!vars, State, Holder
  <1> QED BY <1>1, <1>2, InvAlways, PTL DEF Spec, UsesJobLifecycle, JL!Spec

(* Only the thread that marked a job ends it, or the job is deleted under  *)
(* it: a retry never restarts a job that is in somebody's hands.           *)
THEOREM JobsEndByThread == OneRetry /\ Spec => JL!OnlyHolderEnds
  BY Refinement, JL!OnlyHolderEndsAlways DEF UsesJobLifecycle
-----------------------------------------------------------------------------
(* No job is lost while nothing fails (whether or not retries overlap).    *)
Queued(j) == \/ \E r \in Requests : Pushing(r) /\ req[r].id = j
             \/ \E i \in DOMAIN list : list[i] = j
             \/ \E w \in Workers : wk[w].pc = "mark" /\ wk[w].id = j

InHand(j) == \E w \in Workers : wk[w].id = j /\ wk[w].pc # "mark"

TrackedJob(j) == /\ job[j].status = "PENDING" => Queued(j)
                 /\ job[j].status = "PROCESSING" => InHand(j)

(* A step that leaves the other jobs where they are.                       *)
LEMMA StaysTracked ==
  ASSUME TypeOK, NEW j \in Jobs, TrackedJob(j), job'[j] = job[j],
         Queued(j) => Queued(j)', InHand(j) => InHand(j)'
  PROVE  TrackedJob(j)'
  BY DEF TrackedJob

LEMMA RequestTracked ==
  ASSUME TypeOK, NEW r \in Requests, Request(r) \/ RequestStep(r), NEW j \in Jobs, TrackedJob(j)
  PROVE  TrackedJob(j)'
  <1> USE DEF TypeOK
  <1>1. \A q \in Requests \ {r} : req'[q] = req[q]
    BY DEF Request, Complete, Retry, Backfill, RequestStep, CompleteExists, CompleteUpdate,
           CompleteConfig, Create, Push, RetryReset, BackfillDeleteFrames, BackfillDeleteJob,
           RequestSet, RequestGoto, RequestEnds
  <1>2. UNCHANGED wk
    BY DEF Request, Complete, Retry, Backfill, RequestStep, CompleteExists, CompleteUpdate,
           CompleteConfig, Create, Push, RetryReset, BackfillDeleteFrames, BackfillDeleteJob
  <1>3. ASSUME req[r].pc # "push", UNCHANGED list PROVE Queued(j) => Queued(j)'
    BY <1>1, <1>2, <1>3 DEF Queued, Pushing
  <1>4. InHand(j) => InHand(j)'
    BY <1>2 DEF InHand
  <1>5. CASE Push(r)
    <2>1. list' = Append(list, req[r].id) /\ UNCHANGED job /\ req[r].pc = "push"
      BY <1>5 DEF Push
    <2>2. req[r].id \in Jobs
      BY <2>1, RequestType
    <2>3. /\ Len(list) + 1 \in DOMAIN list' /\ list'[Len(list) + 1] = req[r].id
          /\ \A i \in DOMAIN list : i \in DOMAIN list' /\ list'[i] = list[i]
      BY <2>1, <2>2
    <2>4. Queued(j) => Queued(j)'
      BY <1>1, <1>2, <2>3 DEF Queued, Pushing
    <2> QED BY <1>4, <2>1, <2>4, StaysTracked
  <1>6. ASSUME NEW k \in Jobs, SetStatus(k, "PENDING"), req'[r] = [pc |-> "push", id |-> k],
               req[r].pc # "push", UNCHANGED list
        PROVE  TrackedJob(j)'
    <2>1. CASE j = k
      <3>1. job'[j].status = "PENDING"
        BY <1>6, <2>1 DEF SetStatus, Row
      <3>2. Queued(j)'
        BY <1>6, <2>1 DEF Queued, Pushing
      <3> QED BY <3>1, <3>2 DEF TrackedJob
    <2>2. CASE j # k
      <3>1. job'[j] = job[j]
        BY <1>6, <2>2 DEF SetStatus
      <3> QED BY <1>3, <1>4, <1>6, <3>1, StaysTracked
    <2> QED BY <2>1, <2>2
  <1>7. CASE Create(r)
    <2>1. CASE UNCHANGED job
      BY <1>3, <1>4, <1>7, <2>1, StaysTracked DEF Create
    <2>2. CASE \E k \in Jobs : SetStatus(k, "PENDING") /\ RequestSet(r, "push", k)
      <3>1. PICK k \in Jobs : SetStatus(k, "PENDING") /\ RequestSet(r, "push", k)
        BY <2>2
      <3>2. req'[r] = [pc |-> "push", id |-> k]
        BY <3>1 DEF RequestSet
      <3> QED BY <1>6, <1>7, <3>1, <3>2 DEF Create
    <2> QED BY <1>7, <2>1, <2>2 DEF Create
  <1>8. CASE RetryReset(r)
    <2>1. req[r].pc = "reset" /\ req[r].id \in Jobs /\ UNCHANGED list
      BY <1>8, RequestType DEF RetryReset
    <2>2. CASE UNCHANGED job
      BY <1>3, <1>4, <2>1, <2>2, StaysTracked
    <2>3. CASE SetStatus(req[r].id, "PENDING") /\ RequestGoto(r, "push")
      <3>1. req'[r] = [pc |-> "push", id |-> req[r].id]
        BY <2>3 DEF RequestGoto
      <3> QED BY <1>6, <2>1, <2>3, <3>1
    <2> QED BY <1>8, <2>2, <2>3 DEF RetryReset
  <1>9. CASE BackfillDeleteJob(r)
    <2>1. req[r].pc = "delete_job" /\ req[r].id \in Jobs /\ UNCHANGED list
      BY <1>9, RequestType DEF BackfillDeleteJob
    <2>2. CASE job'[j] = job[j]
      BY <1>3, <1>4, <2>1, <2>2, StaysTracked
    <2>3. CASE job'[j] # job[j]
      <3>1. job'[j].status = "gone"
        BY <1>9, <2>1, <2>3 DEF BackfillDeleteJob, SetStatus, Row
      <3> QED BY <3>1 DEF TrackedJob
    <2> QED BY <2>2, <2>3
  <1>10. CASE \/ Request(r) \/ CompleteExists(r) \/ CompleteUpdate(r) \/ CompleteConfig(r)
              \/ BackfillDeleteFrames(r)
    <2>1. req[r].pc # "push" /\ UNCHANGED <<job, list>>
      BY <1>10 DEF Request, Complete, Retry, Backfill, CompleteExists, CompleteUpdate,
             CompleteConfig, BackfillDeleteFrames
    <2> QED BY <1>3, <1>4, <2>1, StaysTracked
  <1> QED BY <1>5, <1>7, <1>8, <1>9, <1>10 DEF RequestStep

LEMMA WorkerTracked ==
  ASSUME TypeOK, NEW w \in Workers, WorkerStep(w), NEW j \in Jobs, TrackedJob(j)
  PROVE  TrackedJob(j)'
  <1> USE DEF TypeOK
  <1>1. UNCHANGED req /\ \A v \in Workers \ {w} : wk'[v] = wk[v]
    BY DEF WorkerStep, Pop, MarkJob, Infer, Store, FailJob, WorkerSet, WorkerGoto, WorkerRests
  <1>2. CASE Pop(w)
    <2>1. /\ list # <<>> /\ list' = Tail(list) /\ WorkerSet(w, "mark", Head(list))
          /\ wk[w].pc = "idle" /\ UNCHANGED job
      BY <1>2 DEF Pop
    <2>2. wk'[w].pc = "mark" /\ wk'[w].id = list[1]
      BY <2>1 DEF WorkerSet
    <2>3. \A i \in DOMAIN list : i = 1 \/ (i - 1 \in DOMAIN list' /\ list'[i - 1] = list[i])
      BY <2>1
    <2>4. Queued(j) => Queued(j)'
      <3>1. ASSUME NEW i \in DOMAIN list, list[i] = j PROVE Queued(j)'
        <4>1. CASE i = 1
          BY <2>2, <3>1, <4>1 DEF Queued
        <4>2. CASE i # 1
          BY <2>3, <3>1, <4>2 DEF Queued
        <4> QED BY <4>1, <4>2
      <3>2. ASSUME NEW v \in Workers, wk[v].pc = "mark", wk[v].id = j PROVE Queued(j)'
        BY <1>1, <2>1, <3>2 DEF Queued
      <3>3. ASSUME NEW r \in Requests, Pushing(r), req[r].id = j PROVE Queued(j)'
        BY <1>1, <3>3 DEF Queued, Pushing
      <3> QED BY <3>1, <3>2, <3>3 DEF Queued
    <2>5. InHand(j) => InHand(j)'
      BY <1>1, <2>1, WorkerType, Openface3Assumption DEF InHand
    <2> QED BY <2>1, <2>4, <2>5, StaysTracked
  <1>3. CASE wk[w].pc # "idle" /\ wk[w].id # j /\ UNCHANGED list /\ job'[j] = job[j]
    <2>1. Queued(j) => Queued(j)'
      BY <1>1, <1>3 DEF Queued, Pushing
    <2>2. InHand(j) => InHand(j)'
      BY <1>1, <1>3 DEF InHand
    <2> QED BY <1>3, <2>1, <2>2, StaysTracked
  <1>4. ASSUME wk[w].id # j, ~Pop(w)
        PROVE  wk[w].pc # "idle" /\ UNCHANGED list /\ job'[j] = job[j]
    BY <1>4 DEF WorkerStep, MarkJob, Infer, Store, FailJob, SetStatus
  <1>5. CASE wk[w].id = j /\ MarkJob(w)
    <2>1. /\ job'[j].status \in {"PROCESSING", "gone"}
          /\ wk'[w].id = j /\ wk'[w].pc = "work"
      BY <1>5 DEF MarkJob, SetStatus, WorkerGoto, Row
    <2> QED BY <2>1 DEF TrackedJob, InHand
  <1>6. CASE wk[w].id = j /\ Infer(w)
    <2>1. /\ UNCHANGED <<job, list>> /\ wk[w].pc = "work"
          /\ wk'[w].id = j /\ wk'[w].pc \in {"store", "failed"}
      BY <1>6 DEF Infer, WorkerGoto
    <2>2. (Queued(j) => Queued(j)') /\ (InHand(j) => InHand(j)')
      BY <1>1, <2>1 DEF Queued, Pushing, InHand
    <2> QED BY <2>1, <2>2, StaysTracked
  <1>7. CASE wk[w].id = j /\ (Store(w) \/ FailJob(w))
    <2>1. job'[j].status \in {"COMPLETED", "FAILED", "gone"}
      BY <1>7 DEF Store, FailJob, SetStatus, Row
    <2> QED BY <2>1 DEF TrackedJob
  <1> QED BY <1>2, <1>3, <1>4, <1>5, <1>6, <1>7 DEF WorkerStep

(* While calls succeed and nothing crashes, no job is lost: a pending one  *)
(* will be popped and one in processing is in a thread's hands, also when  *)
(* retries overlap.                                                        *)
THEOREM TrackedAlways == Faults = {} /\ Spec => []Tracked
  <1> SUFFICES ASSUME Faults = {} PROVE Spec => []Tracked
    OBVIOUS
  <1>1. TypeOK /\ (\A j \in Jobs : TrackedJob(j)) => Tracked
    <2> SUFFICES ASSUME TypeOK, \A j \in Jobs : TrackedJob(j) PROVE Tracked
      OBVIOUS
    <2>1. ASSUME NEW r \in Requests, NEW j \in Jobs, Pushing(r), req[r].id = j
          PROVE  req[r] = [pc |-> "push", id |-> j]
      <3>1. req[r] \in [pc : RequestPcs, id : Jobs \cup {None}]
        BY DEF TypeOK
      <3> QED BY <2>1, <3>1 DEF Pushing
    <2>2. ASSUME NEW w \in Workers, NEW j \in Jobs, wk[w].pc = "mark", wk[w].id = j
          PROVE  wk[w] = [pc |-> "mark", id |-> j]
      <3>1. wk[w] \in [pc : WorkerPcs, id : Jobs \cup {None}]
        BY DEF TypeOK
      <3> QED BY <2>2, <3>1
    <2>3. ASSUME NEW j \in Jobs, Queued(j)
          PROVE  \/ \E r \in Requests : req[r] = [pc |-> "push", id |-> j]
                 \/ \E i \in DOMAIN list : list[i] = j
                 \/ \E w \in Workers : wk[w] = [pc |-> "mark", id |-> j]
      BY <2>1, <2>2, <2>3 DEF Queued
    <2> QED BY <2>3 DEF Tracked, TrackedJob, InHand
  <1>2. Init => \A j \in Jobs : TrackedJob(j)
    <2>1. ASSUME Init, NEW j \in Jobs PROVE job[j].status = "absent"
      <3>1. job[j] = [status |-> "absent", counted |-> 0]
        BY <2>1 DEF Init
      <3> QED BY <3>1
    <2> QED BY <2>1 DEF TrackedJob
  <1>3. ASSUME TypeOK, \A j \in Jobs : TrackedJob(j), [Next]_vars, NEW j \in Jobs
        PROVE  TrackedJob(j)'
    <2>1. CASE Upload \/ FailSegment \/ UNCHANGED vars
      BY <1>3, <2>1 DEF Upload, FailSegment, vars, TrackedJob, Queued, Pushing, InHand
    <2>2. ASSUME NEW r \in Requests PROVE ~RequestFails(r)
      BY DEF RequestFails
    <2>3. ASSUME NEW w \in Workers PROVE ~WorkerFails(w)
      BY DEF WorkerFails
    <2>4. ~ApiCrash /\ ~WorkerCrash
      BY DEF ApiCrash, WorkerCrash
    <2> QED BY <1>3, <2>1, <2>2, <2>3, <2>4, RequestTracked, WorkerTracked DEF Next
  <1>4. TypeOK /\ (\A j \in Jobs : TrackedJob(j)) /\ [Next]_vars => (\A j \in Jobs : TrackedJob(j))'
    BY <1>3
  <1> QED BY <1>1, <1>2, <1>4, TypeCorrect, PTL DEF Spec
-----------------------------------------------------------------------------
(* Without a failing database no thread gives up a job before it has       *)
(* marked it.                                                              *)
NoReject == \A w \in Workers : wk[w].pc # "reject"

LEMMA NoRejectNext ==
  ASSUME "db" \notin Faults, TypeOK, NoReject, [Next]_vars
  PROVE  NoReject'
  <1> SUFFICES ASSUME NEW v \in Workers PROVE wk'[v].pc # "reject"
    BY DEF NoReject
  <1> USE DEF TypeOK
  <1>1. CASE UNCHANGED wk
    BY <1>1 DEF NoReject
  <1>2. ASSUME NEW w \in Workers, WorkerStep(w) PROVE wk'[v].pc # "reject"
    <2>1. ASSUME NEW pc, NEW id, pc # "reject", WorkerSet(w, pc, id) PROVE wk'[v].pc # "reject"
      BY <2>1 DEF NoReject, WorkerSet
    <2>2. ASSUME NEW pc, pc # "reject", WorkerGoto(w, pc) PROVE wk'[v].pc # "reject"
      BY <2>2 DEF NoReject, WorkerGoto
    <2>3. CASE Store(w)
      BY <2>1, <2>2, <2>3 DEF Store, WorkerRests
    <2>4. CASE Pop(w) \/ MarkJob(w) \/ Infer(w) \/ FailJob(w)
      BY <2>1, <2>2, <2>4 DEF Pop, MarkJob, Infer, FailJob, WorkerRests
    <2> QED BY <1>2, <2>3, <2>4 DEF WorkerStep
  <1>3. ASSUME NEW w \in Workers, WorkerFails(w) PROVE FALSE
    BY <1>3 DEF WorkerFails
  <1>4. CASE WorkerCrash
    BY <1>4 DEF WorkerCrash
  <1>5. ASSUME NEW r \in Requests, Request(r) \/ RequestStep(r) \/ RequestFails(r)
        PROVE  UNCHANGED wk
    BY <1>5 DEF Request, Complete, Retry, Backfill, RequestStep, CompleteExists, CompleteUpdate,
           CompleteConfig, Create, Push, RetryReset, BackfillDeleteFrames, BackfillDeleteJob,
           RequestFails
  <1>6. CASE Upload \/ FailSegment \/ ApiCrash \/ UNCHANGED vars
    BY <1>1, <1>6 DEF Upload, FailSegment, ApiCrash, vars
  <1> QED BY <1>1, <1>2, <1>3, <1>4, <1>5, <1>6 DEF Next

(* What a step may do to the status of a job.                              *)
KeepsLifecycle(j) == LET old == job[j].status
                         new == job'[j].status
                     IN old # new =>
                          /\ new = "PROCESSING" => old = "PENDING"
                          /\ new \in {"COMPLETED", "FAILED"} => old = "PROCESSING"

LEMMA RequestLifecycle ==
  ASSUME TypeOK, NEW r \in Requests, Request(r) \/ RequestStep(r) \/ RequestFails(r), NEW j \in Jobs
  PROVE  KeepsLifecycle(j)
  <1>1. ASSUME NEW k \in Jobs, NEW s \in {"PENDING", "gone"}, SetStatus(k, s) PROVE KeepsLifecycle(j)
    BY <1>1 DEF KeepsLifecycle, SetStatus, TypeOK, Row
  <1>2. ASSUME UNCHANGED job PROVE KeepsLifecycle(j)
    BY <1>2 DEF KeepsLifecycle
  <1>3. CASE Create(r)
    BY <1>1, <1>2, <1>3 DEF Create
  <1>4. CASE RetryReset(r) \/ BackfillDeleteJob(r)
    <2>1. req[r].id \in Jobs
      BY <1>4, RequestType DEF RetryReset, BackfillDeleteJob
    <2> QED BY <1>1, <1>2, <1>4, <2>1 DEF RetryReset, BackfillDeleteJob
  <1>5. CASE \/ Request(r) \/ RequestFails(r) \/ CompleteExists(r) \/ CompleteUpdate(r)
             \/ CompleteConfig(r) \/ Push(r) \/ BackfillDeleteFrames(r)
    BY <1>2, <1>5 DEF Request, Complete, Retry, Backfill, RequestFails, CompleteExists,
           CompleteUpdate, CompleteConfig, Push, BackfillDeleteFrames
  <1> QED BY <1>3, <1>4, <1>5 DEF RequestStep

(* A thread only writes the row of the job in its hands, which is still in *)
(* the status that the step before left it in, or gone.                    *)
LEMMA WorkerLifecycle ==
  ASSUME Inv, NoReject, NEW w \in Workers, WorkerStep(w) \/ WorkerFails(w), NEW j \in Jobs
  PROVE  KeepsLifecycle(j)
  <1>1. CASE job'[j] = job[j]
    BY <1>1 DEF KeepsLifecycle
  <1>2. ASSUME wk[w].pc # "idle", wk[w].id # j PROVE job'[j] = job[j]
    BY <1>2 DEF WorkerStep, Pop, MarkJob, Infer, Store, FailJob, WorkerFails, SetStatus, Inv, TypeOK
  <1>3. CASE wk[w].id = j /\ MarkJob(w)
    <2>1. job[j].status \in {"PENDING", "gone"}
      BY <1>3 DEF MarkJob, Inv, Statuses, Waits
    <2> QED BY <1>3, <2>1 DEF MarkJob, SetStatus, KeepsLifecycle, Inv, TypeOK, Row
  <1>4. CASE wk[w].id = j /\ (Store(w) \/ FailJob(w))
    <2>1. job[j].status \in {"PROCESSING", "gone"}
      BY <1>4 DEF Store, FailJob, NoReject, Inv, Statuses, Runs
    <2>2. job[j].status = "gone" => job'[j] = job[j]
      BY <1>4 DEF Store, FailJob
    <2>3. job'[j].status \in {"PROCESSING", "COMPLETED", "FAILED", "gone"}
      BY <1>4, <2>1 DEF Store, FailJob, SetStatus, Inv, TypeOK, Row
    <2> QED BY <2>1, <2>2, <2>3 DEF KeepsLifecycle
  <1>5. CASE Pop(w) \/ Infer(w) \/ WorkerFails(w)
    BY <1>5 DEF Pop, Infer, WorkerFails, KeepsLifecycle
  <1> QED BY <1>1, <1>2, <1>3, <1>4, <1>5 DEF WorkerStep, MarkJob, Store, FailJob

(* The lifecycle that the worker documents is kept while retries do not    *)
(* overlap and no database call fails, crashes or not; openface3_retries   *)
(* shows that the first condition is needed.                               *)
THEOREM LifecycleKeptAlways == OneRetry /\ "db" \notin Faults /\ Spec => LifecycleKept
  <1> SUFFICES ASSUME OneRetry, "db" \notin Faults PROVE Spec => LifecycleKept
    OBVIOUS
  <1>1. Init => NoReject
    BY DEF Init, NoReject
  <1>2. TypeOK /\ NoReject /\ [Next]_vars => NoReject'
    BY NoRejectNext
  <1>3. Inv => TypeOK
    BY DEF Inv
  <1>4. Inv /\ NoReject /\ [Next]_vars
          => [\A j \in Jobs : LET old == job[j].status
                                  new == job'[j].status
                              IN old # new =>
                                   /\ new = "PROCESSING" => old = "PENDING"
                                   /\ new \in {"COMPLETED", "FAILED"} => old = "PROCESSING"]_vars
    <2> SUFFICES ASSUME Inv, NoReject, Next PROVE \A j \in Jobs : KeepsLifecycle(j)
      BY DEF KeepsLifecycle
    <2>1. ASSUME UNCHANGED job, NEW j \in Jobs PROVE KeepsLifecycle(j)
      BY <2>1 DEF KeepsLifecycle
    <2>2. CASE Upload \/ FailSegment \/ ApiCrash \/ WorkerCrash
      BY <2>1, <2>2 DEF Upload, FailSegment, ApiCrash, WorkerCrash
    <2> QED BY <1>3, <2>2, RequestLifecycle, WorkerLifecycle DEF Next
  <1> QED BY <1>1, <1>2, <1>3, <1>4, InvAlways, PTL DEF Spec, LifecycleKept
=============================================================================
