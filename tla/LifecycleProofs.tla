-------------------------- MODULE LifecycleProofs ---------------------------
(***************************************************************************)
(* EvalService implements JobLifecycle: what a job goes through is what it *)
(* would go through if every handler decided and wrote in a single step.   *)
(***************************************************************************)
EXTENDS EvalServiceProofs

USE DEF WriteSent

LifecycleStep == [Lifecycle!Next]_(Lifecycle!vars)

\* The statuses the lifecycle allows in place of that of the stored job.
Allowed(s) ==
  \/ /\ job.fin /\ ~job.del /\ ~job.st.scheduled
     /\ s \in Lifecycle!Scheduling(job.st)
  \/ /\ ~job.del /\ job.st.scheduled
     /\ \/ /\ job.st.state \in {"Scheduled", "Running"}
           /\ s \in Lifecycle!Ending(job.st)
        \/ job.st.state = "Complete" /\ s = Lifecycle!Stamped(job.st)
        \/ job.st.state = "Cancelled" /\ s \in Lifecycle!Cancelling(job.st)
  \/ s \in Lifecycle!Reporting(job.st)

\* What a step may do to the copies of the job that are to be written.
IntentStep ==
  /\ pc' # "idle" =>
       \/ pc' = pc /\ held' = held
       \/ job' = job /\ (held'.rv = job.rv => Intent(pc', held', job))
  /\ \A p \in Pods : WriteSent(p)' =>
       \/ WriteSent(p) /\ copy'[p] = copy[p]
       \/ /\ job' = job
          /\ copy'[p].rv = job.rv
               => copy'[p].st \in Lifecycle!Reporting(job.st)

-----------------------------------------------------------------------------
(* The stored job. *)

\* A step that leaves the job alone is none of the lifecycle.
LEMMA StutterStep == ASSUME job' = job PROVE LifecycleStep
BY DEF LifecycleStep, Lifecycle!vars

\* A status that the lifecycle allows is stored in a step of the lifecycle.
LEMMA AllowedStep ==
  ASSUME job.exists, Allowed(job'.st), job'.exists = job.exists,
         job'.uid = job.uid, job'.fin = job.fin, job'.del = job.del
  PROVE  LifecycleStep
<1>1. Lifecycle!Become(job'.st)
  BY DEF Lifecycle!Become
<1>2. \/ Lifecycle!Schedule
      \/ Lifecycle!End
      \/ Lifecycle!Stamp
      \/ Lifecycle!Cancel
      \/ Lifecycle!Report
  BY <1>1 DEF Allowed, Lifecycle!Schedule, Lifecycle!End, Lifecycle!Stamp,
              Lifecycle!Cancel, Lifecycle!Report
<1> QED
  BY <1>2 DEF LifecycleStep, Lifecycle!Next

\* A status update is a step of the lifecycle if the copy is of an older version
\* or of one that allows its status.
LEMMA StatusUpdateLifecycle ==
  ASSUME TypeOK, NEW c \in Job, NEW ok \in BOOLEAN, StatusUpdate(c, ok),
         c.rv = job.rv => Allowed(c.st)
  PROVE  LifecycleStep
<1>1. CASE job' = job
  BY <1>1, StutterStep
<1>2. CASE job' # job
  <2>1. /\ job.exists /\ job.rv = c.rv
        /\ job' = [[job EXCEPT !.st = c.st] EXCEPT !.rv = job.rv + 1]
    BY <1>2 DEF StatusUpdate, Write, Accepts, Stored
  <2>2. /\ job'.exists = job.exists /\ job'.uid = job.uid
        /\ job'.fin = job.fin /\ job'.del = job.del /\ job'.st = c.st
    BY <2>1 DEF TypeOK, Job
  <2> QED
    BY <2>1, <2>2, AllowedStep
<1> QED
  BY <1>1, <1>2

\* The empty status of the two specifications is one.
LEMMA SameNoStatus == Lifecycle!NoStatus = NoStatus
BY DEF Lifecycle!NoStatus, NoStatus

\* A removed job is absent.
LEMMA RemovedAbsent ==
  ASSUME job' = Removed
  PROVE  Lifecycle!Go
<1>1. /\ ~Removed.exists /\ ~Removed.fin /\ ~Removed.del
      /\ Removed.st = NoStatus /\ Removed.uid = job.uid
  BY DEF Removed, NoJob
<1> QED
  BY <1>1, SameNoStatus DEF Lifecycle!Go, Lifecycle!Absent

\* So are the two updates of the object.
LEMMA ObjectUpdateLifecycle ==
  ASSUME TypeOK, NEW ok \in BOOLEAN, ObjectUpdate(held, ok),
         held.rv = job.rv => \/ held.fin /\ ~job.del /\ ~job.st.scheduled
                             \/ job.del /\ job.fin /\ ~held.fin
  PROVE  LifecycleStep
<1>1. CASE job' = job
  BY <1>1, StutterStep
<1>2. CASE job' # job
  <2>1. job.exists /\ job.rv = held.rv
    BY <1>2 DEF ObjectUpdate, Write, Accepts
  <2>2. CASE job.del /\ job.fin /\ ~held.fin
    <3>1. job' = Removed
      BY <1>2, <2>2 DEF ObjectUpdate, Write
    <3>2. Lifecycle!RemoveFinalizer
      BY <2>1, <2>2, <3>1, RemovedAbsent DEF Lifecycle!RemoveFinalizer
    <3> QED
      BY <3>2 DEF LifecycleStep, Lifecycle!Next
  <2>3. CASE held.fin /\ ~job.del /\ ~job.st.scheduled
    <3>1. job' = [[job EXCEPT !.fin = held.fin] EXCEPT !.rv = job.rv + 1]
      BY <1>2, <2>3 DEF ObjectUpdate, Write, Stored
    <3>2. /\ job'.exists = job.exists /\ job'.uid = job.uid
          /\ job'.fin = TRUE /\ job'.del = job.del /\ job'.st = job.st
      BY <2>3, <3>1 DEF TypeOK, Job
    <3>3. Lifecycle!AddFinalizer
      BY <2>1, <2>3, <3>2 DEF Lifecycle!AddFinalizer
    <3> QED
      BY <3>3 DEF LifecycleStep, Lifecycle!Next
  <2> QED
    BY <2>1, <2>2, <2>3
<1> QED
  BY <1>1, <1>2

\* A step of the lifecycle does not store "New".
LEMMA NewStaysAway ==
  ASSUME TypeOK, LifecycleStep, job.st.state # "New"
  PROVE  job'.st.state # "New"
<1>1. job.st \in Status
  BY DEF TypeOK, Job
<1>2. ASSUME NEW s, Lifecycle!Become(s), s.state # "New"
      PROVE  job'.st.state # "New"
  BY <1>2 DEF Lifecycle!Become
<1>3. CASE Lifecycle!Schedule \/ Lifecycle!End \/ Lifecycle!Stamp
             \/ Lifecycle!Cancel
  BY <1>1, <1>2, <1>3
  DEF Lifecycle!Schedule, Lifecycle!Scheduling, Lifecycle!End, Lifecycle!Ending,
      Lifecycle!Stamp, Lifecycle!Stamped, Lifecycle!Cancel,
      Lifecycle!Cancelling, Lifecycle!Failed, Status
<1>4. CASE Lifecycle!Report \/ Lifecycle!AskCancellation
  BY <1>1, <1>2, <1>4
  DEF Lifecycle!Report, Lifecycle!Reporting, Lifecycle!AskCancellation,
      Lifecycle!Failed, Status
<1>5. CASE Lifecycle!AddFinalizer \/ UNCHANGED Lifecycle!vars
  BY <1>5 DEF Lifecycle!AddFinalizer, Lifecycle!vars
<1>6. CASE Lifecycle!Create \/ Lifecycle!AskDeletion \/ Lifecycle!RemoveFinalizer
  <2>1. job'.st = job.st \/ job'.st = Lifecycle!NoStatus
    BY <1>6 DEF Lifecycle!Create, Lifecycle!AskDeletion,
                Lifecycle!RemoveFinalizer, Lifecycle!Go, Lifecycle!Absent
  <2>2. Lifecycle!NoStatus.state # "New"
    BY DEF Lifecycle!NoStatus
  <2> QED
    BY <2>1, <2>2
<1> QED
  BY <1>3, <1>4, <1>5, <1>6 DEF LifecycleStep, Lifecycle!Next

-----------------------------------------------------------------------------
(* The copies. *)

\* A handler of a request works on a copy of the cached job.
LEMMA StartIntent ==
  ASSUME LifecycleInv, NEW next, NEW h, NEW again, Start(next, h, again),
         next # "idle" => h.rv = jobCache.rv /\ Intent(next, h, jobCache)
  PROVE  IntentStep
BY DEF IntentStep, Start, callVars, LifecycleInv, CopiesAreCurrent

\* The two kinds of job that Reconcile tells apart.
LEMMA FetchedKinds ==
  ASSUME LifecycleInv
  PROVE  /\ Fetched.rv = jobCache.rv
         /\ Fetched.fin = jobCache.fin
         /\ Fetched.st.state = "New"
              => /\ ~jobCache.st.scheduled
                 /\ Fetched.st = [jobCache.st EXCEPT !.state = "New"]
         /\ Fetched.st.state # "New" => /\ jobCache.st.scheduled
                                        /\ Fetched = jobCache
<1>1. jobCache \in Job /\ jobCache.st \in Status
  BY DEF LifecycleInv, VersionInv, TypeOK, Job
<1>2. jobCache.st.state # "New"
  BY DEF LifecycleInv, NewIsNotStored
<1>3. CASE jobCache.st.scheduled
  BY <1>2, <1>3 DEF Fetched
<1>4. CASE ~jobCache.st.scheduled
  BY <1>1, <1>4 DEF Fetched, Job, Status
<1> QED
  BY <1>3, <1>4

\* What the handlers are about to write is right for the cached job.
LEMMA HandlerIntent ==
  ASSUME LifecycleInv,
         \/ ReconcileMissing
         \/ HandleDeletion
         \/ HandleNewCR
         \/ CheckScheduledPod
         \/ HandleComplete
         \/ HandleCancel
  PROVE  IntentStep
<1>1. jobCache \in Job /\ Fetched \in Job
  BY FetchedType DEF LifecycleInv, VersionInv, TypeOK
<1>2. CASE ReconcileMissing
  BY <1>2, StartIntent DEF ReconcileMissing
<1>3. CASE HandleDeletion
  <2>1. /\ [jobCache EXCEPT !.fin = FALSE].rv = jobCache.rv
        /\ ~[jobCache EXCEPT !.fin = FALSE].fin
    BY <1>1 DEF Job
  <2> QED
    BY <1>3, <2>1, StartIntent DEF HandleDeletion, Intent
<1>4. CASE HandleNewCR
  <2>1. /\ [Fetched EXCEPT !.fin = TRUE].rv = Fetched.rv
        /\ [Fetched EXCEPT !.fin = TRUE].fin
        /\ [Fetched EXCEPT !.fin = TRUE].st = Fetched.st
    BY <1>1 DEF Job
  <2> QED
    BY <1>4, <2>1, FetchedKinds, StartIntent DEF HandleNewCR, Intent
<1>5. CASE CheckScheduledPod
  <2>1. Fetched = jobCache /\ jobCache.st.scheduled
    BY <1>5, FetchedKinds DEF CheckScheduledPod
  <2>2. ASSUME NEW h, NEW next \in {"statusPodGone", "statusFinished"},
               NEW again, Start(next, h, again), h.rv = jobCache.rv,
               h.st \in Lifecycle!Ending(jobCache.st)
        PROVE  IntentStep
    BY <1>5, <2>1, <2>2, StartIntent DEF CheckScheduledPod, Intent
  <2>3. ASSUME NEW m \in {"podMissing", "terminated"}
        PROVE  /\ [jobCache EXCEPT !.st = Failed(@, m)].rv = jobCache.rv
               /\ [jobCache EXCEPT !.st = Failed(@, m)].st
                    \in Lifecycle!Ending(jobCache.st)
    BY <1>1, <2>3 DEF Job, Lifecycle!Ending, Lifecycle!Failed, Failed
  <2>4. /\ [jobCache EXCEPT !.st.state = "Complete",
                            !.st.reason = "Succeeded"].rv = jobCache.rv
        /\ [jobCache EXCEPT !.st.state = "Complete",
                            !.st.reason = "Succeeded"].st
             \in Lifecycle!Ending(jobCache.st)
    BY <1>1 DEF Job, Lifecycle!Ending
  <2>5. ASSUME CheckLater PROVE IntentStep
    BY <2>5, StartIntent DEF CheckLater
  <2> QED
    BY <1>5, <2>1, <2>2, <2>3, <2>4, <2>5 DEF CheckScheduledPod
<1>6. CASE HandleComplete
  <2>1. Fetched = jobCache /\ jobCache.st.scheduled
    BY <1>6, FetchedKinds DEF HandleComplete
  <2>2. /\ [jobCache EXCEPT !.st.completed = TRUE].rv = jobCache.rv
        /\ [jobCache EXCEPT !.st.completed = TRUE].st
             = Lifecycle!Stamped(jobCache.st)
    BY <1>1 DEF Job, Status, Lifecycle!Stamped
  <2> QED
    BY <1>6, <2>1, <2>2, StartIntent DEF HandleComplete, Intent
<1>7. CASE HandleCancel
  <2>1. Fetched = jobCache /\ jobCache.st.scheduled
    BY <1>7, FetchedKinds DEF HandleCancel
  <2> QED
    BY <1>1, <1>7, <2>1, StartIntent
    DEF HandleCancel, Intent, Job, Lifecycle!Cancelling, Lifecycle!Failed, Failed
<1> QED
  BY <1>2, <1>3, <1>4, <1>5, <1>6, <1>7

\* What the creation of the pod makes of a job taken for a new one is what it
\* makes of the job as it is stored.
LEMMA NewIsOverwritten ==
  ASSUME NEW s \in Status
  PROVE  LET new == [s EXCEPT !.state = "New"]
         IN  /\ [new EXCEPT !.state = "Scheduled", !.podName = TRUE,
                            !.scheduled = TRUE] \in Lifecycle!Scheduling(s)
             /\ Failed(new, "createError") \in Lifecycle!Scheduling(s)
<1> DEFINE new == [s EXCEPT !.state = "New"]
<1>1. [new EXCEPT !.state = "Scheduled", !.podName = TRUE, !.scheduled = TRUE]
        = [s EXCEPT !.state = "Scheduled", !.podName = TRUE, !.scheduled = TRUE]
  BY DEF Status
<1>2. Failed(new, "createError") = Lifecycle!Failed(s, "createError")
  BY DEF Failed, Lifecycle!Failed, Status
<1> QED
  BY <1>1, <1>2 DEF Lifecycle!Scheduling

\* Each call of the worker writes what the lifecycle allows, or prepares a write
\* that it allows.
LEMMA CallLifecycle ==
  ASSUME LifecycleInv, WorkerNext, pc # "idle"
  PROVE  IntentStep /\ LifecycleStep
<1>1. /\ TypeOK /\ held \in Job /\ held.st \in Status /\ job.st \in Status
      /\ held.rv = job.rv => Intent(pc, held, job)
  BY DEF LifecycleInv, VersionInv, CopiesAreCurrent, TypeOK, Job
<1>2. ASSUME NEW at \in {"statusScheduled", "statusCreateFailed",
                         "statusPodGone", "statusFinished", "statusCompleted",
                         "statusCancelled"},
             NEW again, UpdateStatus(at, again)
      PROVE  IntentStep /\ LifecycleStep
  <2>1. held.rv = job.rv => Allowed(held.st)
    BY <1>1, <1>2 DEF UpdateStatus, Intent, Allowed
  <2>2. LifecycleStep
    BY <1>1, <1>2, <2>1, StatusUpdateLifecycle DEF UpdateStatus
  <2>3. IntentStep
    BY <1>2 DEF UpdateStatus, Finish, callVars, IntentStep
  <2> QED
    BY <2>2, <2>3
<1>3. ASSUME NEW at \in {"addFinalizer", "removeFinalizer"}, NEW again,
             UpdateObject(at, again)
      PROVE  IntentStep /\ LifecycleStep
  <2>1. held.rv = job.rv => \/ held.fin /\ ~job.del /\ ~job.st.scheduled
                            \/ job.del /\ job.fin /\ ~held.fin
    BY <1>1, <1>3 DEF UpdateObject, Intent
  <2>2. LifecycleStep
    BY <1>1, <1>3, <2>1, ObjectUpdateLifecycle DEF UpdateObject
  <2>3. IntentStep
    BY <1>3 DEF UpdateObject, Finish, callVars, IntentStep
  <2> QED
    BY <2>2, <2>3
<1>4. CASE CreatePod
  <2>1. pc = "createPod" /\ UNCHANGED <<job, stage, copy>>
    BY <1>4 DEF CreatePod, callVars
  <2>2. /\ pc' \in {"statusScheduled", "statusCreateFailed"}
        /\ held'.rv = held.rv
        /\ \/ held'.st = [held.st EXCEPT !.state = "Scheduled",
                                         !.podName = TRUE, !.scheduled = TRUE]
           \/ held'.st = Failed(held.st, "createError")
    BY <1>1, <1>4 DEF CreatePod, Proceed, Job
  <2>3. ASSUME held.rv = job.rv
        PROVE  held'.st \in Lifecycle!Scheduling(job.st)
    <3>1. held.st = [job.st EXCEPT !.state = "New"]
      BY <1>1, <2>1, <2>3 DEF Intent
    <3>2. /\ [held.st EXCEPT !.state = "Scheduled", !.podName = TRUE,
                            !.scheduled = TRUE] \in Lifecycle!Scheduling(job.st)
          /\ Failed(held.st, "createError") \in Lifecycle!Scheduling(job.st)
      BY <1>1, <3>1, NewIsOverwritten, Zenon
    <3> QED
      BY <2>2, <3>2
  <2>4. held'.rv = job.rv => Intent(pc', held', job)
    BY <1>1, <2>1, <2>2, <2>3 DEF Intent
  <2>5. IntentStep
    BY <2>1, <2>4 DEF IntentStep
  <2> QED
    BY <2>1, <2>5, StutterStep
<1>5. CASE DeletePod \/ CancelPod
  <2>1. UNCHANGED <<job, stage, copy>>
    BY <1>5 DEF DeletePod, CancelPod, callVars
  <2>2. \/ pc' = "idle"
        \/ /\ held' = held
           /\ \/ pc = "deletePod" /\ pc' = "removeFinalizer"
              \/ pc = "cancelPod" /\ pc' = "statusCancelled"
    BY <1>5 DEF DeletePod, CancelPod, Proceed, Finish
  <2>3. pc' # "idle" => (held'.rv = job.rv => Intent(pc', held', job))
    BY <1>1, <2>2 DEF Intent
  <2>4. IntentStep
    BY <2>1, <2>3 DEF IntentStep
  <2> QED
    BY <2>1, <2>4, StutterStep
<1>6. ~ \E next, h, again : Start(next, h, again)
  BY DEF Start
<1> QED
  BY <1>2, <1>3, <1>4, <1>5, <1>6
  DEF WorkerNext, AddFinalizer, RemoveFinalizer, UpdateCreateFailed,
      UpdateScheduled, UpdatePodGone, UpdateFinished, UpdateCompleted,
      UpdateCancelled, ReconcileMissing, HandleDeletion, HandleNewCR,
      CheckScheduledPod, CheckLater, HandleComplete, HandleCancel

\* The worker takes steps of the lifecycle.
LEMMA WorkerLifecycle == LifecycleInv /\ WorkerNext => IntentStep /\ LifecycleStep
<1> SUFFICES ASSUME LifecycleInv, WorkerNext, pc = "idle"
             PROVE  IntentStep /\ LifecycleStep
  BY CallLifecycle
<1>1. \/ ReconcileMissing
      \/ HandleDeletion
      \/ HandleNewCR
      \/ CheckScheduledPod
      \/ HandleComplete
      \/ HandleCancel
  BY DEF WorkerNext, AddFinalizer, RemoveFinalizer, UpdateCreateFailed,
         UpdateScheduled, UpdatePodGone, UpdateFinished, UpdateCompleted,
         UpdateCancelled, CreatePod, DeletePod, CancelPod, UpdateObject,
         UpdateStatus
<1>2. job' = job
  BY <1>1 DEF ReconcileMissing, HandleDeletion, HandleNewCR, CheckScheduledPod,
              CheckLater, HandleComplete, HandleCancel, Start
<1> QED
  BY <1>1, <1>2, HandlerIntent, StutterStep

\* A report merged into a status is what the lifecycle has for a report.
LEMMA MergedReporting ==
  ASSUME NEW p \in Pods, NEW s \in Status
  PROVE  Merged(p, s) \in Lifecycle!Reporting(s)
<1>1. CASE phase[p] = "waitRunning"
  BY <1>1 DEF Merged, Report, CarriesResults, Status, Lifecycle!Reporting
<1>2. CASE phase[p] # "waitRunning" /\ ~CarriesResults(p)
  BY <1>2 DEF Merged, Report, Status, Lifecycle!Reporting, Lifecycle!Failed
<1>3. CASE phase[p] # "waitRunning" /\ CarriesResults(p)
  BY <1>3 DEF Merged, Report, Status, Lifecycle!Reporting
<1> QED
  BY <1>1, <1>2, <1>3

\* The status server takes steps of the lifecycle.
LEMMA ServerLifecycle == LifecycleInv /\ ServerNext => IntentStep /\ LifecycleStep
<1> SUFFICES ASSUME LifecycleInv, NEW p \in Pods,
                    \/ GetForUpdate(p)
                    \/ PutStatus(p)
                    \/ PutLate(p)
                    \/ DropLate(p)
             PROVE  IntentStep /\ LifecycleStep
  BY DEF ServerNext
<1>1. /\ TypeOK /\ jobCache \in Job /\ jobCache.st \in Status
      /\ stage \in [Pods -> CallStage] /\ copy \in [Pods -> Job]
      /\ jobCache.rv = job.rv => jobCache = job
  BY DEF LifecycleInv, VersionInv, CopiesAreCurrent, TypeOK, Job
<1>2. UNCHANGED <<pc, held>>
  BY DEF GetForUpdate, PutStatus, PutLate, DropLate, workerVars
<1>3. CASE GetForUpdate(p)
  <2>1. job' = job
    BY <1>3 DEF GetForUpdate
  <2>2. LET new == [jobCache EXCEPT !.st = Merged(p, jobCache.st)]
        IN  new.rv = jobCache.rv /\ new.st \in Lifecycle!Reporting(jobCache.st)
    BY <1>1, MergedReporting DEF Job
  <2>3. ASSUME NEW q \in Pods, WriteSent(q)'
        PROVE  \/ WriteSent(q) /\ copy'[q] = copy[q]
               \/ copy'[q] = [jobCache EXCEPT !.st = Merged(p, jobCache.st)]
    BY <1>1, <1>3, <2>3 DEF GetForUpdate
  <2>4. IntentStep
    BY <1>1, <1>2, <2>1, <2>2, <2>3 DEF IntentStep
  <2> QED
    BY <2>1, <2>4, StutterStep
<1>4. CASE PutStatus(p) \/ PutLate(p) \/ DropLate(p)
  <2>1. EndCall(p) /\ WriteSent(p)
    BY <1>4 DEF PutStatus, PutLate, DropLate
  <2>2. IntentStep
    BY <1>1, <1>2, <2>1 DEF EndCall, IntentStep
  <2>3. copy[p].rv = job.rv => Allowed(copy[p].st)
    BY <2>1 DEF LifecycleInv, CopiesAreCurrent, Allowed
  <2>4. LifecycleStep
    BY <1>1, <1>4, <2>3, StatusUpdateLifecycle, StutterStep
    DEF PutStatus, PutLate, DropLate
  <2> QED
    BY <2>2, <2>4
<1> QED
  BY <1>3, <1>4

\* The drivers, the kubelet and the collector leave the job alone.
LEMMA PodLifecycle ==
  ASSUME LifecycleInv, NEW p \in Pods,
         \/ NewDriverFails(p)
         \/ ReportRunning(p)
         \/ Exec(p)
         \/ CallFails(p)
         \/ StartMain(p)
         \/ FailInit(p)
         \/ KillMain(p)
         \/ RemovePod(p)
         \/ EvictPod(p)
         \/ CollectPod(p)
  PROVE  IntentStep /\ LifecycleStep
<1>1. stage \in [Pods -> CallStage]
  BY DEF LifecycleInv, VersionInv, TypeOK
<1>2. /\ UNCHANGED <<job, pc, held, copy>>
      /\ UNCHANGED stage \/ Send(p) \/ Abandon(p)
  BY DEF NewDriverFails, ReportRunning, Exec, CallFails, StartMain, FailInit,
         KillMain, RemovePod, EvictPod, CollectPod, Send, Abandon, workerVars,
         callVars
<1>3. IntentStep
  BY <1>1, <1>2 DEF IntentStep, Send, Abandon
<1> QED
  BY <1>2, <1>3, StutterStep

\* The users take steps of the lifecycle.
LEMMA UserLifecycle ==
  ASSUME LifecycleInv, CreateJob \/ CancelJob \/ EditJob \/ DeleteJob
  PROVE  IntentStep /\ LifecycleStep
<1>1. job \in Job /\ job.st \in Status
  BY DEF LifecycleInv, VersionInv, TypeOK, Job
<1>2. IntentStep
  BY DEF CreateJob, CancelJob, EditJob, DeleteJob, workerVars, callVars,
         IntentStep
<1>3. CASE EditJob
  <2>1. UNCHANGED Lifecycle!vars
    BY <1>1, <1>3 DEF EditJob, Job, Lifecycle!vars
  <2> QED
    BY <1>2, <2>1 DEF LifecycleStep
<1>4. CASE CancelJob
  <2>1. Lifecycle!AskCancellation
    BY <1>1, <1>4 DEF CancelJob, Job, Lifecycle!AskCancellation,
                      Lifecycle!Become
  <2> QED
    BY <1>2, <2>1 DEF LifecycleStep, Lifecycle!Next
<1>5. CASE DeleteJob
  <2>1. Lifecycle!AskDeletion
    <3>1. CASE job.fin
      BY <1>1, <1>5, <3>1 DEF DeleteJob, Job, Lifecycle!AskDeletion
    <3>2. CASE ~job.fin
      BY <1>5, <3>2, RemovedAbsent DEF DeleteJob, Lifecycle!AskDeletion
    <3> QED
      BY <3>1, <3>2
  <2> QED
    BY <1>2, <2>1 DEF LifecycleStep, Lifecycle!Next
<1>6. CASE CreateJob
  <2>1. /\ job'.exists = TRUE /\ job'.uid = job.uid + 1 /\ job'.fin = FALSE
        /\ job'.del = FALSE /\ job'.st = NoStatus
    BY <1>6 DEF CreateJob, NoJob
  <2>2. Lifecycle!Create
    BY <1>6, <2>1, SameNoStatus DEF CreateJob, Lifecycle!Create
  <2> QED
    BY <1>2, <2>2 DEF LifecycleStep, Lifecycle!Next
<1> QED
  BY <1>3, <1>4, <1>5, <1>6

\* The informers and a restart leave the job alone and write nothing new.
LEMMA CacheLifecycle ==
  ASSUME LifecycleInv, SyncJob \/ SyncPod \/ Resync \/ Restart
  PROVE  IntentStep /\ LifecycleStep
<1>1. job' = job
  BY DEF SyncJob, SyncPod, Resync, Restart
<1>2. CASE SyncJob \/ SyncPod \/ Resync
  BY <1>1, <1>2, StutterStep DEF SyncJob, SyncPod, Resync, callVars, IntentStep
<1>3. CASE Restart
  BY <1>1, <1>3, StutterStep DEF Restart, IntentStep
<1> QED
  BY <1>2, <1>3

\* So does every step of the service.
LEMMA NextLifecycle == LifecycleInv /\ Next => IntentStep /\ LifecycleStep
<1> SUFFICES ASSUME LifecycleInv, Next PROVE IntentStep /\ LifecycleStep
  OBVIOUS
<1>1. CASE WorkerNext
  BY <1>1, WorkerLifecycle
<1>2. CASE ServerNext
  BY <1>2, ServerLifecycle
<1>3. CASE DriverNext
  BY <1>3, PodLifecycle DEF DriverNext
<1>4. CASE ClusterNext
  BY <1>4, PodLifecycle, UserLifecycle, CacheLifecycle DEF ClusterNext
<1>5. CASE Restart
  BY <1>5, CacheLifecycle
<1> QED
  BY <1>1, <1>2, <1>3, <1>4, <1>5 DEF Next

-----------------------------------------------------------------------------
(* The refinement. *)

\* Such steps keep the invariant: a step that changes the job makes every copy
\* of it an old one.
LEMMA LifecycleInvStep ==
  ASSUME LifecycleInv, VersionInv', Steps, IntentStep, LifecycleStep
  PROVE  LifecycleInv'
<1>1. /\ TypeOK /\ job.rv \in Nat /\ held.rv \in Nat /\ jobCache.rv \in Nat
      /\ \A p \in Pods : copy[p].rv \in Nat
  BY DEF LifecycleInv, VersionInv, TypeOK, Job
<1>2. job' = job \/ job'.rv = job.rv + 1
  BY DEF Steps, JobStep
<1>3. /\ jobCache.rv <= job.rv
      /\ pc # "idle" => held.rv <= job.rv
      /\ \A p \in Pods : WriteSent(p) => copy[p].rv <= job.rv
  BY DEF LifecycleInv, VersionInv, CopiesAreVersions, IsVersion
<1>4. /\ jobCache'.rv = job'.rv => jobCache' = job'
      /\ jobCache' = jobCache \/ jobCache' = job
  <2>1. jobCache' = jobCache \/ (jobCache' = job /\ job' = job)
    BY DEF Steps, CopyStep
  <2> QED
    BY <1>1, <1>2, <1>3, <2>1 DEF LifecycleInv, CopiesAreCurrent
<1>5. (pc' # "idle" /\ held'.rv = job'.rv) => Intent(pc', held', job')
  <2>1. CASE job' = job
    BY <2>1 DEF LifecycleInv, CopiesAreCurrent, IntentStep
  <2>2. CASE job'.rv = job.rv + 1
    BY <1>1, <1>3, <2>2 DEF IntentStep
  <2> QED
    BY <1>2, <2>1, <2>2
<1>6. ASSUME NEW p \in Pods, WriteSent(p)', copy'[p].rv = job'.rv
      PROVE  copy'[p].st \in Lifecycle!Reporting(job'.st)
  <2>1. CASE job' = job
    BY <1>6, <2>1 DEF LifecycleInv, CopiesAreCurrent, IntentStep
  <2>2. CASE job'.rv = job.rv + 1
    BY <1>1, <1>3, <1>6, <2>2 DEF IntentStep
  <2> QED
    BY <1>2, <2>1, <2>2
<1>7. NewIsNotStored'
  BY <1>1, <1>4, NewStaysAway DEF LifecycleInv, NewIsNotStored
<1> QED
  BY <1>4, <1>5, <1>6, <1>7 DEF LifecycleInv, CopiesAreCurrent

\* The invariant holds at the start.
LEMMA InitCurrent == Init => LifecycleInv
<1> SUFFICES ASSUME Init PROVE LifecycleInv
  OBVIOUS
<1>1. VersionInv
  BY InitVersions
<1>2. NoJob.st.state # "New"
  BY DEF NoJob, NoStatus
<1> QED
  BY <1>1, <1>2 DEF Init, ClusterInit, LifecycleInv, CopiesAreCurrent,
                    NewIsNotStored

\* Every step, also one of something else, keeps the invariant.
LEMMA NextCurrent == LifecycleInv /\ [Next]_vars => LifecycleInv'
<1>1. LifecycleInv /\ Next => LifecycleInv'
  BY NextVersions, NextSteps, NextLifecycle, LifecycleInvStep DEF LifecycleInv
<1>2. LifecycleInv /\ UNCHANGED vars => LifecycleInv'
  <2> SUFFICES ASSUME LifecycleInv, UNCHANGED vars PROVE LifecycleInv'
    OBVIOUS
  <2>1. VersionInv'
    BY NextVersions DEF LifecycleInv
  <2>2. UNCHANGED <<job, jobCache, pc, held, stage, copy>>
    BY DEF vars, cacheVars, workerVars, callVars
  <2> QED
    BY <2>1, <2>2 DEF LifecycleInv, CopiesAreCurrent, NewIsNotStored
<1> QED
  BY <1>1, <1>2

\* In every behaviour a copy of the job that could still be stored is one that
\* the lifecycle allows: the worker's guards, evaluated on the cache, hold of
\* the stored job when the write is accepted.
THEOREM CopiesStayCurrent == Spec => []LifecycleInv
BY InitCurrent, NextCurrent, PTL DEF Spec

\* The service implements the lifecycle of the job: for any number of pods,
\* incarnations, disturbances and calls in flight, every stored write is one
\* that the lifecycle allows in the status it replaces.
THEOREM Implementation == Spec => LifecycleImplemented
<1>1. Init => Lifecycle!Init
  <2>1. ~NoJob.exists /\ ~NoJob.fin /\ ~NoJob.del /\ NoJob.st = NoStatus
          /\ NoJob.uid = 0
    BY DEF NoJob
  <2> QED
    BY <2>1, SameNoStatus DEF Init, ClusterInit, Lifecycle!Init, Lifecycle!Absent
<1>2. LifecycleInv /\ [Next]_vars => [Lifecycle!Next]_(Lifecycle!vars)
  <2>1. LifecycleInv /\ Next => LifecycleStep
    BY NextLifecycle
  <2>2. UNCHANGED vars => LifecycleStep
    BY StutterStep DEF vars
  <2> QED
    BY <2>1, <2>2 DEF LifecycleStep
<1> QED
  BY <1>1, <1>2, CopiesStayCurrent, PTL
  DEF Spec, LifecycleImplemented, Lifecycle!Spec

\* The parts of a status fit together in every behaviour: the lifecycle keeps
\* them so, and the service implements the lifecycle.
THEOREM StatusesCohere == Spec => []StatusCoherent
<1> USE DEF StatusCoherent, Lifecycle!Coherent
<1>1. Init => StatusCoherent
  <2>1. /\ ~NoJob.st.podName /\ ~NoJob.st.scheduled /\ ~NoJob.st.completed
        /\ NoJob.st.state = "Unset" /\ NoJob.st.reason = "Unset"
    BY DEF NoJob, NoStatus
  <2> QED
    BY <2>1 DEF Init, ClusterInit
<1>2. ASSUME TypeOK, StatusCoherent, LifecycleStep PROVE StatusCoherent'
  <2>1. job.st \in Status
    BY <1>2 DEF TypeOK, Job
  <2>2. ASSUME NEW s, Lifecycle!Become(s),
               s.podName <=> s.scheduled,
               s.state = "Scheduled" => s.scheduled,
               s.reason = "Cancelled" => s.scheduled,
               s.completed => s.scheduled,
               s.scheduled => job.fin
        PROVE  StatusCoherent'
    BY <2>2 DEF Lifecycle!Become
  <2>3. CASE Lifecycle!Schedule
    BY <1>2, <2>1, <2>2, <2>3
    DEF Lifecycle!Schedule, Lifecycle!Scheduling, Lifecycle!Failed, Status
  <2>4. CASE Lifecycle!End \/ Lifecycle!Stamp \/ Lifecycle!Cancel
    BY <1>2, <2>1, <2>2, <2>4
    DEF Lifecycle!End, Lifecycle!Ending, Lifecycle!Stamp, Lifecycle!Stamped,
        Lifecycle!Cancel, Lifecycle!Cancelling, Lifecycle!Failed, Status
  <2>5. CASE Lifecycle!Report \/ Lifecycle!AskCancellation
    <3>1. PICK s : /\ Lifecycle!Become(s)
                   /\ \/ s \in Lifecycle!Reporting(job.st)
                      \/ s = [job.st EXCEPT !.state = "Cancelled"]
      BY <2>5 DEF Lifecycle!Report, Lifecycle!AskCancellation
    <3>2. /\ s.podName = job.st.podName /\ s.scheduled = job.st.scheduled
          /\ s.completed = job.st.completed /\ s.state # "Scheduled"
          /\ s.reason \in {job.st.reason, "NoReason", "Failed", "Succeeded"}
      BY <2>1, <3>1 DEF Lifecycle!Reporting, Lifecycle!Failed, Status
    <3> QED
      BY <1>2, <2>2, <3>1, <3>2
  <2>6. CASE Lifecycle!AddFinalizer \/ UNCHANGED Lifecycle!vars
    BY <1>2, <2>6 DEF Lifecycle!AddFinalizer, Lifecycle!vars
  <2>7. CASE Lifecycle!Create \/ Lifecycle!AskDeletion
               \/ Lifecycle!RemoveFinalizer
    <3>1. \/ job'.st = job.st /\ job'.fin = job.fin
          \/ job'.st = NoStatus
      BY <2>7, SameNoStatus
      DEF Lifecycle!Create, Lifecycle!AskDeletion, Lifecycle!RemoveFinalizer,
          Lifecycle!Go, Lifecycle!Absent
    <3>2. /\ ~NoStatus.podName /\ ~NoStatus.scheduled /\ ~NoStatus.completed
          /\ NoStatus.state = "Unset" /\ NoStatus.reason = "Unset"
      BY DEF NoStatus
    <3> QED
      BY <1>2, <3>1, <3>2
  <2> QED
    BY <1>2, <2>3, <2>4, <2>5, <2>6, <2>7 DEF LifecycleStep, Lifecycle!Next
<1>3. LifecycleInv /\ StatusCoherent /\ [Next]_vars => StatusCoherent'
  BY <1>2, NextLifecycle, StutterStep DEF vars, LifecycleInv, VersionInv
<1> QED
  BY <1>1, <1>3, CopiesStayCurrent, PTL DEF Spec
=============================================================================
