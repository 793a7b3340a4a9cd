----------------------------- MODULE QueueProofs ----------------------------
(***************************************************************************)
(* No job is forgotten: as long as there is something to do for it, it is  *)
(* queued, will be queued by an event, or is being worked on.              *)
(***************************************************************************)
EXTENDS LifecycleProofs

USE DEF WriteSent

\* A job that is being deleted waits for its finalizer to be removed.
DeletionWaits == job.del => job.fin

\* The worker is about to add the finalizer to a job without it, unless its
\* copy is an old one.
FinalizerMissing == (pc = "addFinalizer" /\ held.rv = job.rv) => ~job.fin

QueueInv == LifecycleInv /\ DeletionWaits /\ FinalizerMissing /\ NeverForgotten

-----------------------------------------------------------------------------
(* The finalizer. *)

\* The lifecycle asks for a deletion only when the finalizer is there.
LEMMA DeletionKept ==
  ASSUME DeletionWaits, LifecycleStep
  PROVE  DeletionWaits'
BY DEF DeletionWaits, LifecycleStep, Lifecycle!Next, Lifecycle!Create,
       Lifecycle!AskDeletion, Lifecycle!AskCancellation, Lifecycle!AddFinalizer,
       Lifecycle!RemoveFinalizer, Lifecycle!Schedule, Lifecycle!End,
       Lifecycle!Stamp, Lifecycle!Cancel, Lifecycle!Report, Lifecycle!Become,
       Lifecycle!Go, Lifecycle!Absent, Lifecycle!vars

\* The worker sets out to add the finalizer to a job that it saw without it.
LEMMA AddFinalizerStarts ==
  ASSUME LifecycleInv, [Next]_vars, pc' = "addFinalizer"
  PROVE  \/ pc = "addFinalizer" /\ held' = held
         \/ job' = job /\ held'.rv = jobCache.rv /\ ~jobCache.fin
<1>1. CASE WorkerNext
  <2>1. HandleNewCR
    BY <1>1
    DEF WorkerNext, ReconcileMissing, HandleDeletion, CheckScheduledPod,
        CheckLater, HandleComplete, HandleCancel, AddFinalizer, RemoveFinalizer,
        UpdateCreateFailed, UpdateScheduled, UpdatePodGone, UpdateFinished,
        UpdateCompleted, UpdateCancelled, CreatePod, DeletePod, CancelPod,
        UpdateObject, UpdateStatus, Start, Finish, Proceed
  <2>2. /\ job' = job /\ ~Fetched.fin /\ held' = [Fetched EXCEPT !.fin = TRUE]
    BY <2>1 DEF HandleNewCR, Start
  <2>3. Fetched \in Job /\ Fetched.rv = jobCache.rv /\ Fetched.fin = jobCache.fin
    BY FetchedType, FetchedKinds DEF LifecycleInv, VersionInv
  <2> QED
    BY <2>2, <2>3 DEF Job
<1>2. CASE ServerNext
  BY <1>2 DEF ServerNext, GetForUpdate, PutStatus, PutLate, DropLate, workerVars
<1>3. CASE DriverNext
  BY <1>3 DEF DriverNext, NewDriverFails, ReportRunning, Exec, CallFails, workerVars
<1>4. CASE ClusterNext
  BY <1>4 DEF ClusterNext, SyncJob, SyncPod, Resync, CreateJob, CancelJob, EditJob,
              DeleteJob, StartMain, FailInit, KillMain, RemovePod, EvictPod,
              CollectPod, workerVars
<1>5. CASE Restart
  BY <1>5 DEF Restart
<1>6. CASE UNCHANGED vars
  BY <1>6 DEF vars, workerVars
<1> QED
  BY <1>1, <1>2, <1>3, <1>4, <1>5, <1>6 DEF Next

\* A copy of the version of the changed job is not an old one.
LEMMA MissingKept ==
  ASSUME LifecycleInv, Steps, FinalizerMissing, [Next]_vars
  PROVE  FinalizerMissing'
<1> SUFFICES ASSUME pc' = "addFinalizer", held'.rv = job'.rv PROVE ~job'.fin
  BY DEF FinalizerMissing
<1>1. CASE pc = "addFinalizer" /\ held' = held
  <2>1. held.rv \in Nat /\ job.rv \in Nat /\ held.rv <= job.rv
    BY <1>1 DEF LifecycleInv, VersionInv, TypeOK, Job, CopiesAreVersions, IsVersion
  <2>2. job' = job \/ job'.rv = job.rv + 1
    BY DEF Steps, JobStep
  <2>3. job' = job
    BY <1>1, <2>1, <2>2
  <2> QED
    BY <1>1, <2>3 DEF FinalizerMissing
<1>2. CASE job' = job /\ held'.rv = jobCache.rv /\ ~jobCache.fin
  BY <1>2 DEF LifecycleInv, CopiesAreCurrent
<1> QED
  BY <1>1, <1>2, AddFinalizerStarts

-----------------------------------------------------------------------------
(* The queue. *)

\* A change of the job is one that the cache does not show.
LEMMA ChangeIsNews ==
  ASSUME LifecycleInv, Steps, job' # job
  PROVE  jobCache' # job'
<1>1. jobCache.rv \in Nat /\ job.rv \in Nat /\ jobCache.rv <= job.rv
  BY DEF LifecycleInv, VersionInv, TypeOK, Job, CopiesAreVersions, IsVersion
<1>2. job'.rv = job.rv + 1 /\ jobCache' = jobCache
  BY DEF Steps, JobStep, CopyStep
<1> QED
  BY <1>1, <1>2

\* When nothing will bring the worker back to the job, it is at it.
AtWork == pc # "idle" /\ held.rv = job.rv

\* A handler takes up a job that needs it.
LEMMA HandlerTakesUp ==
  ASSUME QueueInv, Unfinished, jobCache = job, ~queued',
         \/ ReconcileMissing
         \/ HandleDeletion
         \/ HandleNewCR
         \/ CheckScheduledPod
         \/ HandleComplete
         \/ HandleCancel
  PROVE  AtWork'
<1>1. /\ LifecycleInv /\ job \in Job /\ Fetched \in Job /\ Fetched.rv = job.rv
      /\ job.exists
  BY FetchedType, FetchedKinds
  DEF QueueInv, LifecycleInv, VersionInv, TypeOK, Unfinished
<1>2. ASSUME NEW next, NEW h, NEW again, Start(next, h, again),
             next # "idle", h.rv = job.rv
      PROVE  AtWork'
  BY <1>2 DEF Start, AtWork
<1>3. CASE ReconcileMissing
  BY <1>1, <1>3 DEF ReconcileMissing
<1>4. CASE HandleDeletion
  <2>1. [jobCache EXCEPT !.fin = FALSE].rv = job.rv
    BY <1>1 DEF Job
  <2>2. jobCache.fin
    BY <1>4 DEF HandleDeletion, QueueInv, DeletionWaits
  <2> QED
    BY <1>2, <1>4, <2>1, <2>2 DEF HandleDeletion
<1>5. CASE HandleNewCR
  <2>1. [Fetched EXCEPT !.fin = TRUE].rv = job.rv
    BY <1>1 DEF Job
  <2> QED
    BY <1>2, <1>5, <2>1 DEF HandleNewCR
<1>6. CASE CheckScheduledPod
  <2>1. /\ [Fetched EXCEPT !.st.state = "Complete",
                           !.st.reason = "Succeeded"].rv = job.rv
        /\ [Fetched EXCEPT !.st = Failed(@, "podMissing")].rv = job.rv
        /\ [Fetched EXCEPT !.st = Failed(@, "terminated")].rv = job.rv
    BY <1>1 DEF Job
  <2>2. ~CheckLater
    BY DEF CheckLater, Start
  <2> QED
    BY <1>2, <1>6, <2>1, <2>2 DEF CheckScheduledPod
<1>7. CASE HandleComplete
  <2>1. jobCache.st.scheduled /\ jobCache.st.state = "Complete" /\ ~jobCache.del
    BY <1>1, <1>7, FetchedKinds DEF HandleComplete
  <2> QED
    BY <2>1 DEF Unfinished
<1>8. CASE HandleCancel
  <2>1. /\ [Fetched EXCEPT !.st.state = "Complete",
                           !.st.reason = "Cancelled"].rv = job.rv
        /\ [Fetched EXCEPT !.st = Failed(@, "podMissing")].rv = job.rv
    BY <1>1 DEF Job
  <2> QED
    BY <1>2, <1>8, <2>1 DEF HandleCancel
<1> QED
  BY <1>3, <1>4, <1>5, <1>6, <1>7, <1>8

\* A request ends with its last call only if that call changed the job, or if
\* it is repeated.
LEMMA CallGoesOn ==
  ASSUME QueueInv, Unfinished, jobCache = job, job' = job, ~queued', ~queued,
         WorkerNext, AtWork
  PROVE  AtWork'
<1>1. /\ job \in Job /\ held \in Job /\ job.st \in Status /\ held.st \in Status
      /\ job.exists /\ pc # "idle" /\ held.rv = job.rv
      /\ Intent(pc, held, job)
  BY DEF QueueInv, LifecycleInv, VersionInv, TypeOK, Job, Unfinished, AtWork,
         CopiesAreCurrent
<1>2. ASSUME NEW at, NEW again, UpdateStatus(at, again)
      PROVE  \/ ~again[TRUE] /\ pc = at /\ job.st = held.st
             \/ ~again[FALSE] /\ pc = at
  <2>1. PICK ok \in BOOLEAN : StatusUpdate(held, ok) /\ ~again[ok]
    BY <1>2 DEF UpdateStatus, Finish
  <2>2. CASE ok
    <3>1. job' = Stored([job EXCEPT !.st = held.st])
      BY <2>1, <2>2 DEF StatusUpdate, Write
    <3>2. /\ [job EXCEPT !.st = held.st].st = held.st
          /\ [[job EXCEPT !.st = held.st] EXCEPT !.rv = job.rv + 1].st = held.st
      BY <1>1 DEF Job
    <3> QED
      BY <1>2, <2>1, <2>2, <3>1, <3>2 DEF Stored, UpdateStatus
  <2> QED
    BY <1>2, <2>1, <2>2 DEF UpdateStatus
<1>3. ASSUME NEW at, UpdateStatus(at, Always) PROVE FALSE
  <2>1. Always[TRUE] /\ Always[FALSE]
    BY Zenon DEF Always
  <2> QED
    BY <1>2, <1>3, <2>1
<1>4. ASSUME NEW at, UpdateStatus(at, OnError) PROVE pc = at /\ job.st = held.st
  <2>1. OnError[FALSE]
    BY Zenon DEF OnError
  <2> QED
    BY <1>2, <1>4, <2>1
<1>5. CASE UpdateFinished \/ UpdateCancelled
  <2>1. pc \in {"statusFinished", "statusCancelled"} /\ job.st = held.st
    BY <1>4, <1>5 DEF UpdateFinished, UpdateCancelled
  <2>2. /\ held.st.state = "Complete"
        /\ job.st.state \in {"Scheduled", "Running", "Cancelled"}
    BY <1>1, <2>1
    DEF Intent, Lifecycle!Ending, Lifecycle!Cancelling, Lifecycle!Failed, Status
  <2> QED
    BY <2>1, <2>2
<1>6. CASE UpdateCompleted
  <2>1. pc = "statusCompleted"
    BY <1>6 DEF UpdateCompleted, UpdateStatus
  <2> QED
    BY <1>1, <2>1 DEF Intent, Unfinished
<1>7. CASE AddFinalizer \/ RemoveFinalizer
  <2>1. /\ pc \in {"addFinalizer", "removeFinalizer"}
        /\ ObjectUpdate(held, TRUE)
    BY <1>7 DEF AddFinalizer, RemoveFinalizer, UpdateObject, Finish, OnError
  <2>2. job' = IF job.del /\ ~held.fin THEN Removed
               ELSE Stored([job EXCEPT !.fin = held.fin])
    BY <2>1 DEF ObjectUpdate, Write
  <2>3. CASE pc = "addFinalizer"
    <3>1. held.fin /\ ~job.fin
      BY <1>1, <2>3 DEF Intent, QueueInv, FinalizerMissing
    <3>2. /\ [job EXCEPT !.fin = held.fin].fin = held.fin
          /\ [[job EXCEPT !.fin = held.fin] EXCEPT !.rv = job.rv + 1].fin = held.fin
      BY <1>1, Zenon DEF Job
    <3> QED
      BY <2>2, <3>1, <3>2 DEF Stored
  <2>4. CASE pc = "removeFinalizer"
    <3>1. job' = Removed
      BY <1>1, <2>2, <2>4 DEF Intent
    <3> QED
      BY <1>1, <3>1 DEF Removed, NoJob
  <2> QED
    BY <2>1, <2>3, <2>4
<1>8. CASE CreatePod
  <2>1. /\ [held EXCEPT !.st.state = "Scheduled", !.st.podName = TRUE,
                        !.st.scheduled = TRUE].rv = held.rv
        /\ [held EXCEPT !.st = Failed(@, "createError")].rv = held.rv
    BY <1>1 DEF Job
  <2> QED
    BY <1>1, <1>8, <2>1 DEF CreatePod, Proceed, AtWork
<1>9. CASE DeletePod \/ CancelPod
  BY <1>1, <1>9 DEF DeletePod, CancelPod, Proceed, Finish, AtWork
<1>10. CASE UpdateCreateFailed \/ UpdateScheduled \/ UpdatePodGone
  BY <1>3, <1>10 DEF UpdateCreateFailed, UpdateScheduled, UpdatePodGone
<1>11. ~ \E next, h, again : Start(next, h, again)
  BY <1>1 DEF Start
<1> QED
  BY <1>5, <1>6, <1>7, <1>8, <1>9, <1>10, <1>11
  DEF WorkerNext, ReconcileMissing, HandleDeletion, HandleNewCR,
      CheckScheduledPod, CheckLater, HandleComplete, HandleCancel

\* Every step keeps the invariant.
LEMMA NextQueue == QueueInv /\ [Next]_vars => QueueInv'
<1> SUFFICES ASSUME QueueInv, [Next]_vars PROVE QueueInv'
  OBVIOUS
<1>1. LifecycleInv /\ LifecycleInv' /\ DeletionWaits /\ FinalizerMissing
      /\ NeverForgotten
  BY NextCurrent DEF QueueInv
<1>2. CASE UNCHANGED vars
  BY <1>1, <1>2
  DEF vars, workerVars, cacheVars, QueueInv, DeletionWaits, FinalizerMissing,
      NeverForgotten, Unfinished
<1>3. CASE Next
  <2>1. Steps /\ LifecycleStep
    BY <1>1, <1>3, NextSteps, NextLifecycle DEF LifecycleInv
  <2>2. DeletionWaits' /\ FinalizerMissing'
    BY <1>1, <2>1, DeletionKept, MissingKept
  <2>3. NeverForgotten'
    <3> SUFFICES ASSUME Unfinished', ~queued', jobCache' = job', job' = job
                 PROVE  AtWork'
      BY <1>1, <2>1, ChangeIsNews DEF NeverForgotten, AtWork
    <3>1. Unfinished
      BY DEF Unfinished
    <3>2. CASE UNCHANGED <<jobCache, pc, held, queued>>
      BY <1>1, <3>1, <3>2 DEF NeverForgotten, AtWork
    <3>3. CASE WorkerNext
      <4>1. jobCache = job
        BY <3>3
        DEF WorkerNext, ReconcileMissing, HandleDeletion, HandleNewCR,
            CheckScheduledPod, CheckLater, HandleComplete, HandleCancel, Start,
            AddFinalizer, RemoveFinalizer, UpdateCreateFailed, UpdateScheduled,
            UpdatePodGone, UpdateFinished, UpdateCompleted, UpdateCancelled,
            UpdateObject, UpdateStatus, CreatePod, DeletePod, CancelPod, cacheVars
      <4>2. CASE pc = "idle"
        BY <3>1, <3>3, <4>1, <4>2, HandlerTakesUp
        DEF WorkerNext, AddFinalizer, RemoveFinalizer, UpdateCreateFailed,
            UpdateScheduled, UpdatePodGone, UpdateFinished, UpdateCompleted,
            UpdateCancelled, CreatePod, DeletePod, CancelPod, UpdateObject,
            UpdateStatus
      <4>3. CASE pc # "idle"
        <5>1. ~queued
          BY <3>3, <4>3
          DEF WorkerNext, ReconcileMissing, HandleDeletion, HandleNewCR,
              CheckScheduledPod, CheckLater, HandleComplete, HandleCancel, Start,
              AddFinalizer, RemoveFinalizer, UpdateCreateFailed, UpdateScheduled,
              UpdatePodGone, UpdateFinished, UpdateCompleted, UpdateCancelled,
              UpdateObject, UpdateStatus, CreatePod, DeletePod, CancelPod,
              Proceed, Finish
        <5>2. AtWork
          BY <1>1, <3>1, <4>1, <5>1 DEF NeverForgotten, AtWork
        <5> QED
          BY <3>1, <3>3, <4>1, <5>1, <5>2, CallGoesOn
      <4> QED
        BY <4>2, <4>3
    <3>4. CASE ServerNext
      BY <3>2, <3>4 DEF ServerNext, GetForUpdate, PutStatus, PutLate, DropLate,
                        workerVars, cacheVars
    <3>5. CASE DriverNext
      BY <3>2, <3>5 DEF DriverNext, NewDriverFails, ReportRunning, Exec, CallFails,
                        workerVars, cacheVars
    <3>6. CASE SyncJob \/ Resync \/ Restart
      BY <3>1, <3>6 DEF SyncJob, Resync, Restart, Unfinished
    <3>7. CASE SyncPod
      <4>1. ~queued /\ UNCHANGED <<jobCache, pc, held>>
        BY <3>7, Zenon DEF SyncPod
      <4> QED
        BY <1>1, <3>1, <4>1 DEF NeverForgotten, AtWork
    <3>8. CASE ClusterNext /\ ~SyncJob /\ ~Resync /\ ~SyncPod
      BY <3>2, <3>8 DEF ClusterNext, CreateJob, CancelJob, EditJob,
                        DeleteJob, StartMain, FailInit, KillMain, RemovePod,
                        EvictPod, CollectPod, workerVars, cacheVars
    <3> QED
      BY <1>3, <3>3, <3>4, <3>5, <3>6, <3>7, <3>8 DEF Next, ClusterNext
  <2> QED
    BY <1>1, <2>2, <2>3 DEF QueueInv
<1> QED
  BY <1>2, <1>3

\* In every behaviour, whatever fails, is refused, is restarted or is seen late,
\* the controller has a reason to come back to a job that is not done: the key
\* in the queue, an event on its way, or a call at hand for the current version
\* of the job, which changes the job or has the request repeated.
THEOREM NoneForgotten == Spec => []NeverForgotten
<1>1. Init => QueueInv
  <2> SUFFICES ASSUME Init PROVE QueueInv
    OBVIOUS
  <2>1. LifecycleInv /\ pc = "idle" /\ ~job.exists /\ ~job.del
    BY InitCurrent DEF Init, ClusterInit, NoJob
  <2> QED
    BY <2>1 DEF QueueInv, DeletionWaits, FinalizerMissing, NeverForgotten, Unfinished
<1>2. QueueInv => NeverForgotten
  BY DEF QueueInv
<1> QED
  BY <1>1, <1>2, NextQueue, PTL DEF Spec
=============================================================================
