------------------------- MODULE EvalServiceProofs --------------------------
(***************************************************************************)
(* Proofs about EvalService, for any set of pods and any bounds.           *)
(***************************************************************************)
EXTENDS EvalService, TLAPS

USE DEF WriteSent

-----------------------------------------------------------------------------
(* What the operations on the job object keep. *)

\* A job with another status is a job.
LEMMA JobWithStatus ==
  ASSUME NEW j \in Job, NEW s \in Status
  PROVE  [j EXCEPT !.st = s] \in Job
BY DEF Job

\* A job with another finalizer flag is a job.
LEMMA JobWithFin ==
  ASSUME NEW j \in Job, NEW b \in BOOLEAN
  PROVE  [j EXCEPT !.fin = b] \in Job
BY DEF Job

\* The empty objects are well typed.
LEMMA EmptyTypes == NoStatus \in Status /\ NoJob \in Job /\ NoView \in PodViews
BY DEF NoStatus, Status, NoJob, Job, JobState, Reason, Message, NoView, PodViews, Ended

\* The status the handlers store for a failure is well typed.
LEMMA FailedType ==
  ASSUME NEW s \in Status, NEW m \in Message
  PROVE  Failed(s, m) \in Status
BY DEF Failed, Status, JobState, Reason

\* Reconcile works on a well-typed copy of the job.
LEMMA FetchedType ==
  ASSUME TypeOK
  PROVE  Fetched \in Job
BY DEF TypeOK, Fetched, Job, Status, JobState

\* The report of a driver merged into a status is well typed.
LEMMA MergedType ==
  ASSUME TypeOK, NEW p \in Pods, NEW s \in Status
  PROVE  Merged(p, s) \in Status
BY DEF TypeOK, Merged, Report, CarriesResults, SuccessOutcome, Status, JobState, Reason, Message

\* What the API server stores for a write is well typed.
LEMMA StoredType ==
  ASSUME job \in Job, NEW j \in Job
  PROVE  Stored(j) \in Job /\ Removed \in Job
<1>1. job.rv + 1 \in Nat /\ job.uid \in Nat
  BY DEF Job
<1>2. [j EXCEPT !.rv = job.rv + 1] \in Job
  BY <1>1 DEF Job
<1>3. Stored(j) \in Job
  BY <1>2 DEF Stored
<1>4. Removed \in Job
  BY <1>1, EmptyTypes DEF Removed, Job
<1> QED
  BY <1>3, <1>4

\* A status update leaves a well-typed job.
LEMMA StatusUpdateType ==
  ASSUME TypeOK, NEW c \in Job, NEW ok \in BOOLEAN, StatusUpdate(c, ok)
  PROVE  job' \in Job /\ faults' \in Nat
<1>1. c.st \in Status
  BY DEF Job
<1>2. [job EXCEPT !.st = c.st] \in Job
  BY <1>1, JobWithStatus DEF TypeOK
<1>3. Stored([job EXCEPT !.st = c.st]) \in Job
  BY <1>2, StoredType DEF TypeOK
<1> QED
  BY <1>3 DEF StatusUpdate, Write, Disturb, TypeOK

\* An update of the object leaves a well-typed job.
LEMMA ObjectUpdateType ==
  ASSUME TypeOK, NEW c \in Job, NEW ok \in BOOLEAN, ObjectUpdate(c, ok)
  PROVE  job' \in Job /\ faults' \in Nat
<1>1. [job EXCEPT !.fin = c.fin] \in Job
  BY JobWithFin DEF TypeOK, Job
<1>2. /\ Stored([job EXCEPT !.fin = c.fin]) \in Job
      /\ Removed \in Job
  BY <1>1, StoredType DEF TypeOK
<1> QED
  BY <1>2 DEF ObjectUpdate, Write, Disturb, TypeOK

\* Creating and deleting the pod keeps the types of the pod's variables.
LEMMA PodCallType ==
  ASSUME TypeOK, NEW u \in Nat, NEW b \in BOOLEAN, NEW ok \in BOOLEAN,
         PodCreate(u, ok) \/ PodDelete(b, ok)
  PROVE  /\ phase' \in [Pods -> Phase]
         /\ owner' \in [Pods -> Nat]
         /\ dying' \in [Pods -> BOOLEAN]
         /\ outcome' \in [Pods -> Outcome]
         /\ faults' \in Nat
<1>1. CASE PodCreate(u, ok)
  BY <1>1 DEF PodCreate, NewPod, podVars, Disturb, TypeOK, Phase
<1>2. CASE PodDelete(b, ok)
  <2>1. UNCHANGED dying \/ \E p \in Pods : dying' = [dying EXCEPT ![p] = TRUE]
    BY <1>2 DEF PodDelete, MarkDying, podVars
  <2>2. dying' \in [Pods -> BOOLEAN]
    BY <2>1, Zenon DEF TypeOK
  <2>3. UNCHANGED <<phase, owner, outcome>>
    BY <1>2 DEF PodDelete, MarkDying, podVars
  <2>4. faults' \in Nat
    BY <1>2 DEF PodDelete, Disturb, TypeOK
  <2> QED
    BY <2>2, <2>3, <2>4 DEF TypeOK
<1> QED
  BY <1>1, <1>2

-----------------------------------------------------------------------------
(* Type correctness. *)

\* A handler starts with a well-typed copy of the job in hand.
LEMMA StartType ==
  ASSUME TypeOK, NEW next \in WorkerPC, NEW h \in Job, NEW again \in BOOLEAN,
         Start(next, h, again)
  PROVE  TypeOK'
BY EmptyTypes DEF Start, TypeOK, podVars, cacheVars, callVars

\* Each step of the worker keeps the types.
LEMMA WorkerType == TypeOK /\ WorkerNext => TypeOK'
<1> SUFFICES ASSUME TypeOK, WorkerNext PROVE TypeOK'
  OBVIOUS
<1> USE EmptyTypes
<1>1. CASE ReconcileMissing
  BY <1>1, StartType DEF ReconcileMissing, WorkerPC
<1>2. CASE HandleDeletion
  <2>1. [jobCache EXCEPT !.fin = FALSE] \in Job
    BY JobWithFin DEF TypeOK
  <2> QED
    BY <1>2, <2>1, StartType DEF HandleDeletion, WorkerPC
<1>3. CASE HandleNewCR
  <2>1. [Fetched EXCEPT !.fin = TRUE] \in Job
    BY JobWithFin, FetchedType
  <2> QED
    BY <1>3, <2>1, StartType DEF HandleNewCR, WorkerPC
<1>4. CASE CheckScheduledPod
  <2>1. [Fetched EXCEPT !.st = Failed(@, "podMissing")] \in Job
    BY FetchedType, FailedType, JobWithStatus DEF Job, Message
  <2>2. [Fetched EXCEPT !.st = Failed(@, "terminated")] \in Job
    BY FetchedType, FailedType, JobWithStatus DEF Job, Message
  <2>3. [Fetched EXCEPT !.st.state = "Complete",
                        !.st.reason = "Succeeded"] \in Job
    BY FetchedType DEF Job, Status, JobState, Reason
  <2> QED
    BY <1>4, <2>1, <2>2, <2>3, StartType
    DEF CheckScheduledPod, CheckLater, WorkerPC
<1>5. CASE HandleComplete
  <2>1. [Fetched EXCEPT !.st.completed = TRUE] \in Job
    BY FetchedType DEF Job, Status
  <2> QED
    BY <1>5, <2>1, StartType DEF HandleComplete, WorkerPC
<1>6. CASE HandleCancel
  <2>1. [Fetched EXCEPT !.st = Failed(@, "podMissing")] \in Job
    BY FetchedType, FailedType, JobWithStatus DEF Job, Message
  <2>2. [Fetched EXCEPT !.st.state = "Complete",
                        !.st.reason = "Cancelled"] \in Job
    BY FetchedType DEF Job, Status, JobState, Reason
  <2> QED
    BY <1>6, <2>1, <2>2, StartType DEF HandleCancel, WorkerPC
<1>7. ASSUME NEW at, NEW again \in [BOOLEAN -> BOOLEAN],
             UpdateObject(at, again) \/ UpdateStatus(at, again)
      PROVE  TypeOK'
  <2>1. job' \in Job /\ faults' \in Nat
    BY <1>7, StatusUpdateType, ObjectUpdateType
    DEF UpdateObject, UpdateStatus, TypeOK
  <2> QED
    BY <1>7, <2>1 DEF UpdateObject, UpdateStatus, Finish, TypeOK, WorkerPC,
                      podVars, cacheVars, callVars
<1>8. Always \in [BOOLEAN -> BOOLEAN] /\ OnError \in [BOOLEAN -> BOOLEAN]
        /\ Never \in [BOOLEAN -> BOOLEAN]
  BY DEF Always, OnError, Never
<1>9. CASE CreatePod
  <2>1. held.uid \in Nat
    BY DEF TypeOK, Job
  <2>2. [held EXCEPT !.st.state = "Scheduled", !.st.podName = TRUE,
                     !.st.scheduled = TRUE] \in Job
    BY DEF TypeOK, Job, Status, JobState
  <2>3. [held EXCEPT !.st = Failed(@, "createError")] \in Job
    BY FailedType, JobWithStatus DEF TypeOK, Job, Message
  <2>4. /\ phase' \in [Pods -> Phase]
        /\ owner' \in [Pods -> Nat]
        /\ dying' \in [Pods -> BOOLEAN]
        /\ outcome' \in [Pods -> Outcome]
        /\ faults' \in Nat
    BY <1>9, <2>1, PodCallType DEF CreatePod
  <2> QED
    BY <1>9, <2>2, <2>3, <2>4 DEF CreatePod, Proceed, TypeOK, WorkerPC,
                                  cacheVars, callVars
<1>10. CASE DeletePod \/ CancelPod
  <2>1. held.st.podName \in BOOLEAN
    BY DEF TypeOK, Job, Status
  <2>2. /\ phase' \in [Pods -> Phase]
        /\ owner' \in [Pods -> Nat]
        /\ dying' \in [Pods -> BOOLEAN]
        /\ outcome' \in [Pods -> Outcome]
        /\ faults' \in Nat
    BY <1>10, <2>1, PodCallType DEF DeletePod, CancelPod
  <2> QED
    BY <1>10, <2>2 DEF DeletePod, CancelPod, Proceed, Finish, TypeOK, WorkerPC,
                       cacheVars, callVars
<1> QED
  BY <1>1, <1>2, <1>3, <1>4, <1>5, <1>6, <1>7, <1>8, <1>9, <1>10
  DEF WorkerNext, AddFinalizer, RemoveFinalizer, UpdateCreateFailed,
      UpdateScheduled, UpdatePodGone, UpdateFinished, UpdateCompleted,
      UpdateCancelled

\* Each step of the status server keeps the types.
LEMMA ServerType == TypeOK /\ ServerNext => TypeOK'
<1> SUFFICES ASSUME TypeOK, NEW p \in Pods,
                    \/ GetForUpdate(p)
                    \/ PutStatus(p)
                    \/ PutLate(p)
                    \/ DropLate(p)
             PROVE  TypeOK'
  BY DEF ServerNext
<1> USE EmptyTypes DEF podVars, cacheVars, workerVars, callVars
<1>1. ASSUME NEW ok \in BOOLEAN, Return(p, ok)
      PROVE  /\ phase' \in [Pods -> Phase]
             /\ UNCHANGED <<owner, dying, outcome>>
  BY <1>1 DEF Return, SetPhase, TypeOK, Phase, Alive, Waiting, Ended
<1>2. CASE GetForUpdate(p)
  <2>1. [jobCache EXCEPT !.st = Merged(p, jobCache.st)] \in Job
    BY MergedType, JobWithStatus DEF TypeOK, Job
  <2> QED
    BY <1>1, <1>2, <2>1 DEF GetForUpdate, TypeOK, CallStage
<1>3. CASE PutStatus(p) \/ PutLate(p)
  <2>1. copy[p] \in Job
    BY DEF TypeOK
  <2>2. job' \in Job /\ faults' \in Nat
    BY <1>3, <2>1, StatusUpdateType DEF PutStatus, PutLate
  <2> QED
    BY <1>1, <1>3, <2>2 DEF PutStatus, PutLate, EndCall, TypeOK, CallStage
<1>4. CASE DropLate(p)
  BY <1>4 DEF DropLate, EndCall, TypeOK, CallStage
<1> QED
  BY <1>2, <1>3, <1>4

\* Each step of a driver keeps the types.
LEMMA DriverType == TypeOK /\ DriverNext => TypeOK'
<1> SUFFICES ASSUME TypeOK, NEW p \in Pods,
                    \/ NewDriverFails(p)
                    \/ ReportRunning(p)
                    \/ Exec(p)
                    \/ CallFails(p)
             PROVE  TypeOK'
  BY DEF DriverNext
<1> USE DEF TypeOK, podVars, cacheVars, workerVars, callVars, SetPhase, Send,
            Phase, Alive, Waiting, Ended, CallStage
<1>1. CASE NewDriverFails(p)
  BY <1>1 DEF NewDriverFails, Disturb
<1>2. CASE ReportRunning(p)
  BY <1>2 DEF ReportRunning
<1>3. CASE Exec(p)
  BY <1>3 DEF Exec, ResultsFound, Disturb, Outcome
<1>4. CASE CallFails(p)
  BY <1>4 DEF CallFails, Return, Abandon, Disturb
<1> QED
  BY <1>1, <1>2, <1>3, <1>4

\* What the cluster does by itself keeps the types.
LEMMA ClusterType == TypeOK /\ ClusterNext => TypeOK'
<1> SUFFICES ASSUME TypeOK, ClusterNext PROVE TypeOK'
  OBVIOUS
<1> USE EmptyTypes DEF podVars, cacheVars, workerVars, callVars
<1>1. CASE SyncJob
  BY <1>1 DEF SyncJob, TypeOK
<1>2. CASE SyncPod
  BY <1>2 DEF SyncPod, TypeOK
<1>3. CASE Resync
  BY <1>3 DEF Resync, TypeOK
<1>4. CASE CreateJob
  <2>1. job.uid + 1 \in Nat /\ job.rv + 1 \in Nat
    BY DEF TypeOK, Job
  <2>2. job' \in Job
    BY <1>4, <2>1 DEF CreateJob, Job
  <2> QED
    BY <1>4, <2>2 DEF CreateJob, TypeOK
<1>5. CASE CancelJob
  <2>1. job.rv + 1 \in Nat
    BY DEF TypeOK, Job
  <2>2. job' \in Job
    BY <1>5, <2>1 DEF CancelJob, TypeOK, Job, Status, JobState
  <2> QED
    BY <1>5, <2>2 DEF CancelJob, Disturb, TypeOK
<1>6. CASE EditJob
  <2>1. job' \in Job
    BY <1>6 DEF EditJob, TypeOK, Job
  <2> QED
    BY <1>6, <2>1 DEF EditJob, Disturb, TypeOK
<1>7. CASE DeleteJob
  <2>1. job.rv + 1 \in Nat
    BY DEF TypeOK, Job
  <2>2. [job EXCEPT !.del = TRUE, !.rv = job.rv + 1] \in Job
    BY <2>1 DEF TypeOK, Job
  <2>3. job' \in Job
    BY <1>7, <2>2, StoredType DEF DeleteJob, TypeOK
  <2> QED
    BY <1>7, <2>3 DEF DeleteJob, Disturb, TypeOK
<1>8. ASSUME NEW p \in Pods,
             \/ StartMain(p)
             \/ FailInit(p)
             \/ KillMain(p)
             \/ RemovePod(p)
      PROVE  TypeOK'
  BY <1>8 DEF StartMain, FailInit, KillMain, RemovePod, SetPhase, Abandon,
              Disturb, TypeOK, Phase, Alive, Waiting, Ended, CallStage
<1>9. ASSUME NEW p \in Pods, EvictPod(p) \/ CollectPod(p)
      PROVE  TypeOK'
  <2>1. dying' = [dying EXCEPT ![p] = TRUE]
    BY <1>9 DEF EvictPod, CollectPod, MarkDying
  <2>2. dying' \in [Pods -> BOOLEAN]
    BY <2>1, Zenon DEF TypeOK
  <2> QED
    BY <1>9, <2>2 DEF EvictPod, CollectPod, MarkDying, Disturb, TypeOK
<1> QED
  BY <1>1, <1>2, <1>3, <1>4, <1>5, <1>6, <1>7, <1>8, <1>9 DEF ClusterNext

\* A restart of the controller keeps the types.
LEMMA RestartType == TypeOK /\ Restart => TypeOK'
BY EmptyTypes DEF Restart, Disturb, TypeOK, podVars, WorkerPC, CallStage, Job

\* The initial state is well typed.
LEMMA InitType == Init => TypeOK
<1> SUFFICES ASSUME Init PROVE TypeOK
  OBVIOUS
<1>1. dying \in [Pods -> BOOLEAN] /\ queued \in BOOLEAN
  BY Zenon DEF Init, ClusterInit
<1>2. copy \in [Pods -> Job]
  BY EmptyTypes, Zenon DEF Init
<1> QED
  BY <1>1, <1>2, EmptyTypes
  DEF Init, ClusterInit, TypeOK, Phase, Outcome, WorkerPC, CallStage

\* Each step of the service keeps the types.
LEMMA NextType == TypeOK /\ Next => TypeOK'
BY WorkerType, ServerType, DriverType, ClusterType, RestartType DEF Next

\* Every variable keeps its type in every behaviour of the service, for any
\* number of pods, incarnations and disturbances.
THEOREM TypeCorrect == Spec => []TypeOK
<1>1. TypeOK /\ UNCHANGED vars => TypeOK'
  BY DEF vars, podVars, cacheVars, workerVars, callVars, TypeOK
<1> QED
  BY <1>1, InitType, NextType, PTL DEF Spec

-----------------------------------------------------------------------------
(* Stale copies, the finalizer and the times. *)

\* What a step may do to the stored job.
JobStep ==
  \/ job' = job
  \/ /\ job.exists
     /\ job'.rv = job.rv + 1
     /\ job'.uid = job.uid
     /\ job'.exists => /\ job.fin => job'.fin
                       /\ job.st.scheduled => job'.st.scheduled
                       /\ job.st.completed => job'.st.completed
  \/ /\ ~job.exists
     /\ job'.rv = job.rv + 1
     /\ job'.uid = job.uid + 1

\* c was computed from d without taking back what IsVersion speaks of.
Derived(c, d) ==
  /\ c.rv = d.rv
  /\ c.uid = d.uid
  /\ c.del = d.del
  /\ d.st.scheduled => c.st.scheduled
  /\ d.st.completed => c.st.completed

\* What a step may do to the controller's copies of the job.
CopyStep ==
  /\ jobCache' = jobCache \/ (jobCache' = job /\ job' = job)
  /\ pc' # "idle" => \/ pc # "idle" /\ Derived(held', held)
                     \/ Derived(held', jobCache)
  /\ \A p \in Pods : stage'[p] \in {"read", "late"} =>
       \/ stage[p] \in {"read", "late"} /\ copy'[p] = copy[p]
       \/ Derived(copy'[p], jobCache)

\* What a step may do to the finalizer's bookkeeping.
FinalizerStep ==
  /\ pc' = "createPod" =>
       \/ pc = "createPod" /\ held' = held
       \/ jobCache.fin /\ held'.uid = jobCache.uid /\ job' = job
  /\ pc' = "addFinalizer" => \/ pc = "addFinalizer" /\ held' = held
                             \/ held'.fin
  /\ pc' \in {"deletePod", "removeFinalizer"} =>
       \/ pc \in {"deletePod", "removeFinalizer"} /\ held' = held
       \/ held'.del

\* What a step may do to the owners of the pods.
OwnerStep ==
  \A p \in Pods :
    \/ owner'[p] = owner[p] /\ (PodExists(p)' => PodExists(p))
    \/ pc = "createPod" /\ job' = job /\ owner'[p] = held.uid

\* A version remains one whatever step is taken.
LEMMA VersionKept ==
  ASSUME TypeOK, TypeOK', JobStep, NEW c \in Job, IsVersion(c, job)
  PROVE  IsVersion(c, job')
<1>1. /\ job.rv \in Nat /\ job'.rv \in Nat /\ c.rv \in Nat
      /\ job.uid \in Nat /\ job'.uid \in Nat /\ c.uid \in Nat
  BY DEF TypeOK, Job
<1> QED
  BY <1>1 DEF JobStep, IsVersion

\* What is derived from a version is a version.
LEMMA VersionDerived ==
  ASSUME NEW c, NEW d, NEW j, IsVersion(d, j), Derived(c, d)
  PROVE  IsVersion(c, j)
BY DEF IsVersion, Derived

\* The kinds of step keep the invariant.
LEMMA VersionInvStep ==
  ASSUME VersionInv, TypeOK', JobStep, CopyStep, FinalizerStep, OwnerStep,
         CallsHaveCallers'
  PROVE  VersionInv'
<1>1. /\ job.rv \in Nat /\ job'.rv \in Nat
      /\ job.uid \in Nat /\ job'.uid \in Nat
      /\ held.uid \in Nat /\ jobCache.uid \in Nat
      /\ \A p \in Pods : owner[p] \in Nat /\ owner'[p] \in Nat
  BY DEF VersionInv, TypeOK, Job
<1>2. IsVersion(jobCache, job')
  BY VersionKept DEF VersionInv, TypeOK, CopiesAreVersions
<1>3. CopiesAreVersions'
  <2>1. IsVersion(jobCache', job')
    <3>1. CASE jobCache' = jobCache
      BY <1>2, <3>1
    <3>2. CASE jobCache' = job /\ job' = job
      BY <1>1, <3>2 DEF IsVersion
    <3> QED
      BY <3>1, <3>2 DEF CopyStep
  <2>2. pc' # "idle" => IsVersion(held', job')
    <3>1. pc # "idle" => IsVersion(held, job')
      BY VersionKept DEF VersionInv, TypeOK, CopiesAreVersions
    <3> QED
      BY <1>2, <3>1, VersionDerived DEF CopyStep
  <2>3. ASSUME NEW p \in Pods, stage'[p] \in {"read", "late"}
        PROVE  IsVersion(copy'[p], job')
    <3>1. CASE stage[p] \in {"read", "late"} /\ copy'[p] = copy[p]
      <4>1. copy[p] \in Job /\ IsVersion(copy[p], job)
        BY <3>1 DEF VersionInv, TypeOK, CopiesAreVersions
      <4> QED
        BY <3>1, <4>1, VersionKept DEF VersionInv
    <3>2. CASE Derived(copy'[p], jobCache)
      BY <1>2, <3>2, VersionDerived
    <3> QED
      BY <2>3, <3>1, <3>2 DEF CopyStep
  <2> QED
    BY <2>1, <2>2, <2>3 DEF CopiesAreVersions
<1>4. FinalizerStays'
  <2>1. jobCache.uid <= job.uid /\ (pc # "idle" => held.uid <= job.uid)
    BY DEF VersionInv, CopiesAreVersions, IsVersion
  <2>2. (jobCache'.fin /\ jobCache'.uid = job'.uid /\ job'.exists) => job'.fin
    BY <1>1, <2>1 DEF VersionInv, FinalizerStays, JobStep, CopyStep
  <2>3. (pc' = "createPod" /\ held'.uid = job'.uid /\ job'.exists) => job'.fin
    BY <1>1, <2>1 DEF VersionInv, FinalizerStays, JobStep, FinalizerStep
  <2> QED
    BY <2>2, <2>3 DEF FinalizerStays
<1>5. FinalizerUse'
  BY DEF VersionInv, FinalizerUse, FinalizerStep
<1>6. OwnersAreKnown'
  <2>1. pc # "idle" => held.uid <= job.uid
    BY DEF VersionInv, CopiesAreVersions, IsVersion
  <2>2. job.uid <= job'.uid
    BY <1>1 DEF JobStep
  <2> QED
    BY <1>1, <2>1, <2>2 DEF VersionInv, OwnersAreKnown, OwnerStep
<1>7. FinalizerGuardsPod'
  <2> SUFFICES ASSUME job'.exists, ~job'.fin, NEW p \in Pods,
                      PodExists(p)', owner'[p] = job'.uid
               PROVE  FALSE
    BY DEF FinalizerGuardsPod, OwnedPods
  <2>1. CASE owner'[p] = owner[p] /\ PodExists(p)
    <3>1. owner[p] <= job.uid
      BY DEF VersionInv, OwnersAreKnown
    <3>2. job'.uid # job.uid + 1
      BY <1>1, <2>1, <3>1
    <3>3. job.exists /\ ~job.fin /\ owner[p] = job.uid
      BY <2>1, <3>2, Zenon DEF JobStep
    <3>4. p \in OwnedPods
      BY <2>1, <3>3 DEF OwnedPods
    <3> QED
      BY <3>3, <3>4 DEF VersionInv, FinalizerGuardsPod
  <2>2. CASE pc = "createPod" /\ job' = job /\ owner'[p] = held.uid
    BY <2>2 DEF VersionInv, FinalizerStays
  <2> QED
    BY <2>1, <2>2 DEF OwnerStep
<1> QED
  BY <1>3, <1>4, <1>5, <1>6, <1>7 DEF VersionInv

\* An accepted status update of a version is a step of the stored job.
LEMMA StatusUpdateStep ==
  ASSUME VersionInv, NEW c \in Job, IsVersion(c, job), NEW ok \in BOOLEAN,
         StatusUpdate(c, ok)
  PROVE  JobStep
<1>1. job \in Job
  BY DEF VersionInv, TypeOK
<1>2. CASE job' = job
  BY <1>2 DEF JobStep
<1>3. CASE job' # job
  <2>1. /\ job.exists /\ job.rv = c.rv
        /\ job' = [[job EXCEPT !.st = c.st] EXCEPT !.rv = job.rv + 1]
    BY <1>3 DEF StatusUpdate, Write, Accepts, Stored
  <2>2. /\ job'.rv = job.rv + 1 /\ job'.uid = job.uid
        /\ job'.fin = job.fin /\ job'.st = c.st
    BY <1>1, <2>1 DEF Job
  <2>3. /\ job.st.scheduled => c.st.scheduled
        /\ job.st.completed => c.st.completed
    BY <2>1 DEF IsVersion
  <2> QED
    BY <2>1, <2>2, <2>3 DEF JobStep
<1> QED
  BY <1>2, <1>3

\* So is an accepted update of the object that adds the finalizer or removes it
\* from a job that is being deleted.
LEMMA ObjectUpdateStep ==
  ASSUME VersionInv, IsVersion(held, job), held.fin \/ held.del,
         NEW ok \in BOOLEAN, ObjectUpdate(held, ok)
  PROVE  JobStep
<1>1. job \in Job /\ held \in Job
  BY DEF VersionInv, TypeOK
<1>2. CASE job' = job
  BY <1>2 DEF JobStep
<1>3. CASE job' # job
  <2>1. job.exists /\ job.rv = held.rv
    BY <1>3 DEF ObjectUpdate, Write, Accepts
  <2>2. CASE job.del /\ ~held.fin
    <3>1. job' = [NoJob EXCEPT !.uid = job.uid, !.rv = job.rv + 1]
      BY <1>3, <2>2 DEF ObjectUpdate, Write, Removed
    <3>2. job'.uid = job.uid /\ job'.rv = job.rv + 1 /\ ~job'.exists
      BY <3>1 DEF NoJob
    <3> QED
      BY <2>1, <3>2 DEF JobStep
  <2>3. CASE ~(job.del /\ ~held.fin)
    <3>1. held.fin
      BY <2>1, <2>3 DEF IsVersion
    <3>2. job' = [[job EXCEPT !.fin = held.fin] EXCEPT !.rv = job.rv + 1]
      BY <1>3, <2>3 DEF ObjectUpdate, Write, Stored
    <3>3. /\ job'.rv = job.rv + 1 /\ job'.uid = job.uid
          /\ job'.fin = held.fin /\ job'.st = job.st
      BY <1>1, <3>2 DEF Job
    <3> QED
      BY <2>1, <3>1, <3>3 DEF JobStep
  <2> QED
    BY <2>2, <2>3
<1> QED
  BY <1>2, <1>3

\* All that a step may do.
Steps ==
  JobStep /\ CopyStep /\ FinalizerStep /\ OwnerStep /\ CallsHaveCallers'

\* A handler starts from the cache.
LEMMA StartSteps ==
  ASSUME VersionInv, NEW next, NEW h, NEW again, Start(next, h, again),
         Derived(h, jobCache),
         next = "createPod" => jobCache.fin,
         next = "addFinalizer" => h.fin,
         next \in {"deletePod", "removeFinalizer"} => h.del
  PROVE  Steps
<1> USE DEF Start, podVars, cacheVars, callVars
<1>1. JobStep
  BY DEF JobStep
<1>2. CopyStep
  BY DEF CopyStep
<1>3. FinalizerStep
  BY DEF FinalizerStep, Derived
<1>4. OwnerStep
  BY DEF OwnerStep, PodExists
<1>5. CallsHaveCallers'
  BY DEF VersionInv, CallsHaveCallers
<1> QED
  BY <1>1, <1>2, <1>3, <1>4, <1>5 DEF Steps

\* The handlers of the worker take such steps.
LEMMA HandlerSteps ==
  ASSUME VersionInv,
         \/ ReconcileMissing
         \/ HandleDeletion
         \/ HandleNewCR
         \/ CheckScheduledPod
         \/ HandleComplete
         \/ HandleCancel
  PROVE  Steps
<1>1. jobCache \in Job /\ Fetched \in Job /\ Derived(Fetched, jobCache)
        /\ Fetched.fin = jobCache.fin
  BY FetchedType DEF VersionInv, TypeOK, Fetched, Derived, Job, Status
<1>2. CASE ReconcileMissing
  <2>1. Start("idle", jobCache, FALSE)
    BY <1>2 DEF ReconcileMissing, Start
  <2> QED
    BY <2>1, StartSteps DEF Derived
<1>3. CASE HandleDeletion
  <2>1. /\ Derived([jobCache EXCEPT !.fin = FALSE], jobCache)
        /\ [jobCache EXCEPT !.fin = FALSE].del
    BY <1>1, <1>3 DEF HandleDeletion, Derived, Job
  <2> QED
    BY <1>3, <2>1, StartSteps DEF HandleDeletion
<1>4. CASE HandleNewCR
  <2>1. /\ Derived([Fetched EXCEPT !.fin = TRUE], jobCache)
        /\ [Fetched EXCEPT !.fin = TRUE].fin
    BY <1>1 DEF Derived, Job
  <2> QED
    BY <1>1, <1>4, <2>1, StartSteps DEF HandleNewCR
<1>5. CASE CheckScheduledPod
  <2>1. \A m : Derived([Fetched EXCEPT !.st = Failed(@, m)], jobCache)
    BY <1>1 DEF Derived, Job, Status, Failed
  <2>2. Derived([Fetched EXCEPT !.st.state = "Complete",
                                !.st.reason = "Succeeded"], jobCache)
    BY <1>1 DEF Derived, Job, Status
  <2>3. Derived(jobCache, jobCache)
    BY DEF Derived
  <2>4. ASSUME Start("idle", NoJob, TRUE)
        PROVE  Start("idle", jobCache, TRUE)
    BY <2>4 DEF Start
  <2> QED
    BY <1>5, <2>1, <2>2, <2>3, <2>4, StartSteps
    DEF CheckScheduledPod, CheckLater
<1>6. CASE HandleComplete
  <2>1. Derived([Fetched EXCEPT !.st.completed = TRUE], jobCache)
    BY <1>1 DEF Derived, Job, Status
  <2> QED
    BY <1>6, <2>1, StartSteps DEF HandleComplete
<1>7. CASE HandleCancel
  <2>1. \A m : Derived([Fetched EXCEPT !.st = Failed(@, m)], jobCache)
    BY <1>1 DEF Derived, Job, Status, Failed
  <2>2. Derived([Fetched EXCEPT !.st.state = "Complete",
                                !.st.reason = "Cancelled"], jobCache)
    BY <1>1 DEF Derived, Job, Status
  <2> QED
    BY <1>7, <2>1, <2>2, StartSteps DEF HandleCancel
<1> QED
  BY <1>2, <1>3, <1>4, <1>5, <1>6, <1>7

\* The calls of the worker take such steps.
LEMMA CallSteps ==
  ASSUME VersionInv, WorkerNext, pc # "idle"
  PROVE  Steps
<1>1. IsVersion(held, job) /\ held \in Job
  BY DEF VersionInv, CopiesAreVersions, TypeOK
<1>2. ASSUME NEW at, NEW again, UpdateStatus(at, again)
      PROVE  Steps
  <2>1. JobStep
    BY <1>1, <1>2, StatusUpdateStep DEF UpdateStatus
  <2>2. /\ pc' = "idle"
        /\ UNCHANGED <<jobCache, stage, copy, phase, owner>>
    BY <1>2 DEF UpdateStatus, Finish, podVars, cacheVars, callVars
  <2> QED
    BY <2>1, <2>2 DEF Steps, CopyStep, FinalizerStep, OwnerStep, PodExists,
                      VersionInv, CallsHaveCallers
<1>3. ASSUME NEW at \in {"addFinalizer", "removeFinalizer"}, NEW again,
             UpdateObject(at, again)
      PROVE  Steps
  <2>1. held.fin \/ held.del
    BY <1>3 DEF UpdateObject, VersionInv, FinalizerUse
  <2>2. JobStep
    BY <1>1, <1>3, <2>1, ObjectUpdateStep DEF UpdateObject
  <2>3. /\ pc' = "idle"
        /\ UNCHANGED <<jobCache, stage, copy, phase, owner>>
    BY <1>3 DEF UpdateObject, Finish, podVars, cacheVars, callVars
  <2> QED
    BY <2>2, <2>3 DEF Steps, CopyStep, FinalizerStep, OwnerStep, PodExists,
                      VersionInv, CallsHaveCallers
<1>4. CASE CreatePod
  <2>1. /\ pc' \in {"statusScheduled", "statusCreateFailed"}
        /\ UNCHANGED <<job, jobCache, stage, copy>>
    BY <1>4 DEF CreatePod, Proceed, cacheVars, callVars
  <2>2. Derived(held', held)
    <3>1. Derived([held EXCEPT !.st.state = "Scheduled", !.st.podName = TRUE,
                               !.st.scheduled = TRUE], held)
      BY <1>1 DEF Derived, Job, Status
    <3>2. Derived([held EXCEPT !.st = Failed(@, "createError")], held)
      BY <1>1 DEF Derived, Failed, Job, Status
    <3> QED
      BY <1>4, <3>1, <3>2 DEF CreatePod, Proceed
  <2>3. \/ \E q \in Pods : phase[q] = "none" /\ NewPod(q, held.uid)
        \/ UNCHANGED <<phase, owner>>
    BY <1>4 DEF CreatePod, PodCreate, podVars
  <2>4. CallsHaveCallers'
    BY <2>1, <2>3 DEF NewPod, VersionInv, TypeOK, CallsHaveCallers, Waiting
  <2>5. OwnerStep
    <3> SUFFICES ASSUME NEW p \in Pods, owner'[p] # held.uid
                 PROVE  owner'[p] = owner[p] /\ (PodExists(p)' => PodExists(p))
      BY <1>4, <2>1 DEF OwnerStep, CreatePod
    <3>1. CASE UNCHANGED <<phase, owner>>
      BY <3>1 DEF PodExists
    <3>2. ASSUME NEW q \in Pods, NewPod(q, held.uid)
          PROVE  owner'[p] = owner[p] /\ (PodExists(p)' => PodExists(p))
      BY <3>2 DEF NewPod, PodExists, VersionInv, TypeOK
    <3> QED
      BY <2>3, <3>1, <3>2
  <2> QED
    BY <2>1, <2>2, <2>4, <2>5 DEF Steps, JobStep, CopyStep, FinalizerStep
<1>5. CASE DeletePod \/ CancelPod
  <2>1. UNCHANGED <<job, jobCache, stage, copy, phase, owner>>
    BY <1>5 DEF DeletePod, CancelPod, PodDelete, MarkDying, podVars, cacheVars,
                callVars
  <2>2. \/ pc' = "idle"
        \/ /\ held' = held
           /\ \/ pc = "deletePod" /\ pc' = "removeFinalizer"
              \/ pc' = "statusCancelled"
    BY <1>5 DEF DeletePod, CancelPod, Proceed, Finish
  <2>3. CopyStep
    BY <2>1, <2>2 DEF CopyStep, Derived
  <2>4. FinalizerStep
    BY <2>2 DEF FinalizerStep
  <2> QED
    BY <2>1, <2>3, <2>4 DEF Steps, JobStep, OwnerStep, PodExists, VersionInv,
                            CallsHaveCallers
<1>6. ~ \E next, h, again : Start(next, h, again)
  BY DEF Start
<1> QED
  BY <1>2, <1>3, <1>4, <1>5, <1>6
  DEF WorkerNext, AddFinalizer, RemoveFinalizer, UpdateCreateFailed,
      UpdateScheduled, UpdatePodGone, UpdateFinished, UpdateCompleted,
      UpdateCancelled, ReconcileMissing, HandleDeletion, HandleNewCR,
      CheckScheduledPod, CheckLater, HandleComplete, HandleCancel

\* The worker, whatever it does, takes such steps.
LEMMA WorkerSteps == VersionInv /\ WorkerNext => Steps
<1> SUFFICES ASSUME VersionInv, WorkerNext, pc = "idle" PROVE Steps
  BY CallSteps
<1> QED
  BY HandlerSteps
  DEF WorkerNext, AddFinalizer, RemoveFinalizer, UpdateCreateFailed,
      UpdateScheduled, UpdatePodGone, UpdateFinished, UpdateCompleted,
      UpdateCancelled, CreatePod, DeletePod, CancelPod, UpdateObject, UpdateStatus

\* A step that leaves the worker, the caches and the owners alone, creates no
\* pod and at most abandons calls.
LEMMA OutsideSteps ==
  ASSUME JobStep, UNCHANGED <<jobCache, pc, held, owner, copy>>,
         \A p \in Pods : PodExists(p)' => PodExists(p),
         \A p \in Pods : stage'[p] \in {"read", "late"}
                            => stage[p] \in {"read", "late"},
         CallsHaveCallers'
  PROVE  Steps
BY DEF Steps, CopyStep, Derived, FinalizerStep, OwnerStep

\* The status server takes such steps.
LEMMA ServerSteps == VersionInv /\ ServerNext => Steps
<1> SUFFICES ASSUME VersionInv, NEW p \in Pods,
                    \/ GetForUpdate(p)
                    \/ PutStatus(p)
                    \/ PutLate(p)
                    \/ DropLate(p)
             PROVE  Steps
  BY DEF ServerNext
<1>1. /\ jobCache \in Job /\ stage \in [Pods -> CallStage]
      /\ copy \in [Pods -> Job] /\ phase \in [Pods -> Phase]
  BY DEF VersionInv, TypeOK
<1>2. UNCHANGED <<jobCache, pc, held>>
  BY DEF GetForUpdate, PutStatus, PutLate, DropLate, cacheVars, workerVars
<1>3. /\ UNCHANGED owner
      /\ \A q \in Pods : PodExists(q)' => PodExists(q)
      /\ CallsHaveCallers'
  <2>1. CASE GetForUpdate(p)
    BY <1>1, <2>1 DEF GetForUpdate, podVars, Return, SetPhase, PodExists, Waiting,
                      VersionInv, CallsHaveCallers
  <2>2. CASE PutStatus(p)
    BY <1>1, <2>2 DEF PutStatus, EndCall, Return, SetPhase, PodExists, Waiting,
                      VersionInv, CallsHaveCallers
  <2>3. CASE PutLate(p) \/ DropLate(p)
    BY <1>1, <2>3 DEF PutLate, DropLate, EndCall, podVars, PodExists,
                      VersionInv, CallsHaveCallers
  <2> QED
    BY <2>1, <2>2, <2>3
<1>4. JobStep
  <2>1. CASE PutStatus(p) \/ PutLate(p)
    <3>1. copy[p] \in Job /\ IsVersion(copy[p], job)
      BY <1>1, <2>1 DEF PutStatus, PutLate, VersionInv, CopiesAreVersions
    <3> QED
      BY <2>1, <3>1, StatusUpdateStep DEF PutStatus, PutLate
  <2>2. CASE GetForUpdate(p) \/ DropLate(p)
    BY <2>2 DEF GetForUpdate, DropLate, JobStep
  <2> QED
    BY <2>1, <2>2
<1>5. CASE GetForUpdate(p)
  <2>1. Derived([jobCache EXCEPT !.st = Merged(p, jobCache.st)], jobCache)
    BY <1>1 DEF Derived, Merged, Job, Status
  <2>2. ASSUME NEW q \in Pods, stage'[q] \in {"read", "late"}
        PROVE  \/ stage[q] \in {"read", "late"} /\ copy'[q] = copy[q]
               \/ Derived(copy'[q], jobCache)
    BY <1>1, <1>5, <2>1, <2>2 DEF GetForUpdate
  <2>3. CopyStep
    BY <1>2, <2>2 DEF CopyStep, Derived
  <2> QED
    BY <1>2, <1>3, <1>4, <2>3 DEF Steps, FinalizerStep, OwnerStep
<1>6. CASE PutStatus(p) \/ PutLate(p) \/ DropLate(p)
  <2>1. EndCall(p)
    BY <1>6 DEF PutStatus, PutLate, DropLate
  <2>2. ASSUME NEW q \in Pods, stage'[q] \in {"read", "late"}
        PROVE  stage[q] \in {"read", "late"} /\ copy'[q] = copy[q]
    BY <1>1, <2>1, <2>2 DEF EndCall
  <2>3. CopyStep
    BY <1>2, <2>2 DEF CopyStep, Derived
  <2> QED
    BY <1>2, <1>3, <1>4, <2>3 DEF Steps, FinalizerStep, OwnerStep
<1> QED
  BY <1>5, <1>6

\* The drivers and the kubelet take such steps.
LEMMA PodSteps ==
  ASSUME VersionInv, NEW p \in Pods,
         \/ NewDriverFails(p)
         \/ ReportRunning(p)
         \/ Exec(p)
         \/ CallFails(p)
         \/ StartMain(p)
         \/ FailInit(p)
         \/ KillMain(p)
         \/ RemovePod(p)
         \/ EvictPod(p)
         \/ CollectPod(p)
  PROVE  Steps
<1> USE DEF podVars, cacheVars, workerVars, callVars
<1>1. stage \in [Pods -> CallStage] /\ phase \in [Pods -> Phase]
  BY DEF VersionInv, TypeOK
<1>2. UNCHANGED <<job, jobCache, pc, held, owner, copy>>
  BY DEF NewDriverFails, ReportRunning, Exec, CallFails, StartMain, FailInit,
         KillMain, RemovePod, EvictPod, CollectPod, SetPhase, Send, Return,
         Abandon, MarkDying
<1>3. JobStep
  BY <1>2 DEF JobStep
<1>4. CASE NewDriverFails(p) \/ StartMain(p) \/ FailInit(p) \/ RemovePod(p)
  <2>1. UNCHANGED stage
    BY <1>4 DEF NewDriverFails, StartMain, FailInit, RemovePod
  <2>2. /\ \A q \in Pods : PodExists(q)' => PodExists(q)
        /\ CallsHaveCallers'
    BY <1>1, <1>4, <2>1
    DEF NewDriverFails, StartMain, FailInit, RemovePod, SetPhase, PodExists,
        VersionInv, CallsHaveCallers, Waiting, Ended
  <2> QED
    BY <1>2, <1>3, <2>1, <2>2, OutsideSteps
<1>5. CASE ReportRunning(p) \/ Exec(p)
  <2>1. /\ \A q \in Pods : PodExists(q)' => PodExists(q)
        /\ \A q \in Pods : stage'[q] \in {"read", "late"}
                               => stage[q] \in {"read", "late"}
        /\ CallsHaveCallers'
    BY <1>1, <1>5 DEF ReportRunning, Exec, SetPhase, Send, PodExists,
                      VersionInv, CallsHaveCallers, Waiting
  <2> QED
    BY <1>2, <1>3, <2>1, OutsideSteps
<1>6. CASE CallFails(p) \/ KillMain(p)
  <2>1. /\ \A q \in Pods : PodExists(q)' => PodExists(q)
        /\ \A q \in Pods : stage'[q] \in {"read", "late"}
                               => stage[q] \in {"read", "late"}
        /\ CallsHaveCallers'
    BY <1>1, <1>6 DEF CallFails, KillMain, Return, SetPhase, Abandon, PodExists,
                      VersionInv, CallsHaveCallers, Waiting, Alive
  <2> QED
    BY <1>2, <1>3, <2>1, OutsideSteps
<1>7. CASE EvictPod(p) \/ CollectPod(p)
  <2>1. UNCHANGED <<stage, phase>>
    BY <1>7 DEF EvictPod, CollectPod, MarkDying
  <2>2. CallsHaveCallers'
    BY <2>1 DEF VersionInv, CallsHaveCallers
  <2> QED
    BY <1>2, <1>3, <2>1, <2>2, OutsideSteps DEF PodExists
<1> QED
  BY <1>4, <1>5, <1>6, <1>7

\* The users take such steps.
LEMMA UserSteps ==
  ASSUME VersionInv, CreateJob \/ CancelJob \/ EditJob \/ DeleteJob
  PROVE  Steps
<1>1. job \in Job
  BY DEF VersionInv, TypeOK
<1>2. UNCHANGED <<jobCache, pc, held, owner, phase, stage, copy>>
  BY DEF CreateJob, CancelJob, EditJob, DeleteJob, podVars, cacheVars,
         workerVars, callVars
<1>3. JobStep
  <2>1. CASE CreateJob
    <3>1. job'.uid = job.uid + 1 /\ job'.rv = job.rv + 1
      BY <2>1 DEF CreateJob, NoJob
    <3> QED
      BY <2>1, <3>1 DEF CreateJob, JobStep
  <2>2. CASE CancelJob
    BY <1>1, <2>2 DEF CancelJob, JobStep, Job, Status
  <2>3. CASE EditJob
    BY <1>1, <2>3 DEF EditJob, JobStep, Job
  <2>4. CASE DeleteJob
    <3>1. Removed.uid = job.uid /\ Removed.rv = job.rv + 1 /\ ~Removed.exists
      BY DEF Removed, NoJob
    <3>2. CASE job' = Removed
      BY <2>4, <3>1, <3>2 DEF DeleteJob, JobStep
    <3>3. CASE job' = [job EXCEPT !.del = TRUE, !.rv = job.rv + 1]
      BY <1>1, <2>4, <3>3 DEF DeleteJob, JobStep, Job
    <3> QED
      BY <2>4, <3>2, <3>3 DEF DeleteJob
  <2> QED
    BY <2>1, <2>2, <2>3, <2>4
<1>4. CallsHaveCallers'
  BY <1>2 DEF VersionInv, CallsHaveCallers
<1> QED
  BY <1>2, <1>3, <1>4, OutsideSteps DEF PodExists

\* The informers and a restart of the controller take such steps.
LEMMA CacheSteps ==
  ASSUME VersionInv, SyncJob \/ SyncPod \/ Resync \/ Restart
  PROVE  Steps
<1> USE DEF podVars, cacheVars, callVars
<1>1. UNCHANGED <<job, owner, phase>>
  BY DEF SyncJob, SyncPod, Resync, Restart
<1>2. CASE SyncJob \/ SyncPod \/ Resync
  <2>1. /\ jobCache' = jobCache \/ jobCache' = job
        /\ UNCHANGED <<pc, held, stage, copy>>
    BY <1>2 DEF SyncJob, SyncPod, Resync
  <2> QED
    BY <1>1, <2>1 DEF Steps, JobStep, CopyStep, Derived, FinalizerStep, OwnerStep,
                      PodExists, VersionInv, CallsHaveCallers
<1>3. CASE Restart
  <2>1. /\ jobCache' = job
        /\ pc' = "idle"
        /\ \A p \in Pods : \/ stage'[p] = "none"
                           \/ /\ stage'[p] = "late" /\ WriteSent(p)
                              /\ copy'[p] = copy[p]
    BY <1>3 DEF Restart
  <2> QED
    BY <1>1, <2>1 DEF Steps, JobStep, CopyStep, FinalizerStep, OwnerStep,
                      PodExists, CallsHaveCallers
<1> QED
  BY <1>2, <1>3

\* Every step of the service is such a step.
LEMMA NextSteps == VersionInv /\ Next => Steps
<1> SUFFICES ASSUME VersionInv, Next PROVE Steps
  OBVIOUS
<1>1. CASE WorkerNext
  BY <1>1, WorkerSteps
<1>2. CASE ServerNext
  BY <1>2, ServerSteps
<1>3. CASE DriverNext
  BY <1>3, PodSteps DEF DriverNext
<1>4. CASE ClusterNext
  BY <1>4, PodSteps, UserSteps, CacheSteps DEF ClusterNext
<1>5. CASE Restart
  BY <1>5, CacheSteps
<1> QED
  BY <1>1, <1>2, <1>3, <1>4, <1>5 DEF Next

\* The invariant holds at the start.
LEMMA InitVersions == Init => VersionInv
BY InitType DEF Init, ClusterInit, NoJob, VersionInv, CopiesAreVersions,
   IsVersion, FinalizerStays, FinalizerUse, CallsHaveCallers, OwnersAreKnown,
   FinalizerGuardsPod

\* Every step, also one of something else, keeps the invariant.
LEMMA NextVersions == VersionInv /\ [Next]_vars => VersionInv'
<1>1. VersionInv /\ Next => VersionInv'
  BY NextSteps, NextType, VersionInvStep DEF Steps, VersionInv
<1>2. VersionInv /\ UNCHANGED vars => VersionInv'
  BY DEF vars, podVars, cacheVars, workerVars, callVars, VersionInv, TypeOK,
     CopiesAreVersions, IsVersion, FinalizerStays, FinalizerUse,
     CallsHaveCallers, OwnersAreKnown, FinalizerGuardsPod, OwnedPods, PodExists
<1> QED
  BY <1>1, <1>2

\* The copies of the job that the controller works on, the finalizer and the
\* owners of the pods fit together in every behaviour, whatever is stale.
THEOREM VersionsHold == Spec => []VersionInv
BY InitVersions, NextVersions, PTL DEF Spec

\* In every behaviour a job that has a pod has the finalizer: however stale the
\* copy is that the worker creates the pod from, the job cannot be deleted
\* behind the controller's back while the pod is there.
THEOREM FinalizerGuards == Spec => []FinalizerGuardsPod
<1>1. VersionInv => FinalizerGuardsPod
  BY DEF VersionInv
<1> QED
  BY <1>1, VersionsHold, PTL

\* No behaviour takes back the schedule time or the completion time of a job:
\* the version check of the API server refuses every write of a copy that has
\* not seen them.
THEOREM TimesStay == Spec => TimesAreFinal
<1>1. VersionInv /\ [Next]_vars =>
        [SameJob => /\ job.st.scheduled => job'.st.scheduled
                    /\ job.st.completed => job'.st.completed]_vars
  <2>1. ASSUME VersionInv, Next, SameJob
        PROVE  /\ job.st.scheduled => job'.st.scheduled
               /\ job.st.completed => job'.st.completed
    <3>1. JobStep
      BY <2>1, NextSteps DEF Steps
    <3> QED
      BY <2>1, <3>1 DEF JobStep, SameJob
  <2> QED
    BY <2>1
<1> QED
  BY <1>1, VersionsHold, PTL DEF Spec, TimesAreFinal
=============================================================================
