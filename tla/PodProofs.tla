----------------------------- MODULE PodProofs ------------------------------
(***************************************************************************)
(* What becomes of the pods: the worker, which knows them and the job from *)
(* caches only, starts the evaluation of a job once, a cancellation that   *)
(* is reported as complete has stopped the pod, and a completion that a    *)
(* driver was told of is not taken back.                                   *)
(***************************************************************************)
EXTENDS LifecycleProofs

USE DEF WriteSent

-----------------------------------------------------------------------------
(* The worker and the pods, whatever disturbs them. *)

\* The calls that follow up a deletion, and those that follow up a cancellation.
DeletionCalls == {"deletePod", "removeFinalizer"}

CancelCalls == {"cancelPod", "statusCancelled"}

\* What the copy c says of the job is not taken back in j, if it is the same job.
Outlives(c, j) ==
  (j.exists /\ j.uid = c.uid) => /\ c.del => j.del
                                 /\ c.st.scheduled => j.st.scheduled

\* The worker's copy is not newer than the cache.
WorkerBehindCache ==
  pc # "idle" => held.rv <= jobCache.rv /\ held.uid <= jobCache.uid

\* The deletion and the schedule time that the controller has seen are there.
SeenStays ==
  /\ Outlives(jobCache, job)
  /\ pc \in DeletionCalls \cup CancelCalls
       => Outlives(held, job) /\ Outlives(held, jobCache)
  /\ pc \in CancelCalls => held.st.scheduled

\* A job that the cache shows with the finalizer and without a deletion cannot
\* have gone, since only the worker removes the finalizer.
JobStillThere ==
  /\ (jobCache.exists /\ jobCache.fin /\ ~jobCache.del)
       => job.exists /\ job.uid = jobCache.uid
  /\ pc = "createPod" => job.exists /\ job.uid = held.uid

\* Pods are of jobs that the worker has seen.
OwnersSeen ==
  \A p \in Pods : /\ owner[p] <= jobCache.uid
                  /\ pc # "idle" => owner[p] <= held.uid

\* Of all the pods of the name there is one at a time.
OnePod == \A p, q \in Pods : PodExists(p) /\ PodExists(q) => p = q

\* A pod goes only after its deletion.
GoneWasDying ==
  \A p \in Pods : /\ phase[p] = "none" => ~dying[p]
                  /\ phase[p] = "gone" => dying[p]

\* The worker's view of the job and of the pods, however stale, is a past one.
WorkerInv ==
  /\ LifecycleInv
  /\ WorkerBehindCache
  /\ SeenStays
  /\ JobStillThere
  /\ OwnersSeen
  /\ OnePod
  /\ GoneWasDying

-----------------------------------------------------------------------------
(* What a step may do. *)

\* To the call that the worker is about to make.
CallStep ==
  /\ pc' = "createPod" =>
       \/ pc = "createPod" /\ held' = held
       \/ /\ UNCHANGED <<job, jobCache, phase, owner, dying>>
          /\ jobCache.exists /\ jobCache.fin /\ ~jobCache.del
          /\ ~jobCache.st.scheduled
          /\ held'.uid = jobCache.uid
  /\ pc' \in DeletionCalls \cup CancelCalls =>
       \/ /\ pc \in DeletionCalls \cup CancelCalls /\ held' = held
          /\ pc' \in CancelCalls => pc \in CancelCalls
       \/ /\ UNCHANGED <<job, jobCache>>
          /\ held'.uid = jobCache.uid
          /\ held'.del = jobCache.del
          /\ held'.st.scheduled = jobCache.st.scheduled
          /\ pc' \in CancelCalls => jobCache.st.scheduled

\* To the existence of the job, and to its deletion.
GoStep ==
  /\ (job.exists /\ ~job'.exists) =>
       \/ ~job.fin
       \/ pc = "removeFinalizer" /\ held.rv = job.rv /\ job.del
            /\ jobCache' = jobCache
  /\ (job.exists /\ job'.exists /\ job.del) => job'.del

\* Pod p is created.
Born(p) == phase[p] = "none" /\ phase'[p] # "none"

\* Pod p is deleted.
Doomed(p) == ~dying[p] /\ dying'[p]

\* To pod p.
PodStep(p) ==
  /\ dying[p] => dying'[p]
  /\ phase'[p] = "none" => phase[p] = "none"
  /\ phase'[p] = "gone" => phase[p] = "gone" \/ dying[p]
  /\ PodExists(p)' => PodExists(p) \/ Born(p)
  /\ ~Born(p) => owner'[p] = owner[p]
  /\ Born(p) => /\ pc = "createPod" /\ pc' # "createPod"
                /\ owner'[p] = held.uid
                /\ UNCHANGED <<job, jobCache, dying>>
                /\ \A q \in Pods : ~PodExists(q)
                /\ \A q \in Pods \ {p} : phase'[q] = phase[q]
  /\ Doomed(p) => /\ PodExists(p)
                  /\ UNCHANGED <<job, jobCache, phase, owner>>
                  /\ \/ pc \in {"deletePod", "cancelPod"}
                          /\ pc' # "createPod"
                     \/ /\ ~job.exists \/ job.uid # owner[p]
                        /\ UNCHANGED <<pc, held>>
                     \/ "evict" \in Kinds

IsCancelled(s) == s.state = "Complete" /\ s.reason = "Cancelled"

\* To the answer to a cancellation.
CancelStep ==
  /\ (job'.exists /\ IsCancelled(job'.st)) =>
       \/ job.exists /\ IsCancelled(job.st) /\ job'.uid = job.uid
       \/ /\ pc = "statusCancelled" /\ pc' = "idle"
          /\ held.rv = job.rv /\ IsCancelled(held.st)
          /\ job.st.scheduled /\ job'.st.scheduled /\ job'.uid = job.uid
          /\ UNCHANGED <<jobCache, phase, owner, dying>>
  /\ (pc' = "statusCancelled" /\ IsCancelled(held'.st)) =>
       \/ pc = "statusCancelled" /\ held' = held
       \/ /\ UNCHANGED <<phase, owner>>
          /\ \E p \in Pods : PodExists(p) /\ dying'[p]

PodsStep == CallStep /\ GoStep /\ (\A p \in Pods : PodStep(p)) /\ CancelStep

\* A step that leaves the pods alone.
LEMMA PodsAlone ==
  ASSUME UNCHANGED <<phase, owner, dying>>
  PROVE  \A p \in Pods : PodStep(p)
BY DEF PodStep, PodExists, Born, Doomed

\* A step that leaves the job and the worker alone.
LEMMA WorkerAlone ==
  ASSUME UNCHANGED <<job, pc, held>>
  PROVE  CallStep /\ GoStep /\ CancelStep
<1>1. CallStep
  BY DEF CallStep
<1>2. GoStep
  BY DEF GoStep
<1>3. CancelStep
  BY DEF CancelStep
<1> QED
  BY <1>1, <1>2, <1>3

\* The deletion of a pod marks it and no other.
LEMMA MarkedDying ==
  ASSUME TypeOK, NEW p \in Pods, MarkDying(p)
  PROVE  /\ UNCHANGED <<phase, owner>>
         /\ dying'[p]
         /\ \A q \in Pods : dying[q] => dying'[q]
         /\ \A q \in Pods : dying'[q] => dying[q] \/ q = p
<1>1. UNCHANGED <<phase, owner>> /\ dying' = [dying EXCEPT ![p] = TRUE]
  BY DEF MarkDying
<1>2. dying \in [Pods -> BOOLEAN]
  BY DEF TypeOK
<1>3. \A q \in Pods : dying'[q] = (IF q = p THEN TRUE ELSE dying[q])
  BY <1>1, <1>2, Zenon
<1> QED
  BY <1>1, <1>3, Zenon

\* The handlers take such steps.
LEMMA HandlerPods ==
  ASSUME WorkerInv,
         \/ ReconcileMissing
         \/ HandleDeletion
         \/ HandleNewCR
         \/ CheckScheduledPod
         \/ HandleComplete
         \/ HandleCancel
  PROVE  PodsStep
<1>1. LifecycleInv /\ jobCache \in Job /\ jobCache.st \in Status /\ Fetched \in Job
  BY FetchedType DEF WorkerInv, LifecycleInv, VersionInv, TypeOK, Job
<1>2. ASSUME NEW next, NEW h, NEW again, Start(next, h, again),
             next \notin DeletionCalls \cup CancelCalls \cup {"createPod"}
      PROVE  CallStep /\ CancelStep
  BY <1>2 DEF Start, CallStep, CancelStep, CancelCalls
<1>3. UNCHANGED <<job, jobCache, phase, owner, dying>>
  BY DEF ReconcileMissing, HandleDeletion, HandleNewCR, CheckScheduledPod,
         HandleComplete, HandleCancel, CheckLater, Start, podVars, cacheVars
<1>4. CallStep /\ CancelStep
  <2> USE DEF DeletionCalls, CancelCalls
  <2>1. CASE ReconcileMissing
    BY <1>2, <2>1 DEF ReconcileMissing
  <2>2. CASE HandleDeletion
    <3> DEFINE h == [jobCache EXCEPT !.fin = FALSE]
    <3>1. h.uid = jobCache.uid /\ h.del = jobCache.del /\ h.st = jobCache.st
      BY <1>1 DEF Job
    <3>2. pc' # "idle" => held' = h /\ pc' \in DeletionCalls
      BY <2>2 DEF HandleDeletion, Start
    <3> HIDE DEF h
    <3>3. CallStep
      BY <1>3, <3>1, <3>2 DEF CallStep
    <3>4. CancelStep
      BY <1>3, <3>2 DEF CancelStep
    <3> QED
      BY <3>3, <3>4
  <2>3. CASE HandleNewCR
    <3> DEFINE h == [Fetched EXCEPT !.fin = TRUE]
    <3>1. h.uid = Fetched.uid /\ Fetched.uid = jobCache.uid
      BY <1>1 DEF Fetched, Job
    <3>2. /\ held' = h
          /\ pc' = IF Fetched.fin THEN "createPod" ELSE "addFinalizer"
          /\ jobCache.exists /\ ~jobCache.del /\ Fetched.st.state = "New"
      BY <2>3 DEF HandleNewCR, Start
    <3>3. ~jobCache.st.scheduled /\ Fetched.fin = jobCache.fin
      BY <1>1, <3>2, FetchedKinds
    <3> HIDE DEF h
    <3>4. CallStep
      BY <1>3, <3>1, <3>2, <3>3 DEF CallStep
    <3>5. CancelStep
      BY <1>3, <3>2 DEF CancelStep
    <3> QED
      BY <3>4, <3>5
  <2>4. CASE CheckScheduledPod
    BY <1>2, <2>4 DEF CheckScheduledPod, CheckLater
  <2>5. CASE HandleComplete
    BY <1>2, <2>5 DEF HandleComplete
  <2>6. CASE HandleCancel
    <3>1. Fetched = jobCache /\ jobCache.st.scheduled
      BY <1>1, <2>6, FetchedKinds DEF HandleCancel
    <3> DEFINE f == [jobCache EXCEPT !.st = Failed(@, "podMissing")]
               c == [jobCache EXCEPT !.st.state = "Complete",
                                     !.st.reason = "Cancelled"]
    <3>2. /\ f.uid = jobCache.uid /\ f.del = jobCache.del
          /\ f.st = Failed(jobCache.st, "podMissing")
      BY <1>1 DEF Job
    <3>3. f.st.reason = "Failed" /\ f.st.scheduled = jobCache.st.scheduled
      BY <1>1, <3>2 DEF Status, Failed
    <3>4. /\ c.uid = jobCache.uid /\ c.del = jobCache.del
          /\ c.st.scheduled = jobCache.st.scheduled
      BY <1>1 DEF Job, Status
    <3>5. \/ pc' = "statusCancelled" /\ held' = f
          \/ pc' = "cancelPod" /\ held' = c
      BY <2>6, <3>1 DEF HandleCancel, Start
    <3> HIDE DEF f, c
    <3>6. CallStep
      BY <1>3, <3>1, <3>2, <3>3, <3>4, <3>5 DEF CallStep
    <3>7. CancelStep
      BY <1>3, <3>3, <3>5 DEF CancelStep, IsCancelled
    <3> QED
      BY <3>6, <3>7
  <2> QED
    BY <2>1, <2>2, <2>3, <2>4, <2>5, <2>6
<1>5. GoStep
  BY <1>3 DEF GoStep
<1> QED
  BY <1>3, <1>4, <1>5, PodsAlone DEF PodsStep

\* The status of the copy c replaces that of the stored job.
Replaced(c) ==
  /\ job.exists /\ job'.exists
  /\ c.rv = job.rv
  /\ Fits(c.st)
  /\ job'.rv = job.rv + 1
  /\ job'.st = c.st
  /\ job'.uid = job.uid
  /\ job'.del = job.del

\* A status update changes nothing or replaces the status.
LEMMA StatusWrite ==
  ASSUME TypeOK, NEW c \in Job, NEW ok \in BOOLEAN, StatusUpdate(c, ok)
  PROVE  job' = job \/ Replaced(c)
<1> SUFFICES ASSUME job' # job PROVE Replaced(c)
  OBVIOUS
<1>1. /\ job.exists /\ job.rv = c.rv /\ Fits(c.st)
      /\ job' = [[job EXCEPT !.st = c.st] EXCEPT !.rv = job.rv + 1]
  BY DEF StatusUpdate, Write, Accepts, Stored
<1>2. /\ job'.exists = job.exists /\ job'.uid = job.uid
      /\ job'.del = job.del /\ job'.st = c.st /\ job'.rv = job.rv + 1
  BY <1>1 DEF TypeOK, Job
<1> QED
  BY <1>1, <1>2 DEF Replaced

\* What the worker writes.
LEMMA WorkerWrite ==
  ASSUME LifecycleInv, NEW at, at # "idle", NEW again, UpdateStatus(at, again)
  PROVE  /\ pc = at /\ pc' = "idle"
         /\ UNCHANGED <<jobCache, podCache, phase, owner, dying, outcome, stage, copy>>
         /\ job' = job \/ (Replaced(held) /\ Intent(at, held, job))
<1>1. TypeOK /\ held \in Job
  BY DEF LifecycleInv, VersionInv, TypeOK
<1>2. pc = at /\ \E ok \in BOOLEAN : StatusUpdate(held, ok)
  BY DEF UpdateStatus
<1>3. job' = job \/ Replaced(held)
  BY <1>1, <1>2, StatusWrite
<1>4. Replaced(held) => Intent(at, held, job)
  BY <1>2 DEF Replaced, LifecycleInv, CopiesAreCurrent
<1> QED
  BY <1>2, <1>3, <1>4 DEF UpdateStatus, Finish, podVars, cacheVars, callVars

\* Only handleCancel answers a cancellation.
LEMMA IntentCancelled ==
  ASSUME TypeOK, NEW at \in WorkerPC, Intent(at, held, job), IsCancelled(held.st),
         at \in {"statusScheduled", "statusCreateFailed", "statusPodGone",
                 "statusFinished", "statusCompleted", "statusCancelled"}
  PROVE  \/ IsCancelled(job.st)
         \/ at = "statusCancelled" /\ job.st.scheduled /\ held.st.scheduled
<1>1. job.st \in Status
  BY DEF TypeOK, Job
<1> USE DEF Intent, IsCancelled, Status
<1>2. CASE at \in {"statusScheduled", "statusCreateFailed"}
  BY <1>1, <1>2 DEF Lifecycle!Scheduling, Lifecycle!Failed
<1>3. CASE at \in {"statusPodGone", "statusFinished"}
  BY <1>1, <1>3 DEF Lifecycle!Ending, Lifecycle!Failed
<1>4. CASE at = "statusCompleted"
  BY <1>1, <1>4 DEF Lifecycle!Stamped
<1>5. CASE at = "statusCancelled"
  BY <1>1, <1>5 DEF Lifecycle!Cancelling, Lifecycle!Failed
<1> QED
  BY <1>2, <1>3, <1>4, <1>5

\* The calls of the worker take such steps.
LEMMA CallPods ==
  ASSUME WorkerInv, WorkerNext, pc # "idle"
  PROVE  PodsStep
<1>1. LifecycleInv /\ TypeOK /\ held \in Job /\ job \in Job
  BY DEF WorkerInv, LifecycleInv, VersionInv, TypeOK
<1>2. ASSUME NEW at \in {"statusScheduled", "statusCreateFailed", "statusPodGone",
                         "statusFinished", "statusCompleted", "statusCancelled"},
             NEW again, UpdateStatus(at, again)
      PROVE  PodsStep
  <2>1. /\ pc = at /\ pc' = "idle"
        /\ UNCHANGED <<jobCache, phase, owner, dying>>
        /\ job' = job \/ (Replaced(held) /\ Intent(at, held, job))
    BY <1>1, <1>2, WorkerWrite
  <2>2. CallStep
    BY <2>1 DEF CallStep, DeletionCalls, CancelCalls
  <2>3. GoStep
    BY <2>1 DEF GoStep, Replaced
  <2>4. CancelStep
    <3>1. Replaced(held) /\ IsCancelled(job'.st) => IsCancelled(held.st)
      BY DEF Replaced
    <3>2. at \in WorkerPC
      BY DEF WorkerPC
    <3> QED
      BY <1>1, <2>1, <3>1, <3>2, IntentCancelled DEF CancelStep, Replaced
  <2> QED
    BY <2>1, <2>2, <2>3, <2>4, PodsAlone DEF PodsStep
<1>3. ASSUME NEW at \in {"addFinalizer", "removeFinalizer"}, NEW again,
             UpdateObject(at, again)
      PROVE  PodsStep
  <2>1. /\ pc = at /\ pc' = "idle"
        /\ UNCHANGED <<jobCache, phase, owner, dying>>
        /\ \E ok \in BOOLEAN : ObjectUpdate(held, ok)
    BY <1>3 DEF UpdateObject, Finish, podVars, cacheVars
  <2>2. \/ job' = job
        \/ held.rv = job.rv /\ job.del /\ ~held.fin /\ job' = Removed
        \/ /\ held.rv = job.rv
           /\ job' = [[job EXCEPT !.fin = held.fin] EXCEPT !.rv = job.rv + 1]
    BY <2>1 DEF ObjectUpdate, Write, Accepts, Stored
  <2>3. CallStep
    BY <2>1 DEF CallStep, DeletionCalls, CancelCalls
  <2>4. ASSUME job' = Removed, job.del, held.rv = job.rv, ~held.fin
        PROVE  GoStep /\ CancelStep
    <3>1. ~job'.exists /\ job'.st.state = "Unset"
      BY <2>4 DEF Removed, NoJob, NoStatus
    <3>2. at = "removeFinalizer"
      BY <2>1, <2>4 DEF WorkerInv, LifecycleInv, VersionInv, FinalizerUse
    <3> QED
      BY <2>1, <2>4, <3>1, <3>2 DEF GoStep, CancelStep, IsCancelled
  <2>5. ASSUME job' = [[job EXCEPT !.fin = held.fin] EXCEPT !.rv = job.rv + 1]
        PROVE  GoStep /\ CancelStep
    <3>1. /\ job'.exists = job.exists /\ job'.del = job.del
          /\ job'.st = job.st /\ job'.uid = job.uid
      BY <1>1, <2>5 DEF Job
    <3> QED
      BY <2>1, <3>1 DEF GoStep, CancelStep
  <2>6. ASSUME job' = job PROVE GoStep /\ CancelStep
    BY <2>1, <2>6 DEF GoStep, CancelStep
  <2> QED
    BY <2>1, <2>2, <2>3, <2>4, <2>5, <2>6, PodsAlone DEF PodsStep
<1>4. CASE CreatePod
  <2>1. /\ pc = "createPod" /\ pc' \in {"statusScheduled", "statusCreateFailed"}
        /\ UNCHANGED <<job, jobCache>>
    BY <1>4 DEF CreatePod, Proceed, cacheVars
  <2>2. CallStep /\ GoStep /\ CancelStep
    BY <2>1 DEF CallStep, DeletionCalls, CancelCalls, GoStep, CancelStep
  <2>3. \/ /\ \A q \in Pods : ~PodExists(q)
           /\ \E p \in Pods : phase[p] = "none" /\ NewPod(p, held.uid)
        \/ UNCHANGED <<phase, owner, dying>>
    BY <1>4 DEF CreatePod, PodCreate, podVars
  <2>4. ASSUME \A q \in Pods : ~PodExists(q),
               NEW p \in Pods, phase[p] = "none", NewPod(p, held.uid),
               NEW q \in Pods
        PROVE  PodStep(q)
    <3>1. /\ phase'[p] = "pending" /\ owner'[p] = held.uid /\ UNCHANGED dying
          /\ \A r \in Pods \ {p} : phase'[r] = phase[r] /\ owner'[r] = owner[r]
      BY <1>1, <2>4 DEF NewPod, TypeOK
    <3> QED
      BY <2>1, <2>4, <3>1 DEF PodStep, PodExists, Born, Doomed
  <2> QED
    BY <2>2, <2>3, <2>4, PodsAlone DEF PodsStep
<1>5. CASE DeletePod \/ CancelPod
  <2>1. /\ UNCHANGED <<job, jobCache>>
        /\ \/ pc = "deletePod" /\ pc' = "removeFinalizer" /\ held' = held
           \/ pc = "cancelPod" /\ pc' = "idle"
           \/ /\ pc = "cancelPod" /\ pc' = "statusCancelled" /\ held' = held
              /\ PodDelete(held.st.podName, TRUE)
    BY <1>5 DEF DeletePod, CancelPod, Proceed, Finish, cacheVars
  <2>2. \/ UNCHANGED <<phase, owner, dying>>
        \/ \E p \in Pods : PodExists(p) /\ MarkDying(p)
    BY <1>5 DEF DeletePod, CancelPod, PodDelete, podVars
  <2>3. PodDelete(held.st.podName, TRUE)
          => \E p \in Pods : PodExists(p) /\ MarkDying(p)
    BY DEF PodDelete
  <2>4. CallStep /\ GoStep
    BY <2>1 DEF CallStep, DeletionCalls, CancelCalls, GoStep
  <2>5. CancelStep
    BY <1>1, <2>1, <2>3, MarkedDying DEF CancelStep
  <2>6. ASSUME NEW p \in Pods, PodExists(p), MarkDying(p), NEW q \in Pods
        PROVE  PodStep(q)
    BY <1>1, <2>1, <2>6, MarkedDying DEF PodStep, PodExists, Born, Doomed
  <2> QED
    BY <2>2, <2>4, <2>5, <2>6, PodsAlone DEF PodsStep
<1>6. ~ \E next, h, again : Start(next, h, again)
  BY DEF Start
<1> QED
  BY <1>2, <1>3, <1>4, <1>5, <1>6
  DEF WorkerNext, AddFinalizer, RemoveFinalizer, UpdateCreateFailed,
      UpdateScheduled, UpdatePodGone, UpdateFinished, UpdateCompleted,
      UpdateCancelled, ReconcileMissing, HandleDeletion, HandleNewCR,
      CheckScheduledPod, CheckLater, HandleComplete, HandleCancel

\* What the status server writes is a report merged into the current status.
LEMMA ServerWrite ==
  ASSUME LifecycleInv, NEW p \in Pods, PutStatus(p) \/ PutLate(p)
  PROVE  job' = job \/ (/\ Replaced(copy[p])
                        /\ copy[p].st \in Lifecycle!Reporting(job.st))
<1>1. TypeOK /\ copy[p] \in Job /\ WriteSent(p)
  BY DEF LifecycleInv, VersionInv, TypeOK, PutStatus, PutLate
<1>2. job' = job \/ Replaced(copy[p])
  BY <1>1, StatusWrite DEF PutStatus, PutLate
<1> QED
  BY <1>1, <1>2 DEF Replaced, LifecycleInv, CopiesAreCurrent

\* A report is no answer to a cancellation.
LEMMA ReportNotCancelled ==
  ASSUME NEW s \in Status, NEW r \in Lifecycle!Reporting(s)
  PROVE  r.reason \in {"NoReason", "Succeeded", "Failed"}
BY DEF Lifecycle!Reporting, Lifecycle!Failed, Status

\* The status server takes such steps.
LEMMA ServerPods == WorkerInv /\ ServerNext => PodsStep
<1> SUFFICES ASSUME WorkerInv, NEW p \in Pods,
                    \/ GetForUpdate(p)
                    \/ PutStatus(p)
                    \/ PutLate(p)
                    \/ DropLate(p)
             PROVE  PodsStep
  BY DEF ServerNext
<1>1. LifecycleInv /\ job.st \in Status /\ phase \in [Pods -> Phase]
      /\ CallsHaveCallers
  BY DEF WorkerInv, LifecycleInv, VersionInv, TypeOK, Job
<1>2. UNCHANGED <<jobCache, pc, held>>
  BY DEF GetForUpdate, PutStatus, PutLate, DropLate, cacheVars, workerVars
<1>3. job' = job \/ (Replaced(copy[p]) /\ job'.st \in Lifecycle!Reporting(job.st))
  BY <1>1, ServerWrite DEF GetForUpdate, DropLate, Replaced
<1>4. CallStep
  BY <1>2 DEF CallStep
<1>5. GoStep
  BY <1>3 DEF GoStep, Replaced
<1>6. CancelStep
  BY <1>1, <1>2, <1>3, ReportNotCancelled DEF CancelStep, IsCancelled
<1>7. UNCHANGED <<owner, dying>>
  BY DEF GetForUpdate, PutStatus, PutLate, DropLate, podVars, Return, SetPhase
<1>8. UNCHANGED phase \/ (phase[p] \in Waiting /\ \E ok \in BOOLEAN : Return(p, ok))
  BY <1>1 DEF GetForUpdate, PutStatus, PutLate, DropLate, podVars,
              CallsHaveCallers
<1>9. ASSUME phase[p] \in Waiting, NEW ok \in BOOLEAN, Return(p, ok), NEW q \in Pods
      PROVE  PodStep(q)
  <2>1. /\ phase'[p] \in {"exit0", "exit1", "executing"}
        /\ \A r \in Pods \ {p} : phase'[r] = phase[r]
    BY <1>1, <1>9 DEF Return, SetPhase
  <2> QED
    BY <1>7, <1>9, <2>1 DEF PodStep, PodExists, Born, Doomed, Waiting
<1> QED
  BY <1>4, <1>5, <1>6, <1>7, <1>8, <1>9, PodsAlone DEF PodsStep

\* The drivers and the kubelet take such steps.
LEMMA KubeletPods ==
  ASSUME WorkerInv, NEW p \in Pods,
         \/ NewDriverFails(p)
         \/ ReportRunning(p)
         \/ Exec(p)
         \/ CallFails(p)
         \/ StartMain(p)
         \/ FailInit(p)
         \/ KillMain(p)
         \/ RemovePod(p)
         \/ EvictPod(p)
         \/ CollectPod(p)
  PROVE  PodsStep
<1> USE DEF podVars, cacheVars, workerVars
<1>1. TypeOK /\ phase \in [Pods -> Phase]
  BY DEF WorkerInv, LifecycleInv, VersionInv, TypeOK
<1>2. UNCHANGED <<job, jobCache, pc, held, owner>>
  BY DEF NewDriverFails, ReportRunning, Exec, CallFails, StartMain, FailInit,
         KillMain, RemovePod, EvictPod, CollectPod, SetPhase, Return, MarkDying
<1>3. CASE EvictPod(p) \/ CollectPod(p)
  <2>1. /\ PodExists(p) /\ ~dying[p] /\ MarkDying(p)
        /\ "evict" \in Kinds \/ ~job.exists \/ job.uid # owner[p]
    BY <1>3 DEF EvictPod, CollectPod, Disturb
  <2>2. ASSUME NEW q \in Pods PROVE PodStep(q)
    BY <1>1, <1>2, <2>1, MarkedDying DEF PodStep, PodExists, Born, Doomed
  <2> QED
    BY <1>2, <2>2, WorkerAlone DEF PodsStep
<1>4. CASE ~(EvictPod(p) \/ CollectPod(p))
  <2>1. /\ UNCHANGED dying
        /\ phase[p] \notin {"none", "gone"}
        /\ \A q \in Pods \ {p} : phase'[q] = phase[q]
        /\ phase'[p] # "none"
        /\ phase'[p] = "gone" => dying[p]
    <3> USE DEF SetPhase, Waiting, Alive, Ended
    <3>1. CASE NewDriverFails(p) \/ ReportRunning(p) \/ Exec(p) \/ CallFails(p)
      BY <1>1, <3>1 DEF NewDriverFails, ReportRunning, Exec, CallFails, Return
    <3>2. CASE StartMain(p) \/ FailInit(p) \/ KillMain(p) \/ RemovePod(p)
      BY <1>1, <3>2 DEF StartMain, FailInit, KillMain, RemovePod
    <3> QED
      BY <1>4, <3>1, <3>2
  <2>2. ASSUME NEW q \in Pods PROVE PodStep(q)
    BY <1>2, <2>1 DEF PodStep, PodExists, Born, Doomed
  <2> QED
    BY <1>2, <2>2, WorkerAlone DEF PodsStep
<1> QED
  BY <1>3, <1>4

\* The users take such steps.
LEMMA UserPods ==
  ASSUME WorkerInv, CreateJob \/ CancelJob \/ EditJob \/ DeleteJob
  PROVE  PodsStep
<1>1. job \in Job /\ job.st \in Status
  BY DEF WorkerInv, LifecycleInv, VersionInv, TypeOK, Job
<1>2. UNCHANGED <<jobCache, pc, held, phase, owner, dying>>
  BY DEF CreateJob, CancelJob, EditJob, DeleteJob, podVars, cacheVars,
         workerVars
<1>3. CallStep
  BY <1>2 DEF CallStep
<1>4. \/ job'.st.state \in {"Unset", "Cancelled"}
      \/ ~job'.exists
      \/ job'.st = job.st /\ job'.uid = job.uid /\ job.exists
  <2>1. CASE CreateJob
    BY <2>1 DEF CreateJob, NoJob, NoStatus
  <2>2. CASE CancelJob
    BY <1>1, <2>2 DEF CancelJob, Job, Status
  <2>3. CASE EditJob
    BY <1>1, <2>3 DEF EditJob, Job
  <2>4. CASE DeleteJob
    BY <1>1, <2>4 DEF DeleteJob, Removed, NoJob, NoStatus, Job
  <2> QED
    BY <2>1, <2>2, <2>3, <2>4
<1>5. CancelStep
  BY <1>2, <1>4 DEF CancelStep, IsCancelled
<1>6. GoStep
  <2>1. CASE CreateJob
    BY <2>1 DEF CreateJob, GoStep
  <2>2. CASE CancelJob
    BY <1>1, <2>2 DEF CancelJob, GoStep, Job
  <2>3. CASE EditJob
    BY <1>1, <2>3 DEF EditJob, GoStep, Job
  <2>4. CASE DeleteJob
    BY <1>1, <2>4 DEF DeleteJob, GoStep, Job
  <2> QED
    BY <2>1, <2>2, <2>3, <2>4
<1> QED
  BY <1>2, <1>3, <1>5, <1>6, PodsAlone DEF PodsStep

\* The informers and a restart of the controller take such steps.
LEMMA CachePods ==
  ASSUME SyncJob \/ SyncPod \/ Resync \/ Restart
  PROVE  PodsStep
<1>1. /\ UNCHANGED <<job, phase, owner, dying>>
      /\ pc' = "idle" \/ UNCHANGED <<pc, held>>
  BY DEF SyncJob, SyncPod, Resync, Restart, podVars
<1>2. CallStep /\ CancelStep
  BY <1>1 DEF CallStep, CancelStep, DeletionCalls, CancelCalls
<1>3. GoStep
  BY <1>1 DEF GoStep
<1> QED
  BY <1>1, <1>2, <1>3, PodsAlone DEF PodsStep

\* Every step of the service is such a step.
LEMMA NextPods == WorkerInv /\ Next => PodsStep
<1> SUFFICES ASSUME WorkerInv, Next PROVE PodsStep
  OBVIOUS
<1>1. CASE WorkerNext
  <2>1. CASE pc = "idle"
    BY <1>1, <2>1, HandlerPods
    DEF WorkerNext, AddFinalizer, RemoveFinalizer, UpdateCreateFailed,
        UpdateScheduled, UpdatePodGone, UpdateFinished, UpdateCompleted,
        UpdateCancelled, CreatePod, DeletePod, CancelPod, UpdateObject,
        UpdateStatus
  <2> QED
    BY <1>1, <2>1, CallPods
<1>2. CASE ServerNext
  BY <1>2, ServerPods
<1>3. CASE DriverNext
  BY <1>3, KubeletPods DEF DriverNext
<1>4. CASE ClusterNext
  BY <1>4, KubeletPods, UserPods, CachePods DEF ClusterNext
<1>5. CASE Restart
  BY <1>5, CachePods
<1> QED
  BY <1>1, <1>2, <1>3, <1>4, <1>5 DEF Next

-----------------------------------------------------------------------------
(* The worker's view of the job and of the pods. *)

\* What was not taken back before a step is not taken back by it.
LEMMA OutlivesKept ==
  ASSUME TypeOK, JobStep, GoStep, NEW c \in Job, c.uid <= job.uid, Outlives(c, job)
  PROVE  Outlives(c, job')
<1>1. job.uid \in Nat /\ c.uid \in Nat
  BY DEF TypeOK, Job
<1>2. CASE job' = job
  BY <1>2 DEF Outlives
<1>3. CASE job' # job /\ job.exists
  <2>1. /\ job'.uid = job.uid
        /\ job'.exists => (job.st.scheduled => job'.st.scheduled)
        /\ (job'.exists /\ job.del) => job'.del
    BY <1>3 DEF JobStep, GoStep
  <2> QED
    BY <1>3, <2>1 DEF Outlives
<1>4. CASE job' # job /\ ~job.exists
  <2>1. job'.uid = job.uid + 1
    BY <1>4 DEF JobStep
  <2>2. job'.uid # c.uid
    BY <1>1, <2>1
  <2> QED
    BY <2>2 DEF Outlives
<1> QED
  BY <1>2, <1>3, <1>4

\* Such steps keep the worker's view a past one.
LEMMA WorkerInvStep ==
  ASSUME WorkerInv, Steps, PodsStep, LifecycleInv'
  PROVE  WorkerInv'
<1>1. /\ LifecycleInv /\ TypeOK /\ TypeOK'
      /\ JobStep /\ CopyStep /\ OwnerStep /\ CallStep /\ GoStep
      /\ WorkerBehindCache /\ SeenStays /\ JobStillThere
  BY DEF WorkerInv, LifecycleInv, VersionInv, Steps, PodsStep
<1>2. /\ job.rv \in Nat /\ held.rv \in Nat /\ jobCache.rv \in Nat
      /\ job.uid \in Nat /\ held.uid \in Nat /\ jobCache.uid \in Nat
      /\ job'.uid \in Nat
      /\ \A p \in Pods : owner[p] \in Nat /\ owner'[p] \in Nat
      /\ job \in Job /\ held \in Job /\ jobCache \in Job
  BY <1>1 DEF TypeOK, Job
<1>3. /\ jobCache.rv <= job.rv /\ jobCache.uid <= job.uid
      /\ jobCache.rv = job.rv => jobCache = job
      /\ pc # "idle" => held.rv <= job.rv /\ held.uid <= job.uid
  BY <1>1 DEF LifecycleInv, VersionInv, CopiesAreVersions, IsVersion,
              CopiesAreCurrent
<1>4. jobCache' = jobCache \/ (jobCache' = job /\ job' = job)
  BY <1>1 DEF CopyStep
<1>5. WorkerBehindCache'
  <2>1. jobCache.rv <= jobCache'.rv /\ jobCache.uid <= jobCache'.uid
    BY <1>2, <1>3, <1>4
  <2>2. pc' # "idle" => \/ held'.rv = jobCache.rv /\ held'.uid = jobCache.uid
                        \/ /\ held'.rv = held.rv /\ held'.uid = held.uid
                           /\ held.rv <= jobCache.rv /\ held.uid <= jobCache.uid
    BY <1>1 DEF CopyStep, Derived, WorkerBehindCache
  <2>3. jobCache'.rv \in Nat /\ jobCache'.uid \in Nat
    BY <1>1 DEF TypeOK, Job
  <2> QED
    BY <1>2, <2>1, <2>2, <2>3 DEF WorkerBehindCache
<1>6. SeenStays'
  <2>1. Outlives(jobCache, job')
    BY <1>1, <1>2, <1>3, OutlivesKept DEF SeenStays
  <2>2. Outlives(jobCache', job')
    BY <1>4, <2>1 DEF Outlives
  <2>3. ASSUME pc' \in DeletionCalls \cup CancelCalls
        PROVE  /\ Outlives(held', job') /\ Outlives(held', jobCache')
               /\ pc' \in CancelCalls => held'.st.scheduled
    <3>1. CASE /\ pc \in DeletionCalls \cup CancelCalls /\ held' = held
               /\ pc' \in CancelCalls => pc \in CancelCalls
      <4>1. /\ Outlives(held, job) /\ Outlives(held, jobCache)
            /\ pc' \in CancelCalls => held.st.scheduled
        BY <1>1, <3>1 DEF SeenStays
      <4>2. pc # "idle"
        BY <3>1 DEF DeletionCalls, CancelCalls
      <4>3. Outlives(held, job')
        BY <1>1, <1>2, <1>3, <4>1, <4>2, OutlivesKept
      <4> QED
        BY <1>4, <3>1, <4>1, <4>3
    <3>2. CASE /\ UNCHANGED <<job, jobCache>>
               /\ held'.uid = jobCache.uid
               /\ held'.del = jobCache.del
               /\ held'.st.scheduled = jobCache.st.scheduled
               /\ pc' \in CancelCalls => jobCache.st.scheduled
      BY <1>1, <3>2 DEF Outlives, SeenStays
    <3> QED
      BY <1>1, <2>3, <3>1, <3>2 DEF CallStep
  <2> QED
    BY <2>2, <2>3 DEF SeenStays
<1>7. JobStillThere'
  <2>1. ASSUME job.exists, ~job'.exists
        PROVE  /\ ~(jobCache'.exists /\ jobCache'.fin /\ ~jobCache'.del)
               /\ pc' # "createPod"
    <3>1. jobCache' = jobCache /\ job' # job
      BY <1>4, <2>1
    <3>2. CASE ~job.fin
      BY <1>1, <2>1, <3>1, <3>2
      DEF LifecycleInv, VersionInv, FinalizerStays, JobStillThere, CallStep
    <3>3. CASE pc = "removeFinalizer" /\ held.rv = job.rv /\ job.del
      <4>1. jobCache = job
        BY <1>1, <1>2, <1>3, <3>3 DEF WorkerBehindCache
      <4> QED
        BY <1>1, <3>1, <3>3, <4>1 DEF CallStep
    <3> QED
      BY <1>1, <2>1, <3>2, <3>3 DEF GoStep
  <2>2. job.exists => job'.uid = job.uid
    BY <1>1 DEF JobStep
  <2>3. (jobCache'.exists /\ jobCache'.fin /\ ~jobCache'.del)
          => job'.exists /\ job'.uid = jobCache'.uid
    BY <1>1, <1>4, <2>1, <2>2 DEF JobStillThere
  <2>4. pc' = "createPod" => job'.exists /\ job'.uid = held'.uid
    BY <1>1, <2>1, <2>2 DEF JobStillThere, CallStep
  <2> QED
    BY <2>3, <2>4 DEF JobStillThere
<1>8. OwnersSeen'
  <2> SUFFICES ASSUME NEW p \in Pods
               PROVE  /\ owner'[p] <= jobCache'.uid
                      /\ pc' # "idle" => owner'[p] <= held'.uid
    BY DEF OwnersSeen
  <2>1. /\ owner[p] <= jobCache.uid
        /\ pc # "idle" => owner[p] <= held.uid /\ held.uid <= jobCache.uid
    BY <1>1 DEF WorkerInv, OwnersSeen, WorkerBehindCache
  <2>2. owner'[p] = owner[p] \/ (pc = "createPod" /\ owner'[p] = held.uid)
    BY <1>1 DEF OwnerStep
  <2>3. jobCache.uid <= jobCache'.uid /\ jobCache'.uid \in Nat
    BY <1>2, <1>3, <1>4
  <2>4. pc' # "idle" => \/ pc # "idle" /\ held'.uid = held.uid
                        \/ held'.uid = jobCache.uid
    BY <1>1 DEF CopyStep, Derived
  <2> QED
    BY <1>2, <2>1, <2>2, <2>3, <2>4
<1>9. OnePod'
  BY DEF OnePod, WorkerInv, PodsStep, PodStep, PodExists, Born
<1>10. GoneWasDying'
  BY DEF GoneWasDying, WorkerInv, PodsStep, PodStep, PodExists, Born, Doomed
<1> QED
  BY <1>5, <1>6, <1>7, <1>8, <1>9, <1>10 DEF WorkerInv

\* A step of something else is such a step as well.
LEMMA StutterPods ==
  ASSUME WorkerInv, UNCHANGED vars
  PROVE  Steps /\ PodsStep
<1>1. UNCHANGED <<job, jobCache, phase, owner, dying, pc, held, stage, copy>>
  BY DEF vars, podVars, cacheVars, workerVars, callVars
<1>2. CallsHaveCallers'
  BY <1>1 DEF WorkerInv, LifecycleInv, VersionInv, CallsHaveCallers
<1>3. Steps
  BY <1>1, <1>2, OutsideSteps DEF JobStep, PodExists
<1>4. PodsStep
  BY <1>1, PodsAlone, WorkerAlone DEF PodsStep
<1> QED
  BY <1>3, <1>4

\* Every step, also one of something else, is such a step, and keeps the view.
LEMMA NextWorker ==
  WorkerInv /\ [Next]_vars => WorkerInv' /\ Steps /\ PodsStep
<1> SUFFICES ASSUME WorkerInv, [Next]_vars PROVE WorkerInv' /\ Steps /\ PodsStep
  OBVIOUS
<1>1. LifecycleInv'
  BY NextCurrent DEF WorkerInv
<1>2. Steps /\ PodsStep
  BY NextSteps, NextPods, StutterPods DEF WorkerInv, LifecycleInv
<1> QED
  BY <1>1, <1>2, WorkerInvStep

\* At the start there is nothing to see.
LEMMA InitWorker == Init => WorkerInv
<1> SUFFICES ASSUME Init PROVE WorkerInv
  OBVIOUS
<1>1. LifecycleInv
  BY InitCurrent
<1>2. /\ pc = "idle" /\ job = NoJob /\ jobCache = NoJob
      /\ phase = [p \in Pods |-> "none"] /\ owner = [p \in Pods |-> 0]
      /\ \A p \in Pods : ~dying[p]
  BY DEF Init, ClusterInit
<1>3. ~NoJob.exists /\ NoJob.uid = 0
  BY DEF NoJob
<1> QED
  BY <1>1, <1>2, <1>3
  DEF WorkerInv, WorkerBehindCache, SeenStays, Outlives, DeletionCalls,
      CancelCalls, JobStillThere, OwnersSeen, OnePod, PodExists, GoneWasDying

-----------------------------------------------------------------------------
(* The evaluation runs once. *)

\* No pod will be created for the job u: the worker is not about to create one,
\* and neither the stored job nor the cached one lets it come to that.
Spent(u) ==
  /\ (job.exists /\ job.uid = u) => job.del \/ job.st.scheduled
  /\ (jobCache.exists /\ jobCache.uid = u)
       => jobCache.del \/ jobCache.st.scheduled \/ ~jobCache.fin
  /\ pc = "createPod" => held.uid # u

\* A job loses its pod only when it will not get another one.
DyingSpent == \A p \in Pods : dying[p] => Spent(owner[p])

OnceInv == WorkerInv /\ DyingSpent /\ EvaluationRunsOnce

\* A job that is spent remains so.
LEMMA SpentKept ==
  ASSUME WorkerInv, Steps, PodsStep, NEW u \in Nat, u <= job.uid, Spent(u)
  PROVE  Spent(u)'
<1>1. JobStep /\ CopyStep /\ CallStep /\ GoStep
  BY DEF Steps, PodsStep
<1>2. (job'.exists /\ job'.uid = u) => job'.del \/ job'.st.scheduled
  <2>1. job.uid \in Nat
    BY DEF WorkerInv, LifecycleInv, VersionInv, TypeOK, Job
  <2>2. job'.uid # job.uid + 1 \/ job'.uid # u
    BY <2>1
  <2> QED
    BY <1>1, <2>2 DEF JobStep, GoStep, Spent
<1>3. jobCache' = jobCache \/ (jobCache' = job /\ job' = job)
  BY <1>1 DEF CopyStep
<1>4. pc' = "createPod" => held'.uid # u
  BY <1>1 DEF CallStep, Spent
<1> QED
  BY <1>2, <1>3, <1>4 DEF Spent

\* When a pod is deleted by the worker or by the garbage collector, its job is
\* spent.
LEMMA DoomedSpent ==
  ASSUME WorkerInv, Steps, PodsStep, "evict" \notin Kinds,
         NEW p \in Pods, Doomed(p)
  PROVE  Spent(owner[p])'
<1>1. /\ UNCHANGED <<job, jobCache, phase, owner>>
      /\ \/ pc \in {"deletePod", "cancelPod"} /\ pc' # "createPod"
         \/ (~job.exists \/ job.uid # owner[p]) /\ UNCHANGED <<pc, held>>
  BY DEF PodsStep, PodStep
<1>2. /\ job.uid \in Nat /\ jobCache.uid \in Nat /\ held.uid \in Nat
      /\ owner[p] \in Nat
      /\ jobCache.uid <= job.uid
      /\ owner[p] <= jobCache.uid
      /\ pc # "idle" => owner[p] <= held.uid /\ held.uid <= jobCache.uid
  BY DEF WorkerInv, LifecycleInv, VersionInv, TypeOK, Job, CopiesAreVersions,
         IsVersion, OwnersSeen, WorkerBehindCache
<1>3. CASE pc \in {"deletePod", "cancelPod"} /\ pc' # "createPod"
  <2>1. /\ job.uid = owner[p] => held.uid = job.uid
        /\ jobCache.uid = owner[p] => held.uid = jobCache.uid
    BY <1>2, <1>3
  <2>2. /\ held.del \/ held.st.scheduled
        /\ Outlives(held, job) /\ Outlives(held, jobCache)
    BY <1>3 DEF WorkerInv, LifecycleInv, VersionInv, FinalizerUse, SeenStays,
                DeletionCalls, CancelCalls
  <2> QED
    BY <1>1, <1>3, <2>1, <2>2 DEF Spent, Outlives
<1>4. CASE (~job.exists \/ job.uid # owner[p]) /\ UNCHANGED <<pc, held>>
  BY <1>1, <1>4 DEF Spent, WorkerInv, JobStillThere
<1> QED
  BY <1>1, <1>3, <1>4

\* Every step keeps the invariant if no one else deletes the pods.
LEMMA NextOnce ==
  ASSUME "evict" \notin Kinds, OnceInv, [Next]_vars
  PROVE  OnceInv'
<1>1. WorkerInv /\ WorkerInv' /\ Steps /\ PodsStep
  BY NextWorker DEF OnceInv
<1>2. \A p \in Pods : owner[p] \in Nat /\ owner[p] <= job.uid
  BY <1>1 DEF WorkerInv, LifecycleInv, VersionInv, TypeOK, OwnersAreKnown
<1>3. ASSUME NEW p \in Pods, dying'[p]
      PROVE  Spent(owner[p])' /\ owner'[p] = owner[p]
  <2>1. ~Born(p)
    BY <1>1, <1>3 DEF WorkerInv, GoneWasDying, PodsStep, PodStep, Born
  <2>2. owner'[p] = owner[p]
    BY <1>1, <2>1 DEF PodsStep, PodStep
  <2>3. CASE dying[p]
    <3>1. Spent(owner[p])
      BY <2>3 DEF OnceInv, DyingSpent
    <3>2. ASSUME NEW u \in Nat, u <= job.uid, Spent(u) PROVE Spent(u)'
      BY <1>1, <3>2, SpentKept
    <3> QED
      BY <1>2, <2>2, <3>1, <3>2 DEF Spent
  <2>4. CASE ~dying[p]
    BY <1>1, <1>3, <2>2, <2>4, DoomedSpent DEF Doomed
  <2> QED
    BY <2>2, <2>3, <2>4
<1>4. DyingSpent'
  BY <1>3 DEF DyingSpent
<1>5. ASSUME NEW p \in Pods, NEW q \in Pods, Born(p), phase'[q] # "none",
             owner'[p] = owner'[q]
      PROVE  p = q
  <2> SUFFICES ASSUME p # q PROVE FALSE
    OBVIOUS
  <2>1. /\ pc = "createPod" /\ owner'[p] = held.uid /\ phase'[q] = phase[q]
        /\ ~PodExists(q)
    BY <1>1, <1>5 DEF PodsStep, PodStep
  <2>2. phase[q] = "gone" /\ owner'[q] = owner[q]
    BY <1>1, <1>5, <2>1 DEF PodExists, PodsStep, PodStep, Born
  <2>3. Spent(owner[q])
    BY <1>1, <2>2 DEF OnceInv, WorkerInv, GoneWasDying, DyingSpent
  <2> QED
    BY <1>5, <2>1, <2>2, <2>3 DEF Spent
<1>6. EvaluationRunsOnce'
  <2> SUFFICES ASSUME NEW p \in Pods, NEW q \in Pods, phase'[p] # "none",
                      phase'[q] # "none", owner'[p] = owner'[q]
               PROVE  p = q
    BY DEF EvaluationRunsOnce
  <2>1. CASE Born(p) \/ Born(q)
    BY <1>5, <2>1
  <2>2. CASE ~Born(p) /\ ~Born(q)
    <3>1. /\ phase[p] # "none" /\ phase[q] # "none"
          /\ owner'[p] = owner[p] /\ owner'[q] = owner[q]
      BY <1>1, <2>2 DEF Born, PodsStep, PodStep
    <3> QED
      BY <3>1 DEF OnceInv, EvaluationRunsOnce
  <2> QED
    BY <2>1, <2>2
<1> QED
  BY <1>1, <1>4, <1>6 DEF OnceInv

\* As long as no one but the service and the garbage collector deletes the pods,
\* the worker starts the evaluation of a job once, in every behaviour: whatever
\* is lost between the creation of the pod and the status that records it, the
\* job either still has its pod or is past the point where it gets one.  (A pod
\* that is evicted before its creation is recorded is created again.)
THEOREM StartsOnce ==
  ASSUME "evict" \notin Kinds
  PROVE  Spec => []EvaluationRunsOnce
<1>1. Init => OnceInv
  BY InitWorker DEF Init, ClusterInit, OnceInv, DyingSpent, EvaluationRunsOnce
<1>2. OnceInv /\ [Next]_vars => OnceInv'
  BY NextOnce
<1>3. OnceInv => EvaluationRunsOnce
  BY DEF OnceInv
<1> QED
  BY <1>1, <1>2, <1>3, PTL DEF Spec

-----------------------------------------------------------------------------
(* A cancelled job has no pod left running. *)

\* A job whose cancellation is complete will not get a pod: the schedule time
\* is in the cache, whatever else is missing there.
CancelledSpent ==
  (job.exists /\ IsCancelled(job.st)) =>
    /\ job.st.scheduled
    /\ jobCache.uid = job.uid /\ jobCache.st.scheduled
    /\ pc # "createPod"

\* When the worker is about to report the cancellation, the pod is deleted.
CancelDeletes ==
  (pc = "statusCancelled" /\ IsCancelled(held.st))
    => \A p \in Pods : PodExists(p) => dying[p]

CancelInv == WorkerInv /\ CancelledSpent /\ CancelDeletes /\ CancelledPodStopped

\* Every step keeps the invariant.
LEMMA NextCancelled == CancelInv /\ [Next]_vars => CancelInv'
<1> SUFFICES ASSUME CancelInv, [Next]_vars PROVE CancelInv'
  OBVIOUS
<1>1. WorkerInv /\ WorkerInv' /\ Steps /\ PodsStep
  BY NextWorker DEF CancelInv
<1>2. /\ JobStep /\ CopyStep /\ CallStep /\ CancelStep
      /\ \A p \in Pods : PodStep(p)
      /\ CancelledSpent /\ CancelDeletes /\ CancelledPodStopped
  BY <1>1 DEF Steps, PodsStep, CancelInv
<1>3. ASSUME NEW p \in Pods, PodExists(p)', pc # "createPod"
      PROVE  /\ PodExists(p) /\ owner'[p] = owner[p]
             /\ dying[p] => dying'[p]
  BY <1>2, <1>3 DEF PodStep
<1>4. CancelDeletes'
  <2> SUFFICES ASSUME pc' = "statusCancelled", IsCancelled(held'.st),
                      NEW p \in Pods, PodExists(p)'
               PROVE  dying'[p]
    BY DEF CancelDeletes
  <2>1. CASE pc = "statusCancelled" /\ held' = held
    BY <1>2, <1>3, <2>1 DEF CancelDeletes
  <2>2. ASSUME UNCHANGED phase, NEW q \in Pods, PodExists(q), dying'[q]
        PROVE  dying'[p]
    <3>1. PodExists(p)
      BY <2>2 DEF PodExists
    <3> QED
      BY <1>1, <2>2, <3>1 DEF WorkerInv, OnePod
  <2> QED
    BY <1>2, <2>1, <2>2 DEF CancelStep
<1>5. CASE job'.exists /\ IsCancelled(job'.st)
           /\ job.exists /\ IsCancelled(job.st) /\ job'.uid = job.uid
  <2>1. /\ job.st.scheduled /\ jobCache.uid = job.uid
        /\ jobCache.st.scheduled /\ pc # "createPod"
    BY <1>2, <1>5 DEF CancelledSpent
  <2>2. job'.st.scheduled
    <3>1. job'.uid # job.uid + 1
      BY <1>1, <1>5 DEF WorkerInv, LifecycleInv, VersionInv, TypeOK, Job
    <3> QED
      BY <1>2, <1>5, <2>1, <3>1 DEF JobStep
  <2>3. CancelledSpent'
    BY <1>2, <1>5, <2>1, <2>2 DEF CancelledSpent, CopyStep, CallStep
  <2>4. CancelledPodStopped'
    BY <1>2, <1>3, <1>5, <2>1 DEF CancelledPodStopped, OwnedPods, IsCancelled
  <2> QED
    BY <1>1, <1>4, <2>3, <2>4 DEF CancelInv
<1>6. CASE /\ pc = "statusCancelled" /\ pc' = "idle"
           /\ held.rv = job.rv /\ IsCancelled(held.st)
           /\ job.st.scheduled /\ job'.st.scheduled /\ job'.uid = job.uid
           /\ UNCHANGED <<jobCache, phase, owner, dying>>
  <2>1. jobCache = job
    <3>1. held.rv <= jobCache.rv /\ jobCache.rv <= job.rv
      BY <1>1, <1>6 DEF WorkerInv, WorkerBehindCache, LifecycleInv, VersionInv,
                        CopiesAreVersions, IsVersion
    <3>2. jobCache.rv \in Nat /\ job.rv \in Nat
      BY <1>1 DEF WorkerInv, LifecycleInv, VersionInv, TypeOK, Job
    <3>3. jobCache.rv = job.rv
      BY <1>6, <3>1, <3>2
    <3> QED
      BY <1>1, <3>3 DEF WorkerInv, LifecycleInv, CopiesAreCurrent
  <2>2. CancelledSpent'
    BY <1>6, <2>1 DEF CancelledSpent
  <2>3. \A p \in Pods : PodExists(p) => dying[p]
    BY <1>2, <1>6 DEF CancelDeletes
  <2>4. CancelledPodStopped'
    BY <1>6, <2>3 DEF CancelledPodStopped, OwnedPods, PodExists
  <2> QED
    BY <1>1, <1>4, <2>2, <2>4 DEF CancelInv
<1>7. CASE ~(job'.exists /\ IsCancelled(job'.st))
  BY <1>1, <1>4, <1>7 DEF CancelInv, CancelledSpent, CancelledPodStopped,
                          IsCancelled
<1> QED
  BY <1>2, <1>5, <1>6, <1>7 DEF CancelStep

\* In every behaviour a job whose cancellation is reported complete has no pod
\* left that is not being deleted, although the report is written a call after
\* the deletion of the pod and the worker sees the job and the pod in caches
\* only: when the report is accepted, the cache is current, and from then on
\* it shows the schedule time, so that no pod comes back.
THEOREM CancelledStops == Spec => []CancelledPodStopped
<1>1. Init => CancelInv
  <2> SUFFICES ASSUME Init PROVE CancelInv
    OBVIOUS
  <2>1. WorkerInv /\ pc = "idle" /\ ~job.exists
    BY InitWorker DEF Init, ClusterInit, NoJob
  <2> QED
    BY <2>1 DEF CancelInv, CancelledSpent, CancelDeletes, CancelledPodStopped
<1>2. CancelInv => CancelledPodStopped
  BY DEF CancelInv
<1> QED
  BY <1>1, <1>2, NextCancelled, PTL DEF Spec
=============================================================================
