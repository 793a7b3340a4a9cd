---------------------------- MODULE EvalService -----------------------------
(***************************************************************************)
(* The evaluation service: the controller (reconcile worker and status     *)
(* server), the drivers in the pods and the cluster around them.           *)
(***************************************************************************)
EXTENDS StatusServer, Reconciler

(***************************************************************************)
(* The controller process ends and is started again.  What the worker and  *)
(* the handlers had in memory is lost, but a status update that was sent   *)
(* may still be stored; the informers list their objects anew and every    *)
(* listed job is reconciled.                                               *)
(***************************************************************************)
WriteSent(p) == stage[p] \in {"read", "late"}

Restart ==
  /\ Disturb("crash")
  /\ pc' = "idle"
  /\ held' = NoJob
  /\ stage' = [p \in Pods |-> IF WriteSent(p) THEN "late" ELSE "none"]
  /\ copy' = [p \in Pods |-> IF WriteSent(p) THEN copy[p] ELSE NoJob]
  /\ jobCache' = job
  /\ \E v \in PodViews : IsPodView(v) /\ podCache' = v
  /\ queued' = job.exists
  /\ UNCHANGED <<job, podVars>>

Init ==
  /\ ClusterInit
  /\ queued = FALSE
  /\ pc = "idle"
  /\ held = NoJob
  /\ stage = [p \in Pods |-> "none"]
  /\ copy = [p \in Pods |-> NoJob]

Next == WorkerNext \/ ServerNext \/ DriverNext \/ ClusterNext \/ Restart

Spec == Init /\ [][Next]_vars

(***************************************************************************)
(* Fairness.  The controller's goroutines, the drivers and the machinery   *)
(* of the cluster keep running.  Users need not do anything, nothing has   *)
(* to go wrong, and nothing is expected of the informers' replay.          *)
(***************************************************************************)
PodFairness(p) ==
  /\ WF_vars(StartMain(p))
  /\ WF_vars(dying[p] /\ KillMain(p))
  /\ WF_vars(RemovePod(p))
  /\ WF_vars(CollectPod(p))
  /\ WF_vars(ReportRunning(p))
  /\ WF_vars(Exec(p))
  /\ WF_vars(stage[p] = "none" /\ CallFails(p))
  /\ WF_vars(GetForUpdate(p))
  /\ WF_vars(PutStatus(p))
  /\ WF_vars(PutLate(p) \/ DropLate(p))

Fairness ==
  /\ WF_vars(WorkerNext)
  /\ WF_vars(SyncJob)
  /\ WF_vars(SyncPod)
  /\ \A p \in Pods : PodFairness(p)

FairSpec == Spec /\ Fairness

-----------------------------------------------------------------------------
CallStage == {"none", "received", "read", "late"}

\* Every variable has its type.
TypeOK ==
  /\ job \in Job
  /\ jobCache \in Job
  /\ phase \in [Pods -> Phase]
  /\ owner \in [Pods -> Nat]
  /\ dying \in [Pods -> BOOLEAN]
  /\ outcome \in [Pods -> Outcome]
  /\ podCache \in PodViews
  /\ queued \in BOOLEAN
  /\ pc \in WorkerPC
  /\ held \in Job
  /\ stage \in [Pods -> CallStage]
  /\ copy \in [Pods -> Job]
  /\ faults \in Nat

SameJob == job.exists /\ job'.exists /\ job'.uid = job.uid

OwnedPods == {p \in Pods : PodExists(p) /\ owner[p] = job.uid}

\* A job whose cancellation is complete has no pod left running: handleCancel
\* reports it only after the deletion of the pod was accepted, and no stale
\* read of the caches brings a pod back.
CancelledPodStopped ==
  (job.exists /\ job.st.state = "Complete" /\ job.st.reason = "Cancelled")
    => \A p \in OwnedPods : dying[p]

\* As long as a job has a pod it has the finalizer that makes its deletion
\* wait for the controller.
FinalizerGuardsPod == (job.exists /\ ~job.fin) => OwnedPods = {}

\* A driver that exits with 0 has had its completion report stored, and no
\* write computed from an older copy of the job, by the reconciler or by a
\* delayed status call, takes the job back to an earlier state.
AckedReportSticks ==
  \A p \in Pods :
    (phase[p] = "exit0" /\ owner[p] = job.uid /\ job.exists)
      => job.st.state \in {"Complete", "Cancelled"}

\* Only an evaluation that succeeded makes a job Succeeded, although the
\* driver of a failed one exits with 0 as well and the reconciler goes by
\* the exit code.
NoFalseSuccess ==
  (job.exists /\ job.st.reason = "Succeeded")
    => \E p \in Pods : owner[p] = job.uid /\ outcome[p] \in SuccessOutcome

\* The results of a driver that exits with 0 are in the job and stay there: the
\* completion of the job, its cancellation and late reports are merged into a
\* status that has them.  (Results the API server cannot store are refused, and
\* the driver exits with 1.)
ResultsKept ==
  \A p \in Pods :
    (phase[p] = "exit0" /\ owner[p] = job.uid /\ job.exists)
      => job.st.results = {q \in {p} : outcome[q] = "found"}

\* The evaluation of a job is started once: stale caches, failed status
\* updates and restarts never make the worker create a second pod.
EvaluationRunsOnce ==
  \A p, q \in Pods :
    (phase[p] # "none" /\ phase[q] # "none" /\ owner[p] = owner[q]) => p = q

\* Something is left to do for the job: to schedule it, to look at its pod, to
\* answer its cancellation or to let it go.
Unfinished ==
  job.exists /\ ~(job.st.scheduled /\ job.st.state = "Complete" /\ ~job.del)

\* The controller never forgets a job it has something to do for: its key is
\* queued, an event of it has not arrived yet, or the worker is at it with the
\* current version of the job.  Handlers take the key from the queue, fail,
\* return without a repetition or write what is refused, and nothing else wakes
\* the worker.
NeverForgotten ==
  Unfinished => \/ queued
                \/ jobCache # job
                \/ pc # "idle" /\ held.rv = job.rv

\* Once the schedule time or the completion time of a job is stored, no later
\* write of its status loses it.
TimesAreFinal ==
  [][SameJob =>
       /\ job.st.scheduled => job'.st.scheduled
       /\ job.st.completed => job'.st.completed]_vars

-----------------------------------------------------------------------------
Lifecycle == INSTANCE JobLifecycle
               WITH present <- job.exists, uid <- job.uid, fin <- job.fin,
                    del <- job.del, st <- job.st

\* Every write that is stored is one the lifecycle of the job allows in the
\* status it replaces, although the handlers of the reconciler and of the
\* status server compute it from a cached copy, one or more calls later.
LifecycleImplemented == Lifecycle!Spec

\* The parts of a job's status fit together, whichever writes were lost.
StatusCoherent == Lifecycle!Coherent

-----------------------------------------------------------------------------
(* What FinalizerGuardsPod and TimesAreFinal rest on: an invariant that every *)
(* step keeps.                                                                *)

\* c was computed from a version of the job j, and if from the current one, it
\* agrees with it on what no handler takes back.
IsVersion(c, j) ==
  /\ c.rv <= j.rv
  /\ c.uid <= j.uid
  /\ c.rv = j.rv => /\ c.uid = j.uid
                    /\ c.del = j.del
                    /\ j.st.scheduled => c.st.scheduled
                    /\ j.st.completed => c.st.completed

CopiesAreVersions ==
  /\ IsVersion(jobCache, job)
  /\ pc # "idle" => IsVersion(held, job)
  /\ \A p \in Pods : WriteSent(p) => IsVersion(copy[p], job)

\* The finalizer, once seen on a job, is on it as long as the job exists.
FinalizerStays ==
  /\ (jobCache.fin /\ jobCache.uid = job.uid /\ job.exists) => job.fin
  /\ (pc = "createPod" /\ held.uid = job.uid /\ job.exists) => job.fin

\* The finalizer is added before anything else and removed only from a job
\* that is being deleted.
FinalizerUse ==
  /\ pc = "addFinalizer" => held.fin
  /\ pc \in {"deletePod", "removeFinalizer"} => held.del

\* A call that will be answered has a driver that waits for the answer.
CallsHaveCallers ==
  \A p \in Pods : stage[p] \in {"received", "read"} => phase[p] \in Waiting

OwnersAreKnown == \A p \in Pods : owner[p] <= job.uid

\* The stored job, the copies of it in the controller and the owners of the
\* pods fit together, whatever is stale.
VersionInv ==
  /\ TypeOK
  /\ CopiesAreVersions
  /\ FinalizerStays
  /\ FinalizerUse
  /\ CallsHaveCallers
  /\ OwnersAreKnown
  /\ FinalizerGuardsPod

-----------------------------------------------------------------------------
(* What LifecycleImplemented rests on. *)

\* What the worker at the call "at" is about to make of the job j, if its copy
\* h is of j's current version.
Intent(at, h, j) ==
  /\ at = "addFinalizer" => h.fin /\ ~j.del /\ ~j.st.scheduled
  /\ at \in {"createPod", "statusScheduled", "statusCreateFailed"}
       => j.fin /\ ~j.del /\ ~j.st.scheduled
  /\ at = "createPod" => h.st = [j.st EXCEPT !.state = "New"]
  /\ at \in {"statusScheduled", "statusCreateFailed"}
       => h.st \in Lifecycle!Scheduling(j.st)
  /\ at \in {"statusPodGone", "statusFinished"}
       => /\ ~j.del /\ j.st.scheduled
          /\ j.st.state \in {"Scheduled", "Running"}
          /\ h.st \in Lifecycle!Ending(j.st)
  /\ at = "statusCompleted"
       => /\ ~j.del /\ j.st.scheduled /\ j.st.state = "Complete"
          /\ h.st = Lifecycle!Stamped(j.st)
  /\ at \in {"cancelPod", "statusCancelled"}
       => /\ ~j.del /\ j.st.scheduled /\ j.st.state = "Cancelled"
          /\ h.st \in Lifecycle!Cancelling(j.st)
  /\ at \in {"deletePod", "removeFinalizer"} => j.del /\ j.fin /\ ~h.fin

\* A copy of the job is either old, so that its write will be refused, or what
\* it is to be written for is still true of the stored job.
CopiesAreCurrent ==
  /\ jobCache.rv = job.rv => jobCache = job
  /\ (pc # "idle" /\ held.rv = job.rv) => Intent(pc, held, job)
  /\ \A p \in Pods : (WriteSent(p) /\ copy[p].rv = job.rv)
                        => copy[p].st \in Lifecycle!Reporting(job.st)

\* "New" is what Reconcile takes an unscheduled job for; it is never stored.
NewIsNotStored == "New" \notin {job.st.state, jobCache.st.state}

\* The copies of the job in the controller are versions of the stored one, and
\* a write of the current version is one that the lifecycle allows.
LifecycleInv == VersionInv /\ CopiesAreCurrent /\ NewIsNotStored

-----------------------------------------------------------------------------
(* What the comments of the code say of it, and the code does not keep. *)

\* The cancellation of a scheduled job is answered by its completion
\* (handleCancel: "delete the pod and update the state to complete").
CancellationHonoured ==
  [][(SameJob /\ job.st.scheduled /\ job.st.state = "Cancelled")
       => job'.st.state \in {"Cancelled", "Complete"}]_vars

\* A job is failed for a missing pod only when its pod is missing
\* (checkScheduledPod: "since the job's pod is gone, mark the job as complete
\* with error result").
PodGoneIsTrue ==
  [][(SameJob /\ job.st.message # "podMissing" /\ job'.st.message = "podMissing")
       => OwnedPods = {}]_vars

\* The reason of a job that succeeded is its "Final result" (the comment on
\* Reason): as long as the job is there no handler replaces it.
SuccessIsFinal ==
  [][(SameJob /\ job.st.state = "Complete" /\ job.st.reason = "Succeeded")
       => job'.st.reason = "Succeeded"]_vars

-----------------------------------------------------------------------------
\* Every job ends up Complete and stays so, or is deleted: the checking of the
\* pod goes on until the main container has ended, whatever calls fail.
EventuallySettles == <>[](job.exists => job.st.state = "Complete")

\* The completion of a scheduled job gets its completion time, whoever
\* completed the job and whatever write the update collides with.
CompletionIsStamped ==
  (job.exists /\ job.st.scheduled /\ job.st.state = "Complete")
    ~> (~job.exists \/ job.del \/ job.st.completed
          \/ job.st.state = "Cancelled")

\* A job whose deletion was asked for goes: the finalizer is removed, however
\* often the update collides with another or fails.
DeletedJobGoes == (job.exists /\ job.del) ~> ~job.exists
=============================================================================
