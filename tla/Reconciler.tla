----------------------------- MODULE Reconciler -----------------------------
(***************************************************************************)
(* The reconcile worker of the controller.  One request is handled at a    *)
(* time.  A request starts with reads of the informer caches, which are    *)
(* local: the handler they lead to is one action.  Every call of the API   *)
(* server that follows is an action of its own, at the pc named for it, so *)
(* that everything else may happen in between.                             *)
(***************************************************************************)
EXTENDS Cluster

WorkerPC == {"idle", "addFinalizer", "createPod", "statusScheduled",
             "statusCreateFailed", "statusPodGone", "statusFinished",
             "statusCompleted", "cancelPod", "statusCancelled", "deletePod",
             "removeFinalizer"}

\* Mutant of Fetched: a job that failed is taken for a new one.
FetchedRetrying ==
  IF jobCache.st.scheduled /\ jobCache.st.reason # "Failed" THEN jobCache
  ELSE [jobCache EXCEPT !.st.state = "New"]

\* The job as Reconcile sees it: one that was never scheduled is a new one.
Fetched ==
  IF jobCache.st.scheduled THEN jobCache
  ELSE [jobCache EXCEPT !.st.state = "New"]

\* Mutant of PodFound: a pod that is not in the cache is taken for a waiting one.
PodAssumed == TRUE

\* getPod: the pod of this name in the cache.  Its owner is compared by name
\* only, so a pod of an earlier job of the name is taken as well.
PodFound == podCache.pod # NoPod

(***************************************************************************)
(* Start(next, h, again) takes the request from the queue and stops before *)
(* the call "next" with the copy h of the job in hand; with next = "idle"  *)
(* the request is done.  "again": the request is to be repeated, at once,  *)
(* after the checking interval, or after the back-off that an error earns. *)
(***************************************************************************)
Start(next, h, again) ==
  /\ pc = "idle"
  /\ queued
  /\ pc' = next
  /\ held' = IF next = "idle" THEN NoJob ELSE h
  /\ queued' = again
  /\ UNCHANGED <<job, podVars, cacheVars, callVars, faults>>

Finish(again) ==
  /\ pc' = "idle"
  /\ held' = NoJob
  /\ queued' = (queued \/ again)

\* The call at hand ends and the next one is prepared.
Proceed(next, h) ==
  /\ pc' = next
  /\ held' = h
  /\ UNCHANGED queued

(***************************************************************************)
(* The handlers, up to their first call of the API server.                 *)
(***************************************************************************)
ReconcileMissing ==
  /\ ~jobCache.exists
  /\ Start("idle", NoJob, FALSE)

\* The pod of a job that was cancelled and has completed is left alone.
HandleDeletion ==
  /\ jobCache.exists
  /\ jobCache.del
  /\ Start(IF ~jobCache.fin THEN "idle"
           ELSE IF /\ jobCache.st.state = "Complete"
                   /\ jobCache.st.reason = "Cancelled"
                THEN "removeFinalizer" ELSE "deletePod",
           [jobCache EXCEPT !.fin = FALSE], FALSE)

\* Mutant of HandleNewCR: the pod is created before the finalizer is stored.
HandleNewCRUnguarded ==
  /\ jobCache.exists
  /\ ~jobCache.del
  /\ Fetched.st.state = "New"
  /\ Start("createPod", [Fetched EXCEPT !.fin = TRUE], FALSE)

HandleNewCR ==
  /\ jobCache.exists
  /\ ~jobCache.del
  /\ Fetched.st.state = "New"
  /\ Start(IF Fetched.fin THEN "createPod" ELSE "addFinalizer",
           [Fetched EXCEPT !.fin = TRUE], FALSE)

\* Mutant of CheckLater: the pod is not looked at again.
CheckNoMore == Start("idle", NoJob, FALSE)

\* The main container has not ended: wait for the checking interval.
CheckLater == Start("idle", NoJob, TRUE)

CheckScheduledPod ==
  /\ jobCache.exists
  /\ ~jobCache.del
  /\ Fetched.st.state \in {"Scheduled", "Running"}
  /\ \/ /\ ~PodFound
        /\ Start("statusPodGone",
                 [Fetched EXCEPT !.st = Failed(@, "podMissing")], FALSE)
     \/ /\ PodFound
        /\ podCache.main = "unfinished"
        /\ CheckLater
     \/ /\ PodFound
        /\ podCache.main = "exit0"
        /\ Start("statusFinished",
                 [Fetched EXCEPT !.st.state = "Complete",
                                 !.st.reason = "Succeeded"], FALSE)
     \/ /\ PodFound
        /\ podCache.main = "exit1"
        /\ Start("statusFinished",
                 [Fetched EXCEPT !.st = Failed(@, "terminated")], FALSE)

\* Mutant of HandleComplete: only a success gets its time.
HandleCompleteSucceeded ==
  /\ jobCache.exists
  /\ ~jobCache.del
  /\ Fetched.st.state = "Complete"
  /\ Start(IF Fetched.st.completed \/ Fetched.st.reason # "Succeeded"
             THEN "idle" ELSE "statusCompleted",
           [Fetched EXCEPT !.st.completed = TRUE], FALSE)

HandleComplete ==
  /\ jobCache.exists
  /\ ~jobCache.del
  /\ Fetched.st.state = "Complete"
  /\ Start(IF Fetched.st.completed THEN "idle" ELSE "statusCompleted",
           [Fetched EXCEPT !.st.completed = TRUE], FALSE)

HandleCancel ==
  /\ jobCache.exists
  /\ ~jobCache.del
  /\ Fetched.st.state = "Cancelled"
  /\ \/ /\ ~PodFound
        /\ Start("statusCancelled",
                 [Fetched EXCEPT !.st = Failed(@, "podMissing")], FALSE)
     \/ /\ PodFound
        /\ Start("cancelPod",
                 [Fetched EXCEPT !.st.state = "Complete",
                                 !.st.reason = "Cancelled"], FALSE)

(***************************************************************************)
(* The calls of the API server.  again[ok] says whether the handler, which *)
(* ends with the call, has the request repeated.                           *)
(***************************************************************************)
UpdateObject(at, again) ==
  /\ pc = at
  /\ \E ok \in BOOLEAN : ObjectUpdate(held, ok) /\ Finish(again[ok])
  /\ UNCHANGED <<podVars, cacheVars, callVars>>

\* Mutant of UpdateStatus: the version of the copy is not checked.
UpdateStatusForced(at, again) ==
  /\ pc = at
  /\ \E ok \in BOOLEAN : /\ StatusUpdate([held EXCEPT !.rv = job.rv], ok)
                         /\ Finish(again[ok])
  /\ UNCHANGED <<podVars, cacheVars, callVars>>

UpdateStatus(at, again) ==
  /\ pc = at
  /\ \E ok \in BOOLEAN : StatusUpdate(held, ok) /\ Finish(again[ok])
  /\ UNCHANGED <<podVars, cacheVars, callVars>>

Always == [ok \in BOOLEAN |-> TRUE]

OnError == [ok \in BOOLEAN |-> ~ok]

Never == [ok \in BOOLEAN |-> FALSE]

AddFinalizer == UpdateObject("addFinalizer", OnError)

RemoveFinalizer == UpdateObject("removeFinalizer", OnError)

\* The error of Create is returned, whatever becomes of the status update.
UpdateCreateFailed == UpdateStatus("statusCreateFailed", Always)

UpdateScheduled == UpdateStatus("statusScheduled", Always)

\* The error of getPod is returned even when the update succeeds.
UpdatePodGone == UpdateStatus("statusPodGone", Always)

\* Mutant of UpdateFinished: an error is logged and forgotten here as well.
UpdateFinishedOnce == UpdateStatus("statusFinished", Never)

UpdateFinished == UpdateStatus("statusFinished", OnError)

\* An error is logged and forgotten.
UpdateCompleted == UpdateStatus("statusCompleted", Never)

UpdateCancelled == UpdateStatus("statusCancelled", OnError)

CreatePod ==
  /\ pc = "createPod"
  /\ \/ /\ PodCreate(held.uid, TRUE)
        /\ Proceed("statusScheduled",
                   [held EXCEPT !.st.state = "Scheduled",
                                !.st.podName = TRUE,
                                !.st.scheduled = TRUE])
     \/ /\ PodCreate(held.uid, FALSE)
        /\ Proceed("statusCreateFailed",
                   [held EXCEPT !.st = Failed(@, "createError")])
  /\ UNCHANGED <<job, cacheVars, callVars>>

\* Mutant of DeletePod: an error of the deletion ends the request.
DeletePodFirst ==
  /\ pc = "deletePod"
  /\ \/ PodDelete(held.st.podName, TRUE) /\ Proceed("removeFinalizer", held)
     \/ PodDelete(held.st.podName, FALSE) /\ Finish(TRUE)
  /\ UNCHANGED <<job, cacheVars, callVars>>

\* handleDeletion logs an error of the deletion and goes on.
DeletePod ==
  /\ pc = "deletePod"
  /\ \E ok \in BOOLEAN : PodDelete(held.st.podName, ok)
  /\ Proceed("removeFinalizer", held)
  /\ UNCHANGED <<job, cacheVars, callVars>>

\* Mutant of CancelPod: an error of the deletion is ignored.
CancelPodAnyway ==
  /\ pc = "cancelPod"
  /\ \E ok \in BOOLEAN : PodDelete(held.st.podName, ok)
  /\ Proceed("statusCancelled", held)
  /\ UNCHANGED <<job, cacheVars, callVars>>

\* handleCancel leaves the state as it is when the deletion fails.
CancelPod ==
  /\ pc = "cancelPod"
  /\ \/ PodDelete(held.st.podName, TRUE) /\ Proceed("statusCancelled", held)
     \/ PodDelete(held.st.podName, FALSE) /\ Finish(TRUE)
  /\ UNCHANGED <<job, cacheVars, callVars>>

WorkerNext ==
  \/ ReconcileMissing
  \/ HandleDeletion
  \/ HandleNewCR
  \/ CheckScheduledPod
  \/ HandleComplete
  \/ HandleCancel
  \/ AddFinalizer
  \/ RemoveFinalizer
  \/ CreatePod
  \/ UpdateCreateFailed
  \/ UpdateScheduled
  \/ UpdatePodGone
  \/ UpdateFinished
  \/ UpdateCompleted
  \/ DeletePod
  \/ CancelPod
  \/ UpdateCancelled
=============================================================================
