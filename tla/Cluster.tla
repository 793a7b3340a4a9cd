------------------------------ MODULE Cluster -------------------------------
(***************************************************************************)
(* The Kubernetes cluster as the evaluation service uses it: the stored    *)
(* LMEvalJob object and the pod that carries its name, the informer caches *)
(* the controller reads, the calls of the API server, and what the rest of *)
(* the cluster (users, scheduler, kubelet, garbage collector) does.        *)
(*                                                                         *)
(* One job name is modelled.  The reconciler handles one request at a time *)
(* and touches only the job of the request and the pod of the same name,   *)
(* so jobs of different names do not interact.  The name may be reused:    *)
(* the uid tells the incarnations of the job apart, and every pod created  *)
(* under the name is another member of Pods.                               *)
(***************************************************************************)
EXTENDS Naturals, JobStatus

CONSTANTS
  NoPod,       \* not a pod
  MaxJobs,     \* bound on the incarnations of the job
  MaxFaults,   \* bound on the disturbances of one behaviour
  Kinds        \* the kinds of disturbance that may happen

ASSUME NoPodAssumption == NoPod \notin Pods

ASSUME BoundsAssumption == MaxJobs \in Nat /\ MaxFaults \in Nat

ASSUME KindsAssumption ==
  Kinds \subseteq {"apiError", "rpcError", "crash", "kill", "setupFail",
                   "initFail", "evict", "edit", "cancel", "delete", "huge"}

VARIABLES
  job,       \* the LMEvalJob object in the API server
  jobCache,  \* the controller's informer copy of it
  phase,     \* phase[p]: how far pod p and the driver in it have come
  owner,     \* owner[p]: uid of the job in the pod's owner reference
  dying,     \* dying[p]: the pod has a deletion timestamp
  outcome,   \* outcome[p]: how the evaluation in pod p ended
  podCache,  \* the controller's informer copy of the pod of this name
  queued,    \* the job's key is in the work queue, or will be after a delay
  pc,        \* where the reconcile worker stands
  held,      \* the worker's in-memory copy of the job
  stage,     \* stage[p]: the UpdateStatus call of the driver in pod p
  copy,      \* copy[p]: the job object that call is about to store
  faults     \* disturbances so far

podVars    == <<phase, owner, dying, outcome>>
cacheVars  == <<jobCache, podCache>>
workerVars == <<queued, pc, held>>
callVars   == <<stage, copy>>
vars       == <<job, podVars, cacheVars, workerVars, callVars, faults>>

(***************************************************************************)
(* The LMEvalJob object: its status, and of the rest what the code reads.  *)
(***************************************************************************)
Job == [exists: BOOLEAN, uid: Nat, rv: Nat, fin: BOOLEAN, del: BOOLEAN,
        st: Status]

NoJob == [exists |-> FALSE, uid |-> 0, rv |-> 0, fin |-> FALSE,
          del |-> FALSE, st |-> NoStatus]

(***************************************************************************)
(* The pod.  Phases "start" to "waitComplete" are the driver process in    *)
(* the main container; "exit0" and "exit1" the terminated main container.  *)
(***************************************************************************)
Waiting == {"waitRunning", "waitComplete"}

Alive == Waiting \cup {"start", "executing"}

Ended == {"exit0", "exit1"}

Phase == Alive \cup Ended \cup {"none", "pending", "initFailed", "gone"}

\* "huge": results that do not fit into an object of the API server.
Outcome == {"none", "failed", "empty", "found", "huge"}

PodExists(p) == phase[p] \notin {"none", "gone"}

\* What the pod object says of the main container.
MainState(p) == IF phase[p] \in Ended THEN phase[p] ELSE "unfinished"

NoView == [pod |-> NoPod, main |-> "unfinished"]

\* The pod object of this name as the API server has it now.
IsPodView(v) ==
  \/ \E p \in Pods : PodExists(p) /\ v = [pod |-> p, main |-> MainState(p)]
  \/ (\A p \in Pods : ~PodExists(p)) /\ v = NoView

PodViews == [pod: Pods \cup {NoPod}, main: Ended \cup {"unfinished"}]

(***************************************************************************)
(* Disturbances: what may go wrong or be asked for, MaxFaults times in all.*)
(***************************************************************************)
Disturb(kind) ==
  /\ kind \in Kinds
  /\ faults < MaxFaults
  /\ faults' = faults + 1

(***************************************************************************)
(* Calls of the API server.  A write carries the resource version of the   *)
(* copy it was computed from and is refused when the stored object has     *)
(* moved on, and when it is too large.  A write that changes nothing is    *)
(* accepted without a new version.  A call may also fail for a reason of   *)
(* the server's own, with or without having taken effect.                  *)
(***************************************************************************)
Fits(st) == \A p \in st.results : outcome[p] # "huge"

Accepts(c) == job.exists /\ job.rv = c.rv /\ Fits(c.st)

Stored(new) == IF new = job THEN job ELSE [new EXCEPT !.rv = job.rv + 1]

Removed == [NoJob EXCEPT !.uid = job.uid, !.rv = job.rv + 1]

Write(c, new, ok) ==
  \/ ok /\ Accepts(c) /\ job' = new /\ UNCHANGED faults
  \/ ~ok /\ ~Accepts(c) /\ UNCHANGED <<job, faults>>
  \/ ~ok /\ Accepts(c) /\ Disturb("apiError") /\ job' \in {job, new}

\* Status().Update: only the status of the copy is taken.
StatusUpdate(c, ok) == Write(c, Stored([job EXCEPT !.st = c.st]), ok)

\* Update: everything but the status is taken; a job that is being deleted
\* goes with its last finalizer.
ObjectUpdate(c, ok) ==
  Write(c, IF job.del /\ ~c.fin THEN Removed
           ELSE Stored([job EXCEPT !.fin = c.fin]), ok)

NewPod(p, uid) ==
  /\ phase' = [phase EXCEPT ![p] = "pending"]
  /\ owner' = [owner EXCEPT ![p] = uid]
  /\ UNCHANGED <<dying, outcome>>

\* Create of the job's pod, owned by the job with this uid.
PodCreate(uid, ok) ==
  \/ /\ ~ok
     /\ \E q \in Pods : PodExists(q)
     /\ UNCHANGED <<podVars, faults>>
  \/ /\ \A q \in Pods : ~PodExists(q)
     /\ \/ /\ ok
           /\ \E p \in Pods : phase[p] = "none" /\ NewPod(p, uid)
           /\ UNCHANGED faults
        \/ /\ ~ok
           /\ Disturb("apiError")
           /\ \/ \E p \in Pods : phase[p] = "none" /\ NewPod(p, uid)
              \/ UNCHANGED podVars

MarkDying(p) ==
  /\ dying' = [dying EXCEPT ![p] = TRUE]
  /\ UNCHANGED <<phase, owner, outcome>>

\* Delete of the pod of this name; a call without a name is refused by the
\* client.
PodDelete(named, ok) ==
  \/ /\ ~ok
     /\ ~named \/ (\A q \in Pods : ~PodExists(q))
     /\ UNCHANGED <<podVars, faults>>
  \/ /\ named
     /\ \E p \in Pods : /\ PodExists(p)
                        /\ \/ ok /\ MarkDying(p) /\ UNCHANGED faults
                           \/ /\ ~ok
                              /\ Disturb("apiError")
                              /\ MarkDying(p) \/ UNCHANGED podVars

(***************************************************************************)
(* The informers.  The caches lag behind the API server by any amount.     *)
(***************************************************************************)
\* Every event of a job but its deletion enqueues its key.
SyncJob ==
  /\ jobCache # job
  /\ jobCache' = job
  /\ queued' = (queued \/ job.exists)
  /\ UNCHANGED <<job, podVars, podCache, pc, held, callVars, faults>>

\* Of the events of a pod only its deletion enqueues its owner.
SyncPod ==
  \E v \in PodViews :
    /\ IsPodView(v)
    /\ podCache # v
    /\ podCache' = v
    /\ queued' = (queued \/ podCache.pod \notin {NoPod, v.pod})
    /\ UNCHANGED <<job, podVars, jobCache, pc, held, callVars, faults>>

\* The informer replays its objects now and then.
Resync ==
  /\ jobCache.exists
  /\ ~queued
  /\ queued' = TRUE
  /\ UNCHANGED <<job, podVars, cacheVars, pc, held, callVars, faults>>

(***************************************************************************)
(* Users.                                                                  *)
(***************************************************************************)
CreateJob ==
  /\ ~job.exists
  /\ job.uid < MaxJobs
  /\ job' = [NoJob EXCEPT !.exists = TRUE, !.uid = job.uid + 1,
                          !.rv = job.rv + 1]
  /\ UNCHANGED <<podVars, cacheVars, workerVars, callVars, faults>>

\* Someone with access to the status asks for the cancellation.
CancelJob ==
  /\ job.exists
  /\ job.st.state # "Cancelled"
  /\ Disturb("cancel")
  /\ job' = [job EXCEPT !.st.state = "Cancelled", !.rv = job.rv + 1]
  /\ UNCHANGED <<podVars, cacheVars, workerVars, callVars>>

\* Any other change of the object: a label, an annotation.
EditJob ==
  /\ job.exists
  /\ Disturb("edit")
  /\ job' = [job EXCEPT !.rv = job.rv + 1]
  /\ UNCHANGED <<podVars, cacheVars, workerVars, callVars>>

DeleteJob ==
  /\ job.exists
  /\ ~job.del
  /\ Disturb("delete")
  /\ job' = IF job.fin THEN [job EXCEPT !.del = TRUE, !.rv = job.rv + 1]
                       ELSE Removed
  /\ UNCHANGED <<podVars, cacheVars, workerVars, callVars>>

(***************************************************************************)
(* Scheduler, kubelet and garbage collector.                               *)
(***************************************************************************)
SetPhase(p, to) ==
  /\ phase' = [phase EXCEPT ![p] = to]
  /\ UNCHANGED <<owner, dying, outcome>>

\* The init container (driver --copy) succeeds and the main container starts.
StartMain(p) ==
  /\ phase[p] = "pending"
  /\ ~dying[p]
  /\ SetPhase(p, "start")
  /\ UNCHANGED <<job, cacheVars, workerVars, callVars, faults>>

\* The init container fails.  The pod never restarts it (restart policy
\* Never), so the main container stays waiting.
FailInit(p) ==
  /\ phase[p] = "pending"
  /\ Disturb("initFail")
  /\ SetPhase(p, "initFailed")
  /\ UNCHANGED <<job, cacheVars, workerVars, callVars>>

\* The client of a call is gone: a call not yet served is lost, one whose
\* update has been sent may still take effect.
Abandon(p) ==
  /\ stage' = [stage EXCEPT ![p] = IF @ = "read" THEN "late" ELSE "none"]
  /\ UNCHANGED copy

\* The main container is stopped: because the pod is being deleted, or killed.
KillMain(p) ==
  /\ phase[p] \in Alive
  /\ \/ dying[p] /\ UNCHANGED faults
     \/ ~dying[p] /\ Disturb("kill")
  /\ SetPhase(p, "exit1")
  /\ Abandon(p)
  /\ UNCHANGED <<job, cacheVars, workerVars>>

RemovePod(p) ==
  /\ dying[p]
  /\ phase[p] \in Ended \cup {"pending", "initFailed"}
  /\ SetPhase(p, "gone")
  /\ UNCHANGED <<job, cacheVars, workerVars, callVars, faults>>

\* The pod is deleted by someone else: a user, a node drain.
EvictPod(p) ==
  /\ PodExists(p)
  /\ ~dying[p]
  /\ Disturb("evict")
  /\ MarkDying(p)
  /\ UNCHANGED <<job, cacheVars, workerVars, callVars>>

\* The garbage collector deletes the pod of a job that no longer exists.
CollectPod(p) ==
  /\ PodExists(p)
  /\ ~dying[p]
  /\ ~job.exists \/ job.uid # owner[p]
  /\ MarkDying(p)
  /\ UNCHANGED <<job, cacheVars, workerVars, callVars, faults>>

ClusterInit ==
  /\ job = NoJob
  /\ jobCache = NoJob
  /\ phase = [p \in Pods |-> "none"]
  /\ owner = [p \in Pods |-> 0]
  /\ dying = [p \in Pods |-> FALSE]
  /\ outcome = [p \in Pods |-> "none"]
  /\ podCache = NoView
  /\ faults = 0

ClusterNext ==
  \/ SyncJob
  \/ SyncPod
  \/ Resync
  \/ CreateJob
  \/ CancelJob
  \/ EditJob
  \/ DeleteJob
  \/ \E p \in Pods : \/ StartMain(p)
                     \/ FailInit(p)
                     \/ KillMain(p)
                     \/ RemovePod(p)
                     \/ EvictPod(p)
                     \/ CollectPod(p)
=============================================================================
