---------------------------- MODULE StatusServer ----------------------------
(***************************************************************************)
(* The controller's gRPC service UpdateStatus.  Its handlers run in        *)
(* goroutines of their own, beside each other and beside the reconciler: a *)
(* handler reads the job from the informer cache, merges the report into   *)
(* its copy and sends the copy to the API server.                          *)
(***************************************************************************)
EXTENDS Driver

\* Mutant of Merged: the report replaces the status.
MergedAfresh(p, st) ==
  [NoStatus EXCEPT !.state = Report(p).state, !.reason = Report(p).reason,
                   !.message = Report(p).message,
                   !.results = Report(p).results]

\* The status with the report of pod p merged in.
Merged(p, st) ==
  [st EXCEPT !.state   = Report(p).state,
             !.reason  = Report(p).reason,
             !.message = Report(p).message,
             !.results = IF CarriesResults(p) THEN Report(p).results ELSE @]

\* The read of the handler.  A job that is not in the cache is an error for
\* the caller.
GetForUpdate(p) ==
  /\ stage[p] = "received"
  /\ IF jobCache.exists
       THEN /\ stage' = [stage EXCEPT ![p] = "read"]
            /\ copy' = [copy EXCEPT ![p] =
                          [jobCache EXCEPT !.st = Merged(p, jobCache.st)]]
            /\ UNCHANGED podVars
       ELSE /\ stage' = [stage EXCEPT ![p] = "none"]
            /\ UNCHANGED copy
            /\ Return(p, FALSE)
  /\ UNCHANGED <<job, cacheVars, workerVars, faults>>

EndCall(p) ==
  /\ stage' = [stage EXCEPT ![p] = "none"]
  /\ copy' = [copy EXCEPT ![p] = NoJob]

\* Mutant of PutStatus: the answer is success whatever the write returned.
PutStatusAcked(p) ==
  /\ stage[p] = "read"
  /\ \E ok \in BOOLEAN : StatusUpdate(copy[p], ok) /\ Return(p, TRUE)
  /\ EndCall(p)
  /\ UNCHANGED <<cacheVars, workerVars>>

\* The write of the handler; its result is the answer to the call.
PutStatus(p) ==
  /\ stage[p] = "read"
  /\ \E ok \in BOOLEAN : StatusUpdate(copy[p], ok) /\ Return(p, ok)
  /\ EndCall(p)
  /\ UNCHANGED <<cacheVars, workerVars>>

\* The write of a handler whose caller has gone.
PutLate(p) ==
  /\ stage[p] = "late"
  /\ \E ok \in BOOLEAN : StatusUpdate(copy[p], ok)
  /\ EndCall(p)
  /\ UNCHANGED <<podVars, cacheVars, workerVars>>

\* The handler's context ended with the call before its write was sent.
DropLate(p) ==
  /\ stage[p] = "late"
  /\ EndCall(p)
  /\ UNCHANGED <<job, podVars, cacheVars, workerVars, faults>>

ServerNext ==
  \E p \in Pods : \/ GetForUpdate(p)
                  \/ PutStatus(p)
                  \/ PutLate(p)
                  \/ DropLate(p)
=============================================================================
