------------------------------- MODULE Driver -------------------------------
(***************************************************************************)
(* The driver: the process that runs in the main container of a job's pod, *)
(* reports Running to the controller, runs the evaluation program, collects*)
(* its results, reports Complete and exits.  Its program counter is the    *)
(* phase of its pod; its UpdateStatus call is in flight while the phase is *)
(* one of Waiting.                                                         *)
(***************************************************************************)
EXTENDS Cluster

(***************************************************************************)
(* What an UpdateStatus call carries.  A completion report carries results *)
(* only when the evaluation succeeded; they are empty when the output      *)
(* directory has no result file.                                           *)
(***************************************************************************)
SuccessOutcome == {"empty", "found", "huge"}

CarriesResults(p) ==
  phase[p] = "waitComplete" /\ outcome[p] \in SuccessOutcome

\* Mutant of Report: a failed evaluation is reported with a state of its own.
ReportFailedState(p) ==
  [state   |-> IF phase[p] = "waitRunning" THEN "Running"
               ELSE IF CarriesResults(p) THEN "Complete" ELSE "Failed",
   reason  |-> IF phase[p] = "waitRunning" THEN "NoReason" ELSE "Succeeded",
   message |-> "completed",
   results |-> {}]

Report(p) ==
  [state   |-> IF phase[p] = "waitRunning" THEN "Running" ELSE "Complete",
   reason  |-> IF phase[p] = "waitRunning" THEN "NoReason"
               ELSE IF CarriesResults(p) THEN "Succeeded" ELSE "Failed",
   message |-> IF phase[p] = "waitRunning" THEN "running"
               ELSE IF CarriesResults(p) THEN "completed" ELSE "evalError",
   results |-> IF outcome[p] \in {"found", "huge"} THEN {p} ELSE {}]

Send(p) ==
  /\ stage' = [stage EXCEPT ![p] = "received"]
  /\ UNCHANGED copy

\* The process ends at once: no user program, or NewDriver cannot make the
\* connection (bad options, unreadable certificates).
NewDriverFails(p) ==
  /\ phase[p] = "start"
  /\ Disturb("setupFail")
  /\ SetPhase(p, "exit1")
  /\ UNCHANGED <<job, cacheVars, workerVars, callVars>>

\* Run, up to the first call.
ReportRunning(p) ==
  /\ phase[p] = "start"
  /\ SetPhase(p, "waitRunning")
  /\ Send(p)
  /\ UNCHANGED <<job, cacheVars, workerVars, faults>>

\* How the evaluation ended: the program or the walk over the output directory
\* failed, no result file was found, or one was, of whatever size.
ResultsFound(o) ==
  \/ o \in {"failed", "empty", "found"} /\ UNCHANGED faults
  \/ o = "huge" /\ Disturb("huge")

\* The evaluation program ends, its output is read and the last call is sent.
Exec(p) ==
  /\ phase[p] = "executing"
  /\ \E o \in Outcome : ResultsFound(o) /\ outcome' = [outcome EXCEPT ![p] = o]
  /\ phase' = [phase EXCEPT ![p] = "waitComplete"]
  /\ Send(p)
  /\ UNCHANGED <<owner, dying, job, cacheVars, workerVars>>

(***************************************************************************)
(* A call returns.  Any error ends Run and with it the process, which then *)
(* exits with 1; the result of the evaluation has no part in the exit code.*)
(***************************************************************************)
Return(p, ok) ==
  SetPhase(p, IF ~ok THEN "exit1"
              ELSE IF phase[p] = "waitRunning" THEN "executing" ELSE "exit0")

\* The call fails on the client's side: its time is up, or the connection is
\* lost, by itself or because the controller has restarted.
CallFails(p) ==
  /\ phase[p] \in Waiting
  /\ \/ stage[p] = "none" /\ UNCHANGED faults
     \/ stage[p] # "none" /\ Disturb("rpcError")
  /\ Return(p, FALSE)
  /\ Abandon(p)
  /\ UNCHANGED <<job, cacheVars, workerVars>>

DriverNext ==
  \E p \in Pods : \/ NewDriverFails(p)
                  \/ ReportRunning(p)
                  \/ Exec(p)
                  \/ CallFails(p)
=============================================================================
