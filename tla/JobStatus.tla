----------------------------- MODULE JobStatus ------------------------------
(***************************************************************************)
(* The status of an LMEvalJob.  "Unset" is the absent optional field.  Of  *)
(* the message only its kind is kept, of podName and the two times only    *)
(* whether they are set, of the results the pod that produced them         *)
(* ({} is the empty string).                                               *)
(***************************************************************************)

CONSTANT
  Pods   \* identities of the pods that may be created under the job's name

JobState == {"Unset", "New", "Scheduled", "Running", "Complete", "Cancelled"}

Reason == {"Unset", "NoReason", "Succeeded", "Failed", "Cancelled"}

Message == {"", "running", "completed", "evalError", "createError",
            "podMissing", "terminated"}

Status == [state: JobState, reason: Reason, message: Message,
           podName: BOOLEAN, scheduled: BOOLEAN, completed: BOOLEAN,
           results: SUBSET Pods]

NoStatus == [state |-> "Unset", reason |-> "Unset", message |-> "",
             podName |-> FALSE, scheduled |-> FALSE, completed |-> FALSE,
             results |-> {}]

\* Completed without success.
Failed(st, message) ==
  [st EXCEPT !.state = "Complete", !.reason = "Failed", !.message = message]
=============================================================================
