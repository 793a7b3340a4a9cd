---------------------------- MODULE JobLifecycle ----------------------------
(***************************************************************************)
(* What the service promises to those who read a job: the object goes from *)
(* one status to the next in single steps, each of them decided on the     *)
(* status it replaces.  There are no caches, no versions and no calls in   *)
(* flight here; EvalService, where every write is computed from a copy     *)
(* that may be old, is shown to implement it.                              *)
(***************************************************************************)
EXTENDS JobStatus, Naturals

VARIABLES
  present,  \* the job exists
  uid,      \* its incarnation
  fin,      \* it has the finalizer
  del,      \* its deletion was asked for
  st        \* its status

vars == <<present, uid, fin, del, st>>

Absent == ~present /\ ~fin /\ ~del /\ st = NoStatus

Init == Absent /\ uid = 0

Become(new) ==
  /\ present
  /\ st' = new
  /\ UNCHANGED <<present, uid, fin, del>>

Go == Absent' /\ UNCHANGED uid

(***************************************************************************)
(* Users.                                                                  *)
(***************************************************************************)
Create ==
  /\ ~present
  /\ present' = TRUE
  /\ uid' = uid + 1
  /\ fin' = FALSE
  /\ del' = FALSE
  /\ st' = NoStatus

AskDeletion ==
  /\ present
  /\ ~del
  /\ \/ ~fin /\ Go
     \/ fin /\ del' = TRUE /\ UNCHANGED <<present, uid, fin, st>>

AskCancellation == Become([st EXCEPT !.state = "Cancelled"])

(***************************************************************************)
(* The reconciler.  It schedules a job once and only with the finalizer on *)
(* it, ends a job that is scheduled or running, answers the cancellation   *)
(* of a scheduled job, and leaves a job alone that is to be deleted.       *)
(***************************************************************************)
AddFinalizer ==
  /\ present /\ ~del /\ ~st.scheduled
  /\ fin' = TRUE
  /\ UNCHANGED <<present, uid, del, st>>

RemoveFinalizer == present /\ del /\ fin /\ Go

Scheduling(s) ==
  {[s EXCEPT !.state = "Scheduled", !.podName = TRUE, !.scheduled = TRUE],
   Failed(s, "createError")}

Schedule ==
  /\ fin /\ ~del /\ ~st.scheduled
  /\ \E new \in Scheduling(st) : Become(new)

Ending(s) ==
  {[s EXCEPT !.state = "Complete", !.reason = "Succeeded"],
   Failed(s, "terminated"), Failed(s, "podMissing")}

End ==
  /\ ~del /\ st.scheduled /\ st.state \in {"Scheduled", "Running"}
  /\ \E new \in Ending(st) : Become(new)

Stamped(s) == [s EXCEPT !.completed = TRUE]

Stamp ==
  /\ ~del /\ st.scheduled /\ st.state = "Complete"
  /\ Become(Stamped(st))

Cancelling(s) ==
  {[s EXCEPT !.state = "Complete", !.reason = "Cancelled"],
   Failed(s, "podMissing")}

Cancel ==
  /\ ~del /\ st.scheduled /\ st.state = "Cancelled"
  /\ \E new \in Cancelling(st) : Become(new)

(***************************************************************************)
(* The reports of the drivers.  They are taken in any status.              *)
(***************************************************************************)
Reporting(s) ==
  {[s EXCEPT !.state = "Running", !.reason = "NoReason",
             !.message = "running"],
   Failed(s, "evalError")}
  \cup {[s EXCEPT !.state = "Complete", !.reason = "Succeeded",
                  !.message = "completed", !.results = found] :
          found \in {{}} \cup {{p} : p \in Pods}}

Report == \E new \in Reporting(st) : Become(new)

Next ==
  \/ Create
  \/ AskDeletion
  \/ AskCancellation
  \/ AddFinalizer
  \/ RemoveFinalizer
  \/ Schedule
  \/ End
  \/ Stamp
  \/ Cancel
  \/ Report

Spec == Init /\ [][Next]_vars

-----------------------------------------------------------------------------
\* What a reader may conclude from a status: the name of the pod and the
\* schedule time come together, the completion time and the answer to a
\* cancellation are of a job that was scheduled, and a scheduled job has the
\* finalizer.
Coherent ==
  /\ st.podName <=> st.scheduled
  /\ st.state = "Scheduled" => st.scheduled
  /\ st.reason = "Cancelled" => st.scheduled
  /\ st.completed => st.scheduled
  /\ st.scheduled => fin
=============================================================================
