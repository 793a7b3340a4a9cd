---------------------------- MODULE FlaskServer -----------------------------
(***************************************************************************)
(* The stand-alone evaluation server (server/app.py): HTTP handlers that   *)
(* run in threads of their own, one background thread per submitted task,  *)
(* and the dictionary _jobs they share without a lock.  Every access to    *)
(* the dictionary is a step of its own; the interpreter may switch threads *)
(* between any two.                                                        *)
(***************************************************************************)
EXTENDS Naturals, Sequences

CONSTANTS
  Tasks,        \* identities of the tasks that may be submitted
  PrepareFails  \* directories, files and processes may fail to be made

ASSUME PrepareFailsAssumption == PrepareFails \in BOOLEAN

VARIABLES
  keys,     \* the keys of _jobs, in the order of their insertion
  status,   \* status[t]: _jobs[t]['status'], "absent" when t is not a key
  cancel,   \* cancel[t]: _jobs[t]['cancel']
  error,    \* error[t]: _jobs[t]['error'] holds the error output
  at,       \* at[t]: where the background thread of t stands
  process,  \* process[t]: the evaluation process of t
  reaped,   \* reaped[t]: process.returncode is set
  asking,   \* asking[t]: a job_results request for t has read an error status
  answer,   \* answer[t]: the last answer of job_results or list_jobs for t
  listing   \* a list_jobs request: how far it has come

taskVars   == <<keys, status, cancel, error>>
threadVars == <<at, process, reaped>>
clientVars == <<asking, answer>>
vars       == <<taskVars, threadVars, clientVars, listing>>

Final == {"complete", "error", "cancelled"}

\* How a process may have ended; "killed" from the moment SIGKILL is sent.
Exited == {"exit0", "exit1", "killed"}

\* size is the size of the dictionary when the iteration began, listed the
\* number of keys it has come to.
NoListing == [state |-> "none", size |-> 0, listed |-> 0]

Init ==
  /\ keys = <<>>
  /\ listing = NoListing
  /\ status = [t \in Tasks |-> "absent"]
  /\ cancel = [t \in Tasks |-> FALSE]
  /\ error = [t \in Tasks |-> FALSE]
  /\ at = [t \in Tasks |-> "none"]
  /\ process = [t \in Tasks |-> "none"]
  /\ reaped = [t \in Tasks |-> FALSE]
  /\ asking = [t \in Tasks |-> FALSE]
  /\ answer = [t \in Tasks |-> "none"]

(***************************************************************************)
(* The handlers.  A request for an unknown task is answered with 404 and   *)
(* changes nothing.                                                        *)
(***************************************************************************)
SubmitJob(t) ==
  /\ status[t] = "absent"
  /\ keys' = Append(keys, t)
  /\ status' = [status EXCEPT ![t] = "running"]
  /\ at' = [at EXCEPT ![t] = "prepare"]
  /\ UNCHANGED <<cancel, error, process, reaped, clientVars, listing>>

CancelJob(t) ==
  /\ status[t] # "absent"
  /\ ~cancel[t]
  /\ cancel' = [cancel EXCEPT ![t] = TRUE]
  /\ UNCHANGED <<keys, status, error, threadVars, clientVars, listing>>

\* job_results.  It answers for the status it reads; poll_job, which only
\* answers with the status, is not told apart from it.
JobResults(t) ==
  /\ status[t] \in Final \cup {"running"}
  /\ ~asking[t]
  /\ IF status[t] = "error"
       THEN asking' = [asking EXCEPT ![t] = TRUE] /\ UNCHANGED answer
       ELSE answer' = [answer EXCEPT ![t] = status[t]] /\ UNCHANGED asking
  /\ UNCHANGED <<taskVars, threadVars, listing>>

\* _handle_error reads the error output after the status was read.
HandleError(t) ==
  /\ asking[t]
  /\ asking' = [asking EXCEPT ![t] = FALSE]
  /\ answer' = [answer EXCEPT ![t] = IF error[t] THEN "error" ELSE "noError"]
  /\ UNCHANGED <<taskVars, threadVars, listing>>

\* list_jobs iterates over the keys of the dictionary itself.
ListJobs ==
  /\ listing.state # "on"
  /\ listing' = [state |-> "on", size |-> Len(keys), listed |-> 0]
  /\ UNCHANGED <<taskVars, threadVars, clientVars>>

\* The iterator first looks whether the dictionary has grown, at its end too,
\* and if so raises an error; then it goes to the next key, whose status is read.
ListNext ==
  /\ listing.state = "on"
  /\ IF Len(keys) # listing.size
       THEN listing' = [NoListing EXCEPT !.state = "failed"] /\ UNCHANGED answer
     ELSE IF listing.listed = listing.size
       THEN listing' = [NoListing EXCEPT !.state = "answered"] /\ UNCHANGED answer
       ELSE LET t == keys[listing.listed + 1]
            IN  /\ listing' = [listing EXCEPT !.listed = @ + 1]
                /\ answer' = [answer EXCEPT ![t] = status[t]]
  /\ UNCHANGED <<taskVars, threadVars, asking>>

(***************************************************************************)
(* The background thread.                                                  *)
(***************************************************************************)
Goto(t, to) == at' = [at EXCEPT ![t] = to]

\* The output directory, the two log files and the process are made.
Prepare(t) ==
  /\ at[t] = "prepare"
  /\ Goto(t, "loop")
  /\ process' = [process EXCEPT ![t] = "running"]
  /\ UNCHANGED <<taskVars, reaped, clientVars, listing>>

\* An exception ends the thread: while it prepares the process, or when the
\* error output cannot be opened or read.  Nothing else notices.
ThreadDies(t) ==
  /\ PrepareFails
  /\ \/ at[t] \in {"prepare", "saveError"}
     \/ at[t] = "store" /\ process[t] # "exit0"
  /\ Goto(t, "done")
  /\ UNCHANGED <<taskVars, process, reaped, clientVars, listing>>

\* Mutant of LoopTest: the cancel flag is not looked at.
LoopTestDeaf(t) ==
  /\ at[t] = "loop"
  /\ Goto(t, IF reaped[t] THEN "check" ELSE "wait")
  /\ UNCHANGED <<taskVars, process, reaped, clientVars, listing>>

\* Mutant of LoopTest: the exit code is not looked at.
LoopTestBlind(t) ==
  /\ at[t] = "loop"
  /\ Goto(t, IF cancel[t] THEN "check" ELSE "wait")
  /\ UNCHANGED <<taskVars, process, reaped, clientVars, listing>>

\* The test of the while loop.
LoopTest(t) ==
  /\ at[t] = "loop"
  /\ Goto(t, IF cancel[t] \/ reaped[t] THEN "check" ELSE "wait")
  /\ UNCHANGED <<taskVars, process, reaped, clientVars, listing>>

\* process.wait returns, or raises TimeoutExpired after ten seconds.
Wait(t) ==
  /\ at[t] = "wait"
  /\ reaped' = [reaped EXCEPT ![t] = process[t] \in Exited]
  /\ Goto(t, "loop")
  /\ UNCHANGED <<taskVars, process, clientVars, listing>>

\* Mutant of CheckCancel: the process is left to end by itself.
CheckCancelOnly(t) ==
  /\ at[t] = "check"
  /\ Goto(t, IF cancel[t] THEN "mark" ELSE "leave")
  /\ UNCHANGED <<taskVars, process, reaped, clientVars, listing>>

\* The first look at the cancel flag, and the kill.
CheckCancel(t) ==
  /\ at[t] = "check"
  /\ IF cancel[t]
       THEN /\ process' = [process EXCEPT ![t] =
                             IF @ = "running" THEN "killed" ELSE @]
            /\ Goto(t, "mark")
       ELSE Goto(t, "leave") /\ UNCHANGED process
  /\ UNCHANGED <<taskVars, reaped, clientVars, listing>>

MarkCancelled(t) ==
  /\ at[t] = "mark"
  /\ status' = [status EXCEPT ![t] = "cancelled"]
  /\ Goto(t, "leave")
  /\ UNCHANGED <<keys, cancel, error, process, reaped, clientVars, listing>>

\* The end of the with block waits for the process.
LeavePopen(t) ==
  /\ at[t] = "leave"
  /\ process[t] \in Exited
  /\ reaped' = [reaped EXCEPT ![t] = TRUE]
  /\ Goto(t, "verdict")
  /\ UNCHANGED <<taskVars, process, clientVars, listing>>

\* Mutant of Verdict: the flag is not looked at again.
VerdictAlways(t) ==
  /\ at[t] = "verdict"
  /\ Goto(t, "store")
  /\ UNCHANGED <<taskVars, process, reaped, clientVars, listing>>

\* The second look at the cancel flag.
Verdict(t) ==
  /\ at[t] = "verdict"
  /\ Goto(t, IF cancel[t] THEN "done" ELSE "store")
  /\ UNCHANGED <<taskVars, process, reaped, clientVars, listing>>

\* Mutant of Store: a failure is stored under a name of its own.
StoreFailed(t) ==
  /\ at[t] = "store"
  /\ status' = [status EXCEPT ![t] =
                  IF process[t] = "exit0" THEN "complete" ELSE "failed"]
  /\ Goto(t, "done")
  /\ UNCHANGED <<keys, cancel, error, process, reaped, clientVars, listing>>

Store(t) ==
  /\ at[t] = "store"
  /\ status' = [status EXCEPT ![t] =
                  IF process[t] = "exit0" THEN "complete" ELSE "error"]
  /\ Goto(t, IF process[t] = "exit0" THEN "done" ELSE "saveError")
  /\ UNCHANGED <<keys, cancel, error, process, reaped, clientVars, listing>>

SaveError(t) ==
  /\ at[t] = "saveError"
  /\ error' = [error EXCEPT ![t] = TRUE]
  /\ Goto(t, "done")
  /\ UNCHANGED <<keys, status, cancel, process, reaped, clientVars, listing>>

\* The evaluation process ends by itself.
ProcessEnds(t) ==
  /\ process[t] = "running"
  /\ \E code \in {"exit0", "exit1"} :
       process' = [process EXCEPT ![t] = code]
  /\ UNCHANGED <<taskVars, at, reaped, clientVars, listing>>

BackgroundTask(t) ==
  \/ Prepare(t)
  \/ LoopTest(t)
  \/ Wait(t)
  \/ CheckCancel(t)
  \/ MarkCancelled(t)
  \/ LeavePopen(t)
  \/ Verdict(t)
  \/ Store(t)
  \/ SaveError(t)

Next ==
  \/ \E t \in Tasks : \/ SubmitJob(t)
                      \/ CancelJob(t)
                      \/ JobResults(t)
                      \/ HandleError(t)
                      \/ BackgroundTask(t)
                      \/ ThreadDies(t)
                      \/ ProcessEnds(t)
  \/ ListJobs
  \/ ListNext

Spec == Init /\ [][Next]_vars

\* The threads keep running.  Nothing is said of the evaluation processes.
ThreadFairness == \A t \in Tasks : WF_vars(BackgroundTask(t))

FairSpec == Spec /\ ThreadFairness

\* Every evaluation process ends as well.
EndingSpec == FairSpec /\ \A t \in Tasks : WF_vars(ProcessEnds(t))

-----------------------------------------------------------------------------
\* Every variable has its type.
TypeOK ==
  /\ status \in [Tasks -> Final \cup {"absent", "running"}]
  /\ cancel \in [Tasks -> BOOLEAN]
  /\ error \in [Tasks -> BOOLEAN]
  /\ at \in [Tasks -> {"none", "prepare", "loop", "wait", "check", "mark",
                       "leave", "verdict", "store", "saveError", "done"}]
  /\ process \in [Tasks -> Exited \cup {"none", "running"}]
  /\ reaped \in [Tasks -> BOOLEAN]
  /\ asking \in [Tasks -> BOOLEAN]
  /\ answer \in [Tasks -> Final \cup {"none", "running", "noError"}]
  /\ keys \in Seq(Tasks)
  /\ listing \in [state : {"none", "on", "answered", "failed"},
                  size : Nat, listed : Nat]

\* A client that was told how a task ended is never told anything else: a
\* cancellation that comes late does not change the status of a task that
\* ended, and the end of a killed process not that of a cancelled one.
FinalAnswerStands ==
  [][\A t \in Tasks :
       /\ answer[t] \in {"complete", "cancelled"} => answer'[t] = answer[t]
       /\ answer[t] \in {"error", "noError"}
            => answer'[t] \in {"error", "noError"}]_vars

\* A task is not reported ended while its process runs, so job_results does
\* not serve a result file that is still being written; a complete one ended
\* with exit code 0.
EndedMeansStopped ==
  \A t \in Tasks :
    /\ status[t] \in Final => process[t] \in Exited
    /\ status[t] = "complete" => process[t] = "exit0"

\* The process of a cancelled task is stopped, even one that would never end:
\* the thread looks at the flag every ten seconds.  A process that is started
\* after the cancellation is stopped as well.
CancelStopsProcess ==
  \A t \in Tasks :
    (cancel[t] /\ process[t] = "running") ~> process[t] \in Exited

\* A task whose process ends well gets the status complete, unless it is
\* cancelled: the end is noticed between the timeouts of the wait.
SuccessIsNoticed ==
  \A t \in Tasks :
    process[t] = "exit0" ~> (status[t] = "complete" \/ cancel[t])

\* A cancelled task does not stay "running" for ever: cancel_job tells its
\* caller to "Check job status with poll_job API".
CancelledTaskSettles ==
  \A t \in Tasks : cancel[t] ~> status[t] \in Final
=============================================================================
