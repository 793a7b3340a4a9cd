---------------------------- MODULE FlaskProofs -----------------------------
(***************************************************************************)
(* Proofs about FlaskServer, for any set of tasks.                         *)
(***************************************************************************)
EXTENDS FlaskServer, TLAPS

-----------------------------------------------------------------------------
(* The inductive invariant. *)

\* The dictionary: a task has a status as soon as it is a key.
KeysInv ==
  \A t \in Tasks :
    status[t] # "absent" <=> \E i \in 1..Len(keys) : keys[i] = t

\* An iteration over the dictionary has not come further than the size the
\* dictionary had, and the dictionary only grows.
ListingInv ==
  listing.state = "on" =>
    listing.listed <= listing.size /\ listing.size <= Len(keys)

\* What the thread of a task knows of its process at each of its steps.
ProcessInv ==
  \A t \in Tasks :
    /\ at[t] \in {"none", "prepare"} => process[t] = "none"
    /\ at[t] \in {"loop", "wait", "check", "leave"} => process[t] # "none"
    /\ at[t] \in {"mark", "verdict", "store", "saveError"} => process[t] \in Exited
    /\ reaped[t] => process[t] \in Exited

\* The status at each step of the thread.  After a cancelled mark the second
\* look at the flag keeps the thread from storing anything else.
StatusInv ==
  \A t \in Tasks :
    /\ at[t] = "none" <=> status[t] = "absent"
    /\ at[t] \in {"prepare", "loop", "wait", "check", "mark", "store"}
         => status[t] = "running"
    /\ status[t] = "complete" => at[t] = "done" /\ process[t] = "exit0"
    /\ status[t] = "error" => at[t] \in {"saveError", "done"}
    /\ status[t] = "cancelled"
         => at[t] \in {"leave", "verdict", "done"} /\ cancel[t]
    /\ at[t] = "mark" => cancel[t]
    /\ status[t] \in Final => process[t] \in Exited

\* What a client was told of the end of a task is its status.
AnswerInv ==
  \A t \in Tasks :
    /\ asking[t] => status[t] = "error"
    /\ answer[t] \in {"complete", "cancelled"} => status[t] = answer[t]
    /\ answer[t] \in {"error", "noError"} => status[t] = "error"

FlaskInv ==
  TypeOK /\ KeysInv /\ ListingInv /\ ProcessInv /\ StatusInv /\ AnswerInv

-----------------------------------------------------------------------------
(* One lemma per part of the invariant for the steps of one task. *)

\* The steps that are a task's own.
TaskStep(u) ==
  \/ SubmitJob(u) \/ CancelJob(u) \/ JobResults(u) \/ HandleError(u)
  \/ BackgroundTask(u) \/ ThreadDies(u) \/ ProcessEnds(u)

\* They keep the types.
LEMMA TaskTypeOK ==
  ASSUME FlaskInv, NEW u \in Tasks, TaskStep(u)
  PROVE  TypeOK'
<1> USE DEF FlaskInv, TypeOK, Final, Exited, Goto, taskVars, threadVars, clientVars
<1>1. CASE SubmitJob(u)
  BY <1>1 DEF SubmitJob
<1>2. CASE CancelJob(u)
  BY <1>2 DEF CancelJob
<1>3. CASE JobResults(u)
  BY <1>3 DEF JobResults
<1>4. CASE HandleError(u)
  BY <1>4 DEF HandleError
<1>5. CASE Prepare(u)
  BY <1>5 DEF Prepare
<1>6. CASE LoopTest(u)
  BY <1>6 DEF LoopTest
<1>7. CASE Wait(u)
  BY <1>7 DEF Wait
<1>8. CASE CheckCancel(u)
  BY <1>8 DEF CheckCancel
<1>9. CASE MarkCancelled(u)
  BY <1>9 DEF MarkCancelled
<1>10. CASE LeavePopen(u)
  BY <1>10 DEF LeavePopen
<1>11. CASE Verdict(u)
  BY <1>11 DEF Verdict
<1>12. CASE Store(u)
  BY <1>12 DEF Store
<1>13. CASE SaveError(u)
  BY <1>13 DEF SaveError
<1>14. CASE ThreadDies(u)
  BY <1>14 DEF ThreadDies
<1>15. CASE ProcessEnds(u)
  BY <1>15 DEF ProcessEnds
<1> QED
   BY <1>1, <1>2, <1>3, <1>4, <1>5, <1>6, <1>7, <1>8, <1>9, <1>10, <1>11, <1>12,
     <1>13, <1>14, <1>15 DEF TaskStep, BackgroundTask

\* They keep what the threads know of the processes.
LEMMA TaskProcessInv ==
  ASSUME FlaskInv, NEW u \in Tasks, TaskStep(u)
  PROVE  ProcessInv'
<1> USE DEF FlaskInv, TypeOK, ProcessInv, Exited, Goto, taskVars, threadVars, clientVars
<1>1. CASE SubmitJob(u)
  BY <1>1 DEF SubmitJob, StatusInv
<1>2. CASE CancelJob(u)
  BY <1>2 DEF CancelJob
<1>3. CASE JobResults(u)
  BY <1>3 DEF JobResults
<1>4. CASE HandleError(u)
  BY <1>4 DEF HandleError
<1>5. CASE Prepare(u)
  BY <1>5 DEF Prepare
<1>6. CASE LoopTest(u)
  BY <1>6 DEF LoopTest
<1>7. CASE Wait(u)
  BY <1>7 DEF Wait
<1>8. CASE CheckCancel(u)
  BY <1>8 DEF CheckCancel
<1>9. CASE MarkCancelled(u)
  BY <1>9 DEF MarkCancelled
<1>10. CASE LeavePopen(u)
  BY <1>10 DEF LeavePopen
<1>11. CASE Verdict(u)
  BY <1>11 DEF Verdict
<1>12. CASE Store(u)
  BY <1>12 DEF Store
<1>13. CASE SaveError(u)
  BY <1>13 DEF SaveError
<1>14. CASE ThreadDies(u)
  BY <1>14 DEF ThreadDies
<1>15. CASE ProcessEnds(u)
  BY <1>15 DEF ProcessEnds
<1> QED
   BY <1>1, <1>2, <1>3, <1>4, <1>5, <1>6, <1>7, <1>8, <1>9, <1>10, <1>11, <1>12,
     <1>13, <1>14, <1>15 DEF TaskStep, BackgroundTask

\* They keep the status in step with the thread.
LEMMA TaskStatusInv ==
  ASSUME FlaskInv, NEW u \in Tasks, TaskStep(u)
  PROVE  StatusInv'
<1> USE DEF FlaskInv, TypeOK, ProcessInv, StatusInv, Final, Exited, Goto, taskVars,
         threadVars, clientVars
<1>1. CASE SubmitJob(u)
  BY <1>1 DEF SubmitJob
<1>2. CASE CancelJob(u)
  BY <1>2 DEF CancelJob
<1>3. CASE JobResults(u)
  BY <1>3 DEF JobResults
<1>4. CASE HandleError(u)
  BY <1>4 DEF HandleError
<1>5. CASE Prepare(u)
  BY <1>5 DEF Prepare
<1>6. CASE LoopTest(u)
  BY <1>6 DEF LoopTest
<1>7. CASE Wait(u)
  BY <1>7 DEF Wait
<1>8. CASE CheckCancel(u)
  BY <1>8 DEF CheckCancel
<1>9. CASE MarkCancelled(u)
  BY <1>9 DEF MarkCancelled
<1>10. CASE LeavePopen(u)
  BY <1>10 DEF LeavePopen
<1>11. CASE Verdict(u)
  BY <1>11 DEF Verdict
<1>12. CASE Store(u)
  BY <1>12 DEF Store
<1>13. CASE SaveError(u)
  BY <1>13 DEF SaveError
<1>14. CASE ThreadDies(u)
  BY <1>14 DEF ThreadDies
<1>15. CASE ProcessEnds(u)
  BY <1>15 DEF ProcessEnds
<1> QED
   BY <1>1, <1>2, <1>3, <1>4, <1>5, <1>6, <1>7, <1>8, <1>9, <1>10, <1>11, <1>12,
     <1>13, <1>14, <1>15 DEF TaskStep, BackgroundTask

\* They keep the answers and the status of a task that ended in agreement.
LEMMA TaskAnswerInv ==
  ASSUME FlaskInv, NEW u \in Tasks, TaskStep(u)
  PROVE  AnswerInv'
<1> USE DEF FlaskInv, TypeOK, StatusInv, AnswerInv, Final, Goto, taskVars, threadVars,
         clientVars
<1>1. CASE SubmitJob(u)
  BY <1>1 DEF SubmitJob
<1>2. CASE CancelJob(u)
  BY <1>2 DEF CancelJob
<1>3. CASE JobResults(u)
  BY <1>3 DEF JobResults
<1>4. CASE HandleError(u)
  BY <1>4 DEF HandleError
<1>5. CASE Prepare(u)
  BY <1>5 DEF Prepare
<1>6. CASE LoopTest(u)
  BY <1>6 DEF LoopTest
<1>7. CASE Wait(u)
  BY <1>7 DEF Wait
<1>8. CASE CheckCancel(u)
  BY <1>8 DEF CheckCancel
<1>9. CASE MarkCancelled(u)
  BY <1>9 DEF MarkCancelled
<1>10. CASE LeavePopen(u)
  BY <1>10 DEF LeavePopen
<1>11. CASE Verdict(u)
  BY <1>11 DEF Verdict
<1>12. CASE Store(u)
  BY <1>12 DEF Store
<1>13. CASE SaveError(u)
  BY <1>13 DEF SaveError
<1>14. CASE ThreadDies(u)
  BY <1>14 DEF ThreadDies
<1>15. CASE ProcessEnds(u)
  BY <1>15 DEF ProcessEnds
<1> QED
   BY <1>1, <1>2, <1>3, <1>4, <1>5, <1>6, <1>7, <1>8, <1>9, <1>10, <1>11, <1>12,
     <1>13, <1>14, <1>15 DEF TaskStep, BackgroundTask

\* They keep the keys, of which a submission adds one.
LEMMA TaskKeysInv ==
  ASSUME FlaskInv, NEW u \in Tasks, TaskStep(u)
  PROVE  KeysInv' /\ ListingInv'
<1>1. CASE SubmitJob(u)
  <2>1. /\ keys' \in Seq(Tasks)
        /\ Len(keys') = Len(keys) + 1
        /\ keys'[Len(keys) + 1] = u
        /\ \A i \in 1..Len(keys) : keys'[i] = keys[i]
        /\ Len(keys) \in Nat
    BY <1>1 DEF FlaskInv, TypeOK, SubmitJob
  <2>2. ASSUME NEW t \in Tasks
        PROVE  status'[t] # "absent" <=> \E i \in 1..Len(keys') : keys'[i] = t
    <3>1. CASE t = u
      <4>1. status'[t] = "running"
        BY <1>1, <3>1 DEF FlaskInv, TypeOK, SubmitJob
      <4> QED
        BY <2>1, <3>1, <4>1
    <3>2. CASE t # u
      <4>1. status'[t] = status[t]
        BY <1>1, <3>2 DEF FlaskInv, TypeOK, SubmitJob
      <4>2. (\E i \in 1..Len(keys') : keys'[i] = t)
              <=> \E i \in 1..Len(keys) : keys[i] = t
        BY <2>1, <3>2
      <4> QED
        BY <4>1, <4>2 DEF FlaskInv, KeysInv
    <3> QED
      BY <3>1, <3>2
  <2>3. ListingInv'
    BY <1>1, <2>1 DEF FlaskInv, TypeOK, ListingInv, SubmitJob
  <2> QED
    BY <2>1, <2>2, <2>3 DEF KeysInv
<1>2. CASE MarkCancelled(u) \/ Store(u)
  <2>1. /\ UNCHANGED <<keys, listing>>
        /\ \A t \in Tasks : status[t] # "absent" <=> status'[t] # "absent"
    BY <1>2 DEF FlaskInv, TypeOK, StatusInv, MarkCancelled, Store
  <2> QED
    BY <2>1 DEF FlaskInv, KeysInv, ListingInv
<1>3. CASE UNCHANGED <<keys, status, listing>>
  BY <1>3 DEF FlaskInv, KeysInv, ListingInv
<1> QED
  BY <1>1, <1>2, <1>3 DEF TaskStep, BackgroundTask, CancelJob, JobResults, HandleError,
     Prepare, LoopTest, Wait, CheckCancel, LeavePopen, Verdict, SaveError, ThreadDies,
     ProcessEnds, taskVars

-----------------------------------------------------------------------------
(* The steps of a listing. *)

\* The key a listing comes to is a task with a status.
LEMMA ListedKey ==
  ASSUME FlaskInv, listing.state = "on",
         Len(keys) = listing.size, listing.listed # listing.size
  PROVE  /\ keys[listing.listed + 1] \in Tasks
         /\ status[keys[listing.listed + 1]] \in Final \cup {"running"}
<1>1. listing.listed + 1 \in 1..Len(keys)
  BY DEF FlaskInv, TypeOK, ListingInv
<1>2. keys[listing.listed + 1] \in Tasks
  BY <1>1 DEF FlaskInv, TypeOK
<1> QED
  BY <1>1, <1>2 DEF FlaskInv, KeysInv, TypeOK

\* The steps of a listing keep the invariant.
LEMMA ListingSteps ==
  ASSUME FlaskInv, ListJobs \/ ListNext
  PROVE  FlaskInv'
<1>1. UNCHANGED <<taskVars, threadVars, asking>>
  BY DEF ListJobs, ListNext, clientVars
<1>2. KeysInv' /\ ProcessInv' /\ StatusInv'
  BY <1>1 DEF FlaskInv, KeysInv, ProcessInv, StatusInv, taskVars, threadVars
<1>3. ListingInv'
  <2>1. CASE ListJobs
    BY <1>1, <2>1 DEF FlaskInv, TypeOK, ListingInv, ListJobs, taskVars
  <2>2. CASE ListNext
    BY <1>1, <2>2 DEF FlaskInv, TypeOK, ListingInv, ListNext, NoListing, taskVars
  <2> QED
    BY <2>1, <2>2
<1>4. \/ answer' = answer
      \/ \E k \in Tasks : /\ status[k] \in Final \cup {"running"}
                          /\ answer' = [answer EXCEPT ![k] = status[k]]
  BY ListedKey DEF ListJobs, ListNext, clientVars
<1>5. listing' \in [state : {"none", "on", "answered", "failed"},
                    size : Nat, listed : Nat]
  BY DEF FlaskInv, TypeOK, ListJobs, ListNext, NoListing
<1>6. TypeOK'
  BY <1>1, <1>4, <1>5 DEF FlaskInv, TypeOK, taskVars, threadVars, Final
<1>7. AnswerInv'
  BY <1>1, <1>4 DEF FlaskInv, TypeOK, AnswerInv, taskVars, Final
<1> QED
  BY <1>2, <1>3, <1>6, <1>7 DEF FlaskInv

-----------------------------------------------------------------------------
(* The theorems. *)

\* The server starts in a state of the invariant.
LEMMA InitFlask == Init => FlaskInv
<1> SUFFICES ASSUME Init
             PROVE  FlaskInv
  OBVIOUS
<1>1. TypeOK /\ ProcessInv /\ StatusInv /\ AnswerInv
  BY DEF Init, TypeOK, ProcessInv, StatusInv, AnswerInv, NoListing, Final, Exited
<1>2. KeysInv /\ ListingInv
  BY DEF Init, KeysInv, ListingInv, NoListing
<1> QED
  BY <1>1, <1>2 DEF FlaskInv

\* Every step is a task's own or a listing's.
LEMMA NextCases ==
  ASSUME [Next]_vars
  PROVE  \/ \E u \in Tasks : TaskStep(u)
         \/ ListJobs \/ ListNext
         \/ UNCHANGED vars
BY DEF Next, TaskStep

\* Every step keeps the invariant.
LEMMA NextFlask == FlaskInv /\ [Next]_vars => FlaskInv'
<1> SUFFICES ASSUME FlaskInv, [Next]_vars
             PROVE  FlaskInv'
  OBVIOUS
<1>1. ASSUME NEW u \in Tasks, TaskStep(u)
      PROVE  FlaskInv'
  BY <1>1, TaskTypeOK, TaskProcessInv, TaskStatusInv, TaskAnswerInv, TaskKeysInv
     DEF FlaskInv
<1>2. CASE UNCHANGED vars
  BY <1>2 DEF FlaskInv, TypeOK, KeysInv, ListingInv, ProcessInv, StatusInv, AnswerInv,
     vars, taskVars, threadVars, clientVars
<1> QED
  BY <1>1, <1>2, NextCases, ListingSteps

\* The invariant holds throughout.
LEMMA FlaskInvariant == Spec => []FlaskInv
BY InitFlask, NextFlask, PTL DEF Spec

\* Whatever the threads and the requests interleave to, every variable of the
\* server has its type: a listing in particular never comes to a key that is no
\* task and never answers for a task that has no status.
THEOREM FlaskTypes == Spec => []TypeOK
<1>1. FlaskInv => TypeOK
  BY DEF FlaskInv
<1> QED
  BY <1>1, FlaskInvariant, PTL

\* A task is reported ended only once its process has stopped, complete only
\* once it ended with exit code 0, for any number of tasks and cancellations.
THEOREM EndedTasksStopped == Spec => []EndedMeansStopped
<1>1. FlaskInv => EndedMeansStopped
  BY DEF FlaskInv, StatusInv, EndedMeansStopped, Final, Exited
<1> QED
  BY <1>1, FlaskInvariant, PTL

\* A step changes the answer for a task only to its status, or, once its status
\* is error, to one of the two answers for that.
LEMMA AnswerStep ==
  ASSUME FlaskInv, [Next]_vars, NEW t \in Tasks
  PROVE  /\ answer[t] \in {"complete", "cancelled"} => answer'[t] = answer[t]
         /\ answer[t] \in {"error", "noError"} => answer'[t] \in {"error", "noError"}
<1>1. \/ answer'[t] = answer[t]
      \/ answer'[t] = status[t]
      \/ status[t] = "error" /\ answer'[t] \in {"error", "noError"}
  <2>1. ASSUME NEW u \in Tasks, TaskStep(u), answer' # answer
        PROVE  JobResults(u) \/ HandleError(u)
    BY <2>1 DEF TaskStep, BackgroundTask, SubmitJob, CancelJob, Prepare, LoopTest, Wait,
       CheckCancel, MarkCancelled, LeavePopen, Verdict, Store, SaveError, ThreadDies,
       ProcessEnds, clientVars
  <2>2. ASSUME NEW u \in Tasks, JobResults(u)
        PROVE  answer'[t] = answer[t] \/ answer'[t] = status[t]
    BY <2>2 DEF JobResults, FlaskInv, TypeOK
  <2>3. ASSUME NEW u \in Tasks, HandleError(u)
        PROVE  \/ answer'[t] = answer[t]
               \/ status[t] = "error" /\ answer'[t] \in {"error", "noError"}
    BY <2>3 DEF HandleError, FlaskInv, TypeOK, AnswerInv
  <2>4. CASE ListNext
    BY <2>4, ListedKey DEF ListNext, FlaskInv, TypeOK
  <2>5. CASE ListJobs \/ UNCHANGED vars
    BY <2>5 DEF ListJobs, vars, clientVars
  <2> QED
    BY <2>1, <2>2, <2>3, <2>4, <2>5, NextCases
<1> QED
  BY <1>1 DEF FlaskInv, AnswerInv

\* What a client was told of the end of a task is never taken back.
THEOREM AnswersStand == Spec => FinalAnswerStands
<1>1. FlaskInv /\ [Next]_vars =>
        [\A t \in Tasks :
           /\ answer[t] \in {"complete", "cancelled"} => answer'[t] = answer[t]
           /\ answer[t] \in {"error", "noError"}
                => answer'[t] \in {"error", "noError"}]_vars
  <2> SUFFICES ASSUME FlaskInv, [Next]_vars, NEW t \in Tasks
               PROVE  /\ answer[t] \in {"complete", "cancelled"} => answer'[t] = answer[t]
                      /\ answer[t] \in {"error", "noError"}
                           => answer'[t] \in {"error", "noError"}
    OBVIOUS
  <2> QED
    BY AnswerStep
<1> QED
  BY <1>1, FlaskInvariant, PTL DEF Spec, FinalAnswerStands
=============================================================================
