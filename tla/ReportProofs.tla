---------------------------- MODULE ReportProofs ----------------------------
(***************************************************************************)
(* What becomes of the reports of the drivers: a completion that a driver  *)
(* was told is stored is not taken back, and what the job says of success  *)
(* and of results is what its driver reported.                             *)
(***************************************************************************)
EXTENDS PodProofs

USE DEF WriteSent

-----------------------------------------------------------------------------
(* What a step may do. *)

\* The call of the driver in pod p goes on as it was, if at all.
CallKept(p) ==
  \/ stage'[p] = "none"
  \/ stage'[p] = stage[p] /\ copy'[p] = copy[p]
  \/ stage'[p] = "late" /\ WriteSent(p) /\ copy'[p] = copy[p]

\* The driver in pod p does nothing, or ends, or is about to start.
Rests(p) ==
  /\ \/ phase'[p] = phase[p]
     \/ phase[p] = "none" /\ phase'[p] = "pending"
     \/ phase[p] = "pending" /\ phase'[p] \in {"start", "initFailed"}
     \/ phase[p] \in Alive /\ phase'[p] = "exit1"
     \/ phase[p] \in Ended \cup {"pending", "initFailed"} /\ phase'[p] = "gone"
  /\ outcome'[p] = outcome[p]
  /\ CallKept(p)

\* It sends a report.
Sends(p) ==
  /\ stage'[p] = "received"
  /\ \/ /\ phase[p] = "start" /\ phase'[p] = "waitRunning"
        /\ outcome'[p] = outcome[p]
     \/ phase[p] = "executing" /\ phase'[p] = "waitComplete"
  /\ UNCHANGED <<job, podCache>>

\* Its report is merged into a copy of the job.
Reads(p) ==
  /\ phase[p] \in Waiting /\ phase'[p] = phase[p]
  /\ outcome'[p] = outcome[p]
  /\ stage'[p] = "read"
  /\ copy'[p].st = Merged(p, jobCache.st)
  /\ UNCHANGED job

\* It is told that its report is stored.
Acked(p) ==
  /\ phase[p] \in Waiting
  /\ phase'[p] = IF phase[p] = "waitRunning" THEN "executing" ELSE "exit0"
  /\ outcome'[p] = outcome[p]
  /\ WriteSent(p) /\ stage'[p] = "none"
  /\ job.exists
  /\ copy[p].rv = job.rv /\ Fits(copy[p].st) /\ job'.st = copy[p].st

DriverStep(p) == Rests(p) \/ Sends(p) \/ Reads(p) \/ Acked(p)

\* The calls that record what became of the creation of the pod, and those that
\* end a job whose pod has ended or is gone.
ScheduleCalls == {"statusScheduled", "statusCreateFailed"}

EndCalls == {"statusPodGone", "statusFinished"}

\* What a step may do to the status of a job that was there.
StatusStep ==
  (job.exists /\ job'.exists) =>
    \/ /\ job'.st.state \in {job.st.state, "Complete", "Cancelled"}
       /\ job'.st.reason \in {job.st.reason, "Failed", "Cancelled"}
       /\ job'.st.results = job.st.results
    \/ /\ pc \in ScheduleCalls /\ held.rv = job.rv
       /\ held.st.state = "Scheduled"
       /\ job'.st.reason = job.st.reason
       /\ job'.st.results = job.st.results
    \/ /\ pc \in EndCalls /\ held.rv = job.rv
       /\ held.st.reason = "Succeeded"
       /\ job'.st.state = "Complete"
       /\ job'.st.results = job.st.results
    \/ \E p \in Pods : /\ WriteSent(p)
                       /\ copy[p].rv = job.rv /\ Fits(copy[p].st)
                       /\ copy[p].st \in Lifecycle!Reporting(job.st)
                       /\ job'.st = copy[p].st

\* What a step may do to the worker that is about to record the schedule.
ScheduleStep ==
  (pc' \in ScheduleCalls /\ held'.st.state = "Scheduled") =>
    \/ pc \in ScheduleCalls /\ held' = held
    \/ \E p \in Pods : Born(p) /\ phase'[p] = "pending"

\* What a step may do to the worker that goes by the exit code of the pod.
FinishStep ==
  (pc' \in EndCalls /\ held'.st.reason = "Succeeded") =>
    \/ pc \in EndCalls /\ held' = held
    \/ /\ UNCHANGED job
       /\ held'.rv = jobCache.rv
       /\ jobCache.exists
       /\ jobCache.st.state \in {"Scheduled", "Running"}
       /\ podCache.pod # NoPod /\ podCache.main = "exit0"

\* What a step may do to the cached pod.
ViewStep ==
  podCache' = podCache \/ (IsPodView(podCache') /\ UNCHANGED phase)

ReportStep ==
  /\ \A p \in Pods : DriverStep(p)
  /\ StatusStep
  /\ ScheduleStep
  /\ FinishStep
  /\ ViewStep


\* A step that leaves the drivers alone.
LEMMA DriversAlone ==
  ASSUME UNCHANGED <<phase, outcome, stage, copy>>
  PROVE  \A p \in Pods : DriverStep(p)
BY DEF DriverStep, Rests, CallKept

\* A step that leaves the worker and the cached pod alone.
LEMMA ReconcilerAlone ==
  ASSUME UNCHANGED <<pc, held, podCache>>
  PROVE  ScheduleStep /\ FinishStep /\ ViewStep
BY DEF ScheduleStep, FinishStep, ViewStep

\* A step that leaves the status alone.
LEMMA StatusAlone ==
  ASSUME job'.st = job.st
  PROVE  StatusStep
BY DEF StatusStep

\* The handlers take such steps.
LEMMA HandlerReports ==
  ASSUME WorkerInv,
         \/ ReconcileMissing
         \/ HandleDeletion
         \/ HandleNewCR
         \/ CheckScheduledPod
         \/ HandleComplete
         \/ HandleCancel
  PROVE  ReportStep
<1>1. LifecycleInv /\ jobCache \in Job /\ jobCache.st \in Status
  BY DEF WorkerInv, LifecycleInv, VersionInv, TypeOK, Job
<1>2. UNCHANGED <<job, podCache, phase, outcome, stage, copy>>
  BY DEF ReconcileMissing, HandleDeletion, HandleNewCR, CheckScheduledPod,
         HandleComplete, HandleCancel, CheckLater, Start, podVars, cacheVars,
         callVars
<1>3. pc' \notin ScheduleCalls
  BY DEF ReconcileMissing, HandleDeletion, HandleNewCR, CheckScheduledPod,
         HandleComplete, HandleCancel, CheckLater, Start, ScheduleCalls
<1>4. FinishStep
  <2>1. CASE CheckScheduledPod
    <3>1. Fetched = jobCache /\ jobCache.exists
          /\ jobCache.st.state \in {"Scheduled", "Running"}
      BY <1>1, <2>1, FetchedKinds DEF CheckScheduledPod
    <3>2. \/ pc' \notin EndCalls
          \/ /\ podCache.pod # NoPod /\ podCache.main = "exit0"
             /\ held' = [jobCache EXCEPT !.st.state = "Complete",
                                         !.st.reason = "Succeeded"]
          \/ \E m \in {"podMissing", "terminated"} :
               held' = [jobCache EXCEPT !.st = Failed(@, m)]
      BY <2>1, <3>1 DEF CheckScheduledPod, CheckLater, Start, PodFound, EndCalls
    <3>3. [jobCache EXCEPT !.st.state = "Complete",
                           !.st.reason = "Succeeded"].rv = jobCache.rv
      BY <1>1 DEF Job
    <3>4. ASSUME NEW m
          PROVE  [jobCache EXCEPT !.st = Failed(@, m)].st.reason = "Failed"
      <4>1. [jobCache EXCEPT !.st = Failed(@, m)].st = Failed(jobCache.st, m)
        BY <1>1 DEF Job
      <4> QED
        BY <1>1, <4>1 DEF Failed, Status
    <3> QED
      BY <1>2, <3>1, <3>2, <3>3, <3>4 DEF FinishStep
  <2>2. CASE ~CheckScheduledPod
    <3>1. pc' \notin EndCalls
      BY <2>2 DEF ReconcileMissing, HandleDeletion, HandleNewCR,
                  HandleComplete, HandleCancel, Start, EndCalls
    <3> QED
      BY <3>1 DEF FinishStep
  <2> QED
    BY <2>1, <2>2
<1> QED
  BY <1>2, <1>3, <1>4, DriversAlone, StatusAlone
  DEF ReportStep, ScheduleStep, ViewStep

\* What the worker writes, if it is accepted, is a small change of the status.
LEMMA IntentStatus ==
  ASSUME TypeOK, Intent(pc, held, job), Replaced(held),
         pc \in {"statusScheduled", "statusCreateFailed", "statusPodGone",
                 "statusFinished", "statusCompleted", "statusCancelled"}
  PROVE  StatusStep
<1>1. job.st \in Status /\ job'.st = held.st /\ held.rv = job.rv
  BY DEF TypeOK, Job, Replaced
<1>2. CASE pc \in ScheduleCalls
  <2>1. /\ held.st.results = job.st.results
        /\ \/ held.st.reason = job.st.reason /\ held.st.state = "Scheduled"
           \/ held.st.reason = "Failed" /\ held.st.state = "Complete"
    BY <1>1, <1>2
    DEF Intent, Lifecycle!Scheduling, Lifecycle!Failed, Status, ScheduleCalls
  <2> QED
    BY <1>1, <1>2, <2>1 DEF StatusStep
<1>3. CASE pc \in EndCalls
  <2>1. /\ held.st.results = job.st.results
        /\ held.st.reason \in {"Succeeded", "Failed"}
        /\ held.st.state = "Complete"
    BY <1>1, <1>3
    DEF Intent, Lifecycle!Ending, Lifecycle!Failed, Status, EndCalls
  <2> QED
    BY <1>1, <1>3, <2>1 DEF StatusStep
<1>4. CASE pc = "statusCompleted"
  <2>1. /\ held.st.results = job.st.results
        /\ held.st.reason = job.st.reason /\ held.st.state = job.st.state
    BY <1>1, <1>4 DEF Intent, Lifecycle!Stamped, Status
  <2> QED
    BY <1>1, <2>1 DEF StatusStep
<1>5. CASE pc = "statusCancelled"
  <2>1. /\ held.st.results = job.st.results
        /\ held.st.reason \in {"Cancelled", "Failed"}
        /\ held.st.state = "Complete"
    BY <1>1, <1>5 DEF Intent, Lifecycle!Cancelling, Lifecycle!Failed, Status
  <2> QED
    BY <1>1, <2>1 DEF StatusStep
<1> QED
  BY <1>2, <1>3, <1>4, <1>5 DEF ScheduleCalls, EndCalls

\* The calls of the worker take such steps.
LEMMA CallReports ==
  ASSUME WorkerInv, WorkerNext, pc # "idle"
  PROVE  ReportStep
<1>1. LifecycleInv /\ TypeOK /\ held \in Job /\ job \in Job
  BY DEF WorkerInv, LifecycleInv, VersionInv, TypeOK
<1>2. ASSUME NEW at \in {"statusScheduled", "statusCreateFailed", "statusPodGone",
                         "statusFinished", "statusCompleted", "statusCancelled"},
             NEW again, UpdateStatus(at, again)
      PROVE  ReportStep
  <2>1. /\ pc = at /\ pc' = "idle"
        /\ UNCHANGED <<podCache, phase, outcome, stage, copy>>
        /\ job' = job \/ (Replaced(held) /\ Intent(at, held, job))
    BY <1>1, <1>2, WorkerWrite
  <2>2. StatusStep
    BY <1>1, <2>1, IntentStatus, StatusAlone
  <2> QED
    BY <2>1, <2>2, DriversAlone
    DEF ReportStep, ScheduleStep, FinishStep, ViewStep, ScheduleCalls,
        EndCalls
<1>3. ASSUME NEW at \in {"addFinalizer", "removeFinalizer"}, NEW again,
             UpdateObject(at, again)
      PROVE  ReportStep
  <2>1. /\ pc' = "idle"
        /\ UNCHANGED <<podCache, phase, outcome, stage, copy>>
        /\ \E ok \in BOOLEAN : ObjectUpdate(held, ok)
    BY <1>3 DEF UpdateObject, Finish, podVars, cacheVars, callVars
  <2>2. \/ job' = job
        \/ job' = Removed
        \/ job' = [[job EXCEPT !.fin = held.fin] EXCEPT !.rv = job.rv + 1]
    BY <2>1 DEF ObjectUpdate, Write, Stored
  <2>3. ~job'.exists \/ job'.st = job.st
    BY <1>1, <2>2 DEF Removed, NoJob, Job
  <2> QED
    BY <2>1, <2>3, DriversAlone
    DEF ReportStep, ScheduleStep, FinishStep, ViewStep, ScheduleCalls,
        EndCalls, StatusStep
<1>4. CASE CreatePod
  <2>1. /\ pc' \in {"statusScheduled", "statusCreateFailed"}
        /\ UNCHANGED <<job, podCache, outcome, stage, copy>>
        /\ \/ UNCHANGED phase
           \/ \E p \in Pods : /\ phase[p] = "none"
                              /\ phase' = [phase EXCEPT ![p] = "pending"]
        /\ \/ \E p \in Pods : /\ phase[p] = "none"
                              /\ phase' = [phase EXCEPT ![p] = "pending"]
           \/ held' = [held EXCEPT !.st = Failed(@, "createError")]
    BY <1>4 DEF CreatePod, Proceed, PodCreate, NewPod, podVars, cacheVars,
                callVars
  <2>2. \A p \in Pods : \/ phase'[p] = phase[p]
                        \/ phase[p] = "none" /\ phase'[p] = "pending"
    BY <1>1, <2>1 DEF TypeOK
  <2>3. ScheduleStep
    <3>1. [held EXCEPT !.st = Failed(@, "createError")].st.state = "Complete"
      <4>1. [held EXCEPT !.st = Failed(@, "createError")].st
              = Failed(held.st, "createError")
        BY <1>1 DEF Job
      <4> QED
        BY <1>1, <4>1 DEF Failed, Job, Status
    <3> QED
      BY <1>1, <2>1, <3>1 DEF ScheduleStep, Born, TypeOK
  <2>4. \A p \in Pods : DriverStep(p)
    BY <2>1, <2>2 DEF DriverStep, Rests, CallKept
  <2> QED
    BY <2>1, <2>3, <2>4, StatusAlone DEF ReportStep, FinishStep, ViewStep, ScheduleCalls,
        EndCalls
<1>5. CASE DeletePod \/ CancelPod
  <2>1. /\ pc' \in {"removeFinalizer", "idle", "statusCancelled"}
        /\ UNCHANGED <<job, podCache, phase, outcome, stage, copy>>
    BY <1>5 DEF DeletePod, CancelPod, Proceed, Finish, PodDelete, MarkDying,
                podVars, cacheVars, callVars
  <2> QED
    BY <2>1, DriversAlone, StatusAlone
    DEF ReportStep, ScheduleStep, FinishStep, ViewStep, ScheduleCalls,
        EndCalls
<1>6. ~ \E next, h, again : Start(next, h, again)
  BY DEF Start
<1> QED
  BY <1>2, <1>3, <1>4, <1>5, <1>6
  DEF WorkerNext, AddFinalizer, RemoveFinalizer, UpdateCreateFailed,
      UpdateScheduled, UpdatePodGone, UpdateFinished, UpdateCompleted,
      UpdateCancelled, ReconcileMissing, HandleDeletion, HandleNewCR,
      CheckScheduledPod, CheckLater, HandleComplete, HandleCancel

\* The driver is told of success only when its report is stored.
LEMMA AckedStored ==
  ASSUME TypeOK, NEW c \in Job, StatusUpdate(c, TRUE)
  PROVE  job.exists /\ c.rv = job.rv /\ Fits(c.st) /\ job'.st = c.st
<1>1. /\ job.exists /\ c.rv = job.rv /\ Fits(c.st)
      /\ job' = Stored([job EXCEPT !.st = c.st])
  BY DEF StatusUpdate, Write, Accepts
<1>2. [job EXCEPT !.st = c.st].st = c.st
  BY DEF TypeOK, Job
<1>3. [[job EXCEPT !.st = c.st] EXCEPT !.rv = job.rv + 1].st = c.st
  BY DEF TypeOK, Job
<1> QED
  BY <1>1, <1>2, <1>3 DEF Stored

\* The status server takes such steps.
LEMMA ServerReports == WorkerInv /\ ServerNext => ReportStep
<1> SUFFICES ASSUME WorkerInv, NEW p \in Pods,
                    \/ GetForUpdate(p)
                    \/ PutStatus(p)
                    \/ PutLate(p)
                    \/ DropLate(p)
             PROVE  ReportStep
  BY DEF ServerNext
<1>1. /\ LifecycleInv /\ TypeOK /\ CallsHaveCallers
      /\ phase \in [Pods -> Phase] /\ outcome \in [Pods -> Outcome]
      /\ stage \in [Pods -> CallStage] /\ copy \in [Pods -> Job]
      /\ jobCache \in Job
  BY DEF WorkerInv, LifecycleInv, VersionInv, TypeOK
<1>2. ScheduleStep /\ FinishStep /\ ViewStep
  <2>1. UNCHANGED <<pc, held, podCache>>
    BY DEF GetForUpdate, PutStatus, PutLate, DropLate, cacheVars, workerVars
  <2> QED
    BY <2>1, ReconcilerAlone
<1>3. StatusStep
  <2>1. CASE PutStatus(p) \/ PutLate(p)
    BY <1>1, <2>1, ServerWrite, StatusAlone
    DEF Replaced, StatusStep, PutStatus, PutLate
  <2>2. CASE GetForUpdate(p) \/ DropLate(p)
    BY <2>2, StatusAlone DEF GetForUpdate, DropLate
  <2> QED
    BY <2>1, <2>2
<1>4. UNCHANGED outcome
  BY DEF GetForUpdate, PutStatus, PutLate, DropLate, podVars, Return, SetPhase
<1>5. ASSUME NEW q \in Pods, q # p
      PROVE  Rests(q)
  <2>1. phase'[q] = phase[q] /\ stage'[q] = stage[q] /\ copy'[q] = copy[q]
    <3>1. CASE GetForUpdate(p)
      BY <1>1, <1>5, <3>1 DEF GetForUpdate, podVars, Return, SetPhase
    <3>2. CASE PutStatus(p)
      BY <1>1, <1>5, <3>2 DEF PutStatus, EndCall, Return, SetPhase
    <3>3. CASE PutLate(p) \/ DropLate(p)
      BY <1>1, <1>5, <3>3 DEF PutLate, DropLate, EndCall, podVars
    <3> QED
      BY <3>1, <3>2, <3>3
  <2> QED
    BY <1>4, <2>1 DEF Rests, CallKept
<1>6. DriverStep(p)
  <2>1. CASE GetForUpdate(p)
    <3>1. phase[p] \in Waiting
      BY <1>1, <2>1 DEF GetForUpdate, CallsHaveCallers
    <3>2. CASE jobCache.exists
      <4>1. /\ stage'[p] = "read" /\ UNCHANGED <<job, phase>>
            /\ copy'[p] = [jobCache EXCEPT !.st = Merged(p, jobCache.st)]
        BY <1>1, <2>1, <3>2 DEF GetForUpdate, podVars
      <4>2. copy'[p].st = Merged(p, jobCache.st)
        BY <1>1, <4>1 DEF Job
      <4> QED
        BY <1>4, <3>1, <4>1, <4>2 DEF DriverStep, Reads
    <3>3. CASE ~jobCache.exists
      <4>1. stage'[p] = "none" /\ phase'[p] = "exit1"
        BY <1>1, <2>1, <3>3 DEF GetForUpdate, Return, SetPhase
      <4> QED
        BY <1>4, <3>1, <4>1 DEF DriverStep, Rests, CallKept, Waiting, Alive
    <3> QED
      BY <3>2, <3>3
  <2>2. CASE PutStatus(p)
    <3>1. /\ phase[p] \in Waiting /\ WriteSent(p) /\ stage'[p] = "none"
      BY <1>1, <2>2 DEF PutStatus, CallsHaveCallers, EndCall
    <3>2. CASE StatusUpdate(copy[p], TRUE) /\ Return(p, TRUE)
      <4>1. /\ job.exists /\ copy[p].rv = job.rv /\ Fits(copy[p].st)
            /\ job'.st = copy[p].st
        BY <1>1, <3>2, AckedStored
      <4>2. phase'[p] = IF phase[p] = "waitRunning" THEN "executing" ELSE "exit0"
        BY <1>1, <3>2 DEF Return, SetPhase
      <4> QED
        BY <1>4, <3>1, <4>1, <4>2 DEF DriverStep, Acked
    <3>3. CASE Return(p, FALSE)
      <4>1. phase'[p] = "exit1"
        BY <1>1, <3>3 DEF Return, SetPhase
      <4> QED
        BY <1>4, <3>1, <4>1 DEF DriverStep, Rests, CallKept, Waiting, Alive
    <3> QED
      BY <2>2, <3>2, <3>3 DEF PutStatus
  <2>3. CASE PutLate(p) \/ DropLate(p)
    <3>1. stage'[p] = "none" /\ UNCHANGED phase
      BY <1>1, <2>3 DEF PutLate, DropLate, EndCall, podVars
    <3> QED
      BY <1>4, <3>1 DEF DriverStep, Rests, CallKept
  <2> QED
    BY <2>1, <2>2, <2>3
<1> QED
  BY <1>2, <1>3, <1>5, <1>6 DEF ReportStep, DriverStep

\* The drivers and the kubelet take such steps.
LEMMA KubeletReports ==
  ASSUME WorkerInv, NEW p \in Pods,
         \/ NewDriverFails(p)
         \/ ReportRunning(p)
         \/ Exec(p)
         \/ CallFails(p)
         \/ StartMain(p)
         \/ FailInit(p)
         \/ KillMain(p)
         \/ RemovePod(p)
         \/ EvictPod(p)
         \/ CollectPod(p)
  PROVE  ReportStep
<1> USE DEF podVars, cacheVars, workerVars, callVars
<1>1. /\ phase \in [Pods -> Phase] /\ outcome \in [Pods -> Outcome]
      /\ stage \in [Pods -> CallStage]
  BY DEF WorkerInv, LifecycleInv, VersionInv, TypeOK
<1>2. UNCHANGED <<job, podCache, pc, held, copy>>
  BY DEF NewDriverFails, ReportRunning, Exec, CallFails, StartMain, FailInit,
         KillMain, RemovePod, EvictPod, CollectPod, SetPhase, Return, MarkDying,
         Send, Abandon
<1>3. StatusStep /\ ScheduleStep /\ FinishStep /\ ViewStep
  BY <1>2, StatusAlone, ReconcilerAlone
<1>4. CASE EvictPod(p) \/ CollectPod(p)
  <2>1. UNCHANGED <<phase, outcome, stage>>
    BY <1>4 DEF EvictPod, CollectPod, MarkDying
  <2> QED
    BY <1>2, <1>3, <2>1, DriversAlone DEF ReportStep
<1>5. CASE NewDriverFails(p) \/ StartMain(p) \/ FailInit(p) \/ RemovePod(p)
  <2>1. /\ UNCHANGED <<outcome, stage>>
        /\ \/ phase[p] = "pending" /\ phase'[p] \in {"start", "initFailed"}
           \/ phase[p] \in Alive /\ phase'[p] = "exit1"
           \/ /\ phase[p] \in Ended \cup {"pending", "initFailed"}
              /\ phase'[p] = "gone"
        /\ \A q \in Pods \ {p} : phase'[q] = phase[q]
    BY <1>1, <1>5 DEF NewDriverFails, StartMain, FailInit, RemovePod, SetPhase,
                      Alive
  <2>2. ASSUME NEW q \in Pods PROVE Rests(q)
    BY <1>2, <2>1 DEF Rests, CallKept
  <2> QED
    BY <1>3, <2>2 DEF ReportStep, DriverStep
<1>6. CASE CallFails(p) \/ KillMain(p)
  <2>1. /\ UNCHANGED outcome
        /\ phase[p] \in Alive /\ phase'[p] = "exit1"
        /\ stage'[p] = IF stage[p] = "read" THEN "late" ELSE "none"
        /\ \A q \in Pods \ {p} : phase'[q] = phase[q] /\ stage'[q] = stage[q]
    BY <1>1, <1>6 DEF CallFails, KillMain, Return, SetPhase, Abandon,
                      Waiting, Alive
  <2>2. ASSUME NEW q \in Pods PROVE Rests(q)
    BY <1>2, <2>1 DEF Rests, CallKept
  <2> QED
    BY <1>3, <2>2 DEF ReportStep, DriverStep
<1>7. CASE ReportRunning(p) \/ Exec(p)
  <2>1. /\ stage'[p] = "received"
        /\ \/ /\ phase[p] = "start" /\ phase'[p] = "waitRunning"
              /\ outcome'[p] = outcome[p]
           \/ phase[p] = "executing" /\ phase'[p] = "waitComplete"
        /\ \A q \in Pods \ {p} : /\ phase'[q] = phase[q] /\ stage'[q] = stage[q]
                                 /\ outcome'[q] = outcome[q]
    BY <1>1, <1>7 DEF ReportRunning, Exec, SetPhase, Send
  <2>2. ASSUME NEW q \in Pods \ {p} PROVE Rests(q)
    BY <1>2, <2>1 DEF Rests, CallKept
  <2>3. Sends(p)
    BY <1>2, <2>1 DEF Sends
  <2> QED
    BY <1>3, <2>2, <2>3 DEF ReportStep, DriverStep
<1> QED
  BY <1>4, <1>5, <1>6, <1>7

\* The users take such steps.
LEMMA UserReports ==
  ASSUME WorkerInv, CreateJob \/ CancelJob \/ EditJob \/ DeleteJob
  PROVE  ReportStep
<1>1. job \in Job /\ job.st \in Status
  BY DEF WorkerInv, LifecycleInv, VersionInv, TypeOK, Job
<1>2. UNCHANGED <<podCache, pc, held, phase, outcome, stage, copy>>
  BY DEF CreateJob, CancelJob, EditJob, DeleteJob, podVars, cacheVars,
         workerVars, callVars
<1>3. StatusStep
  <2>1. CASE CreateJob
    BY <2>1 DEF CreateJob, StatusStep
  <2>2. CASE CancelJob
    <3>1. /\ job'.st.state = "Cancelled" /\ job'.st.reason = job.st.reason
          /\ job'.st.results = job.st.results
      BY <1>1, <2>2 DEF CancelJob, Job, Status
    <3> QED
      BY <3>1 DEF StatusStep
  <2>3. CASE EditJob
    BY <1>1, <2>3, StatusAlone DEF EditJob, Job
  <2>4. CASE DeleteJob
    <3>1. ~job'.exists \/ job'.st = job.st
      BY <1>1, <2>4 DEF DeleteJob, Removed, NoJob, Job
    <3> QED
      BY <3>1 DEF StatusStep
  <2> QED
    BY <2>1, <2>2, <2>3, <2>4
<1> QED
  BY <1>2, <1>3, DriversAlone, ReconcilerAlone DEF ReportStep

\* The informers and a restart of the controller take such steps.
LEMMA CacheReports ==
  ASSUME WorkerInv, SyncJob \/ SyncPod \/ Resync \/ Restart
  PROVE  ReportStep
<1> USE DEF podVars, cacheVars, callVars
<1>1. /\ UNCHANGED <<job, phase, outcome>>
      /\ pc' = "idle" \/ UNCHANGED <<pc, held>>
      /\ podCache' = podCache \/ IsPodView(podCache')
  BY DEF SyncJob, SyncPod, Resync, Restart
<1>2. StatusStep /\ ScheduleStep /\ FinishStep /\ ViewStep
  BY <1>1, StatusAlone
  DEF ScheduleStep, FinishStep, ViewStep, ScheduleCalls, EndCalls
<1>3. CASE SyncJob \/ SyncPod \/ Resync
  <2>1. UNCHANGED <<stage, copy>>
    BY <1>3 DEF SyncJob, SyncPod, Resync
  <2> QED
    BY <1>1, <1>2, <2>1, DriversAlone DEF ReportStep
<1>4. CASE Restart
  <2>1. ASSUME NEW p \in Pods
        PROVE  CallKept(p)
    BY <1>4 DEF Restart, CallKept
  <2> QED
    BY <1>1, <1>2, <2>1 DEF ReportStep, DriverStep, Rests
<1> QED
  BY <1>3, <1>4

\* Every step, also one of something else, is such a step.
LEMMA NextReports == WorkerInv /\ [Next]_vars => ReportStep
<1> SUFFICES ASSUME WorkerInv, [Next]_vars PROVE ReportStep
  OBVIOUS
<1>1. CASE WorkerNext
  <2>1. CASE pc = "idle"
    BY <1>1, <2>1, HandlerReports
    DEF WorkerNext, AddFinalizer, RemoveFinalizer, UpdateCreateFailed,
        UpdateScheduled, UpdatePodGone, UpdateFinished, UpdateCompleted,
        UpdateCancelled, CreatePod, DeletePod, CancelPod, UpdateObject,
        UpdateStatus
  <2> QED
    BY <1>1, <2>1, CallReports
<1>2. CASE ServerNext
  BY <1>2, ServerReports
<1>3. CASE DriverNext
  BY <1>3, KubeletReports DEF DriverNext
<1>4. CASE ClusterNext
  BY <1>4, KubeletReports, UserReports, CacheReports DEF ClusterNext
<1>5. CASE Restart
  BY <1>5, CacheReports
<1>6. CASE UNCHANGED vars
  <2>1. UNCHANGED <<job, podCache, pc, held, phase, outcome, stage, copy>>
    BY <1>6 DEF vars, podVars, cacheVars, workerVars, callVars
  <2> QED
    BY <2>1, DriversAlone, ReconcilerAlone, StatusAlone DEF ReportStep
<1> QED
  BY <1>1, <1>2, <1>3, <1>4, <1>5, <1>6 DEF Next

-----------------------------------------------------------------------------
(* A stored completion is not taken back. *)

\* The report in a call is that of the driver's phase, and a driver that is not
\* waiting for an answer has no call.
CallsMatch ==
  \A p \in Pods :
    /\ phase[p] \in {"executing", "exit0"} => stage[p] = "none"
    /\ (WriteSent(p) /\ phase[p] = "waitRunning") => copy[p].st.state = "Running"
    /\ (WriteSent(p) /\ phase[p] = "waitComplete")
         => copy[p].st.state = "Complete"

\* The writes, other than the report of pod p, that could take the job back and
\* are of its current version.
BackwardWrite(p) ==
  \/ /\ pc \in ScheduleCalls /\ held.st.state = "Scheduled"
     /\ held.rv = job.rv
  \/ \E q \in Pods \ {p} : WriteSent(q) /\ copy[q].rv = job.rv

\* Each report of a driver that is stored makes the older writes out of date:
\* the first one unless it changed nothing, and then the second one does.
OlderRefused ==
  \A p \in Pods :
    /\ (phase[p] \in {"executing", "waitComplete"} /\ BackwardWrite(p))
         => job.st.state = "Running"
    /\ phase[p] = "exit0" => ~BackwardWrite(p)

AckInv == WorkerInv /\ CallsMatch /\ OlderRefused /\ AckedReportSticks

\* The calls go on matching the phases.
LEMMA NextCallsMatch ==
  ASSUME WorkerInv, CallsMatch, ReportStep
  PROVE  CallsMatch'
<1> SUFFICES ASSUME NEW p \in Pods
             PROVE  /\ phase'[p] \in {"executing", "exit0"} => stage'[p] = "none"
                    /\ (WriteSent(p)' /\ phase'[p] = "waitRunning")
                         => copy'[p].st.state = "Running"
                    /\ (WriteSent(p)' /\ phase'[p] = "waitComplete")
                         => copy'[p].st.state = "Complete"
  BY DEF CallsMatch
<1>1. CASE Rests(p)
  BY <1>1 DEF Rests, CallKept, CallsMatch
<1>2. CASE Sends(p)
  BY <1>2 DEF Sends
<1>3. CASE Reads(p)
  <2>1. jobCache.st \in Status
    BY DEF WorkerInv, LifecycleInv, VersionInv, TypeOK, Job
  <2>2. Merged(p, jobCache.st).state = Report(p).state
    BY <2>1 DEF Merged, Status
  <2>3. Report(p).state = IF phase[p] = "waitRunning" THEN "Running" ELSE "Complete"
    BY DEF Report
  <2> QED
    BY <1>3, <2>2, <2>3 DEF Reads, Waiting
<1>4. CASE Acked(p)
  BY <1>4 DEF Acked, Waiting
<1> QED
  BY <1>1, <1>2, <1>3, <1>4 DEF ReportStep, DriverStep

\* A write that could take the job back is an old one: as long as the pod is
\* there no other driver reports and no pod is created.
LEMMA BackwardIsOld ==
  ASSUME WorkerInv, WorkerInv', Steps, PodsStep, ReportStep,
         NEW p \in Pods, phase'[p] \in {"executing", "waitComplete", "exit0"},
         BackwardWrite(p)'
  PROVE  BackwardWrite(p) /\ job' = job
<1>1. /\ job.rv \in Nat /\ held.rv \in Nat
      /\ \A q \in Pods : copy[q].rv \in Nat
  BY DEF WorkerInv, LifecycleInv, VersionInv, TypeOK, Job
<1>2. job' = job \/ job'.rv = job.rv + 1
  BY DEF Steps, JobStep
<1>3. /\ pc # "idle" => held.rv <= job.rv
      /\ \A q \in Pods : WriteSent(q) => copy[q].rv <= job.rv
  BY DEF WorkerInv, LifecycleInv, VersionInv, CopiesAreVersions, IsVersion
<1>4. CASE /\ pc' \in ScheduleCalls /\ held'.st.state = "Scheduled"
           /\ held'.rv = job'.rv
  <2>1. ASSUME NEW r \in Pods, Born(r), phase'[r] = "pending" PROVE FALSE
    <3>1. /\ \A q \in Pods : ~PodExists(q)
          /\ \A q \in Pods \ {r} : phase'[q] = phase[q]
      BY <2>1 DEF PodsStep, PodStep
    <3> QED
      BY <2>1, <3>1 DEF PodExists
  <2>2. pc \in ScheduleCalls /\ held' = held
    BY <1>4, <2>1 DEF ReportStep, ScheduleStep
  <2>3. job' = job
    BY <1>1, <1>2, <1>3, <1>4, <2>2 DEF ScheduleCalls
  <2> QED
    BY <1>4, <2>2, <2>3 DEF BackwardWrite
<1>5. ASSUME NEW q \in Pods \ {p}, WriteSent(q)', copy'[q].rv = job'.rv
      PROVE  BackwardWrite(p) /\ job' = job
  <2>1. ~PodExists(q)'
    <3>1. PodExists(p)'
      BY DEF PodExists
    <3> QED
      BY <1>5, <3>1 DEF WorkerInv, OnePod
  <2>2. ~Reads(q) /\ ~Sends(q) /\ ~Acked(q)
    BY <1>5, <2>1 DEF Reads, Sends, Acked, PodExists, Waiting
  <2>3. WriteSent(q) /\ copy'[q] = copy[q]
    BY <1>5, <2>2 DEF ReportStep, DriverStep, Rests, CallKept
  <2>4. job' = job
    BY <1>1, <1>2, <1>3, <1>5, <2>3
  <2> QED
    BY <1>5, <2>3, <2>4 DEF BackwardWrite
<1> QED
  BY <1>4, <1>5 DEF BackwardWrite

\* Every step keeps the invariant.
LEMMA NextAck == AckInv /\ [Next]_vars => AckInv'
<1> SUFFICES ASSUME AckInv, [Next]_vars PROVE AckInv'
  OBVIOUS
<1>1. WorkerInv /\ WorkerInv' /\ Steps /\ PodsStep /\ ReportStep
  BY NextWorker, NextReports DEF AckInv
<1>2. CallsMatch /\ CallsMatch' /\ OlderRefused /\ AckedReportSticks
  BY <1>1, NextCallsMatch DEF AckInv
<1>3. ASSUME NEW p \in Pods, Acked(p)
      PROVE  \/ /\ phase[p] = "waitRunning" /\ phase'[p] = "executing"
                /\ job'.st.state = "Running"
             \/ /\ phase[p] = "waitComplete" /\ phase'[p] = "exit0"
                /\ job'.st.state = "Complete"
  BY <1>2, <1>3 DEF Acked, CallsMatch, Waiting
<1>4. ASSUME NEW p \in Pods, DriverStep(p),
             phase'[p] \in {"executing", "waitComplete"}
      PROVE  \/ phase[p] \in {"executing", "waitComplete"}
             \/ job'.st.state = "Running"
  BY <1>3, <1>4 DEF DriverStep, Rests, Sends, Reads
<1>5. ASSUME NEW p \in Pods, DriverStep(p), phase'[p] = "exit0"
      PROVE  \/ phase[p] = "exit0"
             \/ phase[p] = "waitComplete" /\ job'.st.state = "Complete"
  BY <1>3, <1>5 DEF DriverStep, Rests, Sends, Reads
<1>6. OlderRefused'
  <2>1. ASSUME NEW p \in Pods, phase'[p] \in {"executing", "waitComplete"},
               BackwardWrite(p)'
        PROVE  job'.st.state = "Running"
    BY <1>1, <1>2, <1>4, <2>1, BackwardIsOld DEF OlderRefused, ReportStep
  <2>2. ASSUME NEW p \in Pods, phase'[p] = "exit0", BackwardWrite(p)'
        PROVE  FALSE
    BY <1>1, <1>2, <1>5, <2>2, BackwardIsOld DEF OlderRefused, ReportStep
  <2> QED
    BY <2>1, <2>2 DEF OlderRefused
<1>7. AckedReportSticks'
  <2> SUFFICES ASSUME NEW p \in Pods, phase'[p] = "exit0", phase[p] = "exit0",
                      owner'[p] = job'.uid, job'.exists
               PROVE  job'.st.state \in {"Complete", "Cancelled"}
    BY <1>1, <1>5 DEF AckedReportSticks, ReportStep
  <2>1. owner'[p] = owner[p]
    BY <1>1 DEF PodsStep, PodStep, Born
  <2>2. job.exists /\ job'.uid = job.uid
    <3>1. owner[p] <= job.uid /\ owner[p] \in Nat /\ job.uid \in Nat
      BY <1>1 DEF WorkerInv, LifecycleInv, VersionInv, TypeOK, Job,
                  OwnersAreKnown
    <3>2. job'.uid # job.uid + 1
      BY <2>1, <3>1
    <3> QED
      BY <1>1, <3>2 DEF Steps, JobStep
  <2>3. job.st.state \in {"Complete", "Cancelled"}
    BY <1>2, <2>1, <2>2 DEF AckedReportSticks
  <2>4. ~BackwardWrite(p) /\ ~WriteSent(p)
    BY <1>2 DEF OlderRefused, CallsMatch
  <2>5. ~ \E q \in Pods : WriteSent(q) /\ copy[q].rv = job.rv
    BY <2>4 DEF BackwardWrite
  <2> QED
    BY <1>1, <2>2, <2>3, <2>4, <2>5 DEF ReportStep, StatusStep, BackwardWrite
<1> QED
  BY <1>1, <1>2, <1>6, <1>7 DEF AckInv

\* At the start there is no driver.
LEMMA InitAck == Init => AckInv
<1> SUFFICES ASSUME Init PROVE AckInv
  OBVIOUS
<1>1. WorkerInv /\ phase = [p \in Pods |-> "none"]
      /\ stage = [p \in Pods |-> "none"]
  BY InitWorker DEF Init, ClusterInit
<1> QED
  BY <1>1 DEF AckInv, CallsMatch, OlderRefused, AckedReportSticks

\* In every behaviour, whatever pods come after each other under the name and
\* whatever is lost or delayed, a job whose driver was told that its completion
\* is stored is complete or cancelled as long as the pod is there: of the two
\* reports of a driver at least one changes the job, and every write that was
\* computed before is refused from then on.
THEOREM AcksHold == Spec => []AckedReportSticks
<1>1. AckInv => AckedReportSticks
  BY DEF AckInv
<1> QED
  BY <1>1, InitAck, NextAck, PTL DEF Spec

-----------------------------------------------------------------------------
(* What the job says of success and of results.  From here on the name of the *)
(* job is used once and no one but the service deletes its pod, so that there *)
(* is one pod in all.                                                         *)

\* There is one job, and the pods are its own.
OneJob ==
  /\ job.uid <= MaxJobs
  /\ job.exists => job.uid > 0
  /\ \A p \in Pods : phase[p] # "none" => owner[p] > 0

\* An evaluation that has not ended has no outcome, and a pod that has not been
\* created has no call.
OutcomesLast ==
  \A p \in Pods :
    /\ phase[p] \in {"none", "pending", "start", "waitRunning", "executing"}
         => outcome[p] = "none"
    /\ phase[p] = "none" => stage[p] = "none"

\* A report of success is that of a driver whose evaluation succeeded, and it
\* carries what that driver found; and such a driver reports nothing else.
ReportsTrue ==
  \A p \in Pods :
    /\ (WriteSent(p) /\ copy[p].st.reason = "Succeeded") =>
         /\ outcome[p] \in SuccessOutcome
         /\ copy[p].st.results = {q \in {p} : outcome[q] \in {"found", "huge"}}
    /\ (WriteSent(p) /\ phase[p] = "waitComplete"
          /\ outcome[p] \in SuccessOutcome) => copy[p].st.reason = "Succeeded"

\* The results in the job are those of an evaluation that found some.
FoundResults ==
  job.exists => \A p \in job.st.results : outcome[p] = "found"

\* The pod has been seen to exit with 0.
Exited(p) == phase[p] = "exit0" \/ podCache = [pod |-> p, main |-> "exit0"]

\* From then on the job is complete or cancelled, also when the pod is gone.
ExitedStays ==
  \A p \in Pods : Exited(p) =>
    /\ phase[p] \in {"exit0", "gone"}
    /\ stage[p] = "none"
    /\ job.exists => job.st.state \in {"Complete", "Cancelled"}
    /\ ~BackwardWrite(p)

\* So a worker that goes by the exit code has an old copy of the job: the
\* success it is about to write is refused.
ExitCodeRefused ==
  (pc \in EndCalls /\ held.st.reason = "Succeeded") => held.rv # job.rv

SuccessInv ==
  /\ OnceInv
  /\ AckInv
  /\ OneJob
  /\ OutcomesLast
  /\ ReportsTrue
  /\ FoundResults
  /\ ExitedStays
  /\ ExitCodeRefused
  /\ ResultsKept
  /\ NoFalseSuccess

\* Only a user brings a job into being.
LEMMA OnlyUsersCreate ==
  ASSUME [Next]_vars, ~job.exists
  PROVE  job' = job \/ CreateJob
<1>1. ASSUME NEW c, NEW ok, StatusUpdate(c, ok) \/ ObjectUpdate(c, ok)
      PROVE  job' = job
  BY <1>1 DEF StatusUpdate, ObjectUpdate, Write, Accepts
<1>2. CASE WorkerNext
  <2>1. ASSUME NEW next, NEW h, NEW again, Start(next, h, again)
        PROVE  job' = job
    BY <2>1 DEF Start
  <2>2. ASSUME NEW at, NEW again, UpdateStatus(at, again) \/ UpdateObject(at, again)
        PROVE  job' = job
    BY <1>1, <2>2 DEF UpdateStatus, UpdateObject
  <2>3. CASE CreatePod \/ DeletePod \/ CancelPod
    BY <2>3 DEF CreatePod, DeletePod, CancelPod
  <2> QED
    BY <1>2, <2>1, <2>2, <2>3
    DEF WorkerNext, AddFinalizer, RemoveFinalizer, UpdateCreateFailed,
        UpdateScheduled, UpdatePodGone, UpdateFinished, UpdateCompleted,
        UpdateCancelled, ReconcileMissing, HandleDeletion, HandleNewCR,
        CheckScheduledPod, CheckLater, HandleComplete, HandleCancel
<1>3. CASE ServerNext
  BY <1>1, <1>3 DEF ServerNext, GetForUpdate, PutStatus, PutLate, DropLate
<1>4. CASE DriverNext
  BY <1>4 DEF DriverNext, NewDriverFails, ReportRunning, Exec, CallFails
<1>5. CASE ClusterNext
  BY <1>5 DEF ClusterNext, SyncJob, SyncPod, Resync, CancelJob, EditJob, DeleteJob,
              StartMain, FailInit, KillMain, RemovePod, EvictPod, CollectPod
<1>6. CASE Restart \/ UNCHANGED vars
  BY <1>6 DEF Restart, vars
<1> QED
  BY <1>2, <1>3, <1>4, <1>5, <1>6 DEF Next

\* A new job has no results and no reason.
LEMMA CreatedEmpty ==
  ASSUME CreateJob, TypeOK
  PROVE  /\ job'.uid = job.uid + 1 /\ job'.uid <= MaxJobs
         /\ job'.st.results = {} /\ job'.st.reason = "Unset"
<1>1. job'.uid = job.uid + 1 /\ job'.st = NoStatus
  BY DEF CreateJob, NoJob
<1>2. job.uid \in Nat /\ job.uid < MaxJobs
  BY DEF CreateJob, TypeOK, Job
<1>3. job'.uid <= MaxJobs
  BY <1>1, <1>2, BoundsAssumption
<1>4. NoStatus.results = {} /\ NoStatus.reason = "Unset"
  BY DEF NoStatus
<1> QED
  BY <1>1, <1>3, <1>4

\* The assumptions of this section.
OnePodInAll == MaxJobs <= 1 /\ "evict" \notin Kinds

\* All that a step from a state of the invariant does.
Stepping ==
  /\ SuccessInv /\ OnceInv' /\ AckInv'
  /\ WorkerInv /\ WorkerInv' /\ TypeOK /\ TypeOK'
  /\ Steps /\ PodsStep /\ ReportStep
  /\ ~job.exists => job' = job \/ CreateJob

\* Every step is such a step.
LEMMA NextStepping ==
  ASSUME OnePodInAll, SuccessInv, [Next]_vars
  PROVE  Stepping
<1>1. OnceInv' /\ AckInv'
  BY NextOnce, NextAck DEF SuccessInv, OnePodInAll
<1>2. WorkerInv /\ WorkerInv' /\ Steps /\ PodsStep /\ ReportStep
  BY NextWorker, NextReports DEF SuccessInv, OnceInv
<1>3. TypeOK /\ TypeOK'
  BY <1>2 DEF WorkerInv, LifecycleInv, VersionInv
<1> QED
  BY <1>1, <1>2, <1>3, OnlyUsersCreate DEF Stepping

\* The pods that were created are one, and it is the job's.
LEMMA PodsAreOne ==
  ASSUME OnePodInAll, OneJob, EvaluationRunsOnce, OwnersAreKnown, TypeOK
  PROVE  /\ \A p, q \in Pods : phase[p] # "none" /\ phase[q] # "none" => p = q
         /\ \A p \in Pods : phase[p] # "none" => owner[p] = 1 /\ job.uid = 1
         /\ job.exists => job.uid = 1
<1>1. /\ job.uid \in Nat /\ job.uid <= 1
      /\ \A p \in Pods : owner[p] \in Nat /\ owner[p] <= job.uid
  BY BoundsAssumption DEF OnePodInAll, OneJob, OwnersAreKnown, TypeOK, Job
<1>2. \A p \in Pods : phase[p] # "none" => owner[p] = 1 /\ job.uid = 1
  BY <1>1 DEF OneJob
<1>3. job.exists => job.uid = 1
  BY <1>1 DEF OneJob
<1> QED
  BY <1>2, <1>3 DEF EvaluationRunsOnce

\* There remains one job.
LEMMA OneJobKept ==
  ASSUME OnePodInAll, Stepping
  PROVE  OneJob'
<1>1. /\ job.uid \in Nat /\ held.uid \in Nat /\ \A p \in Pods : owner[p] \in Nat
      /\ OneJob
  BY DEF Stepping, SuccessInv, TypeOK, Job
<1>2. job'.uid <= MaxJobs /\ (job'.exists => job'.uid > 0)
  <2>1. CASE job.exists
    <3>1. job'.uid = job.uid
      BY <2>1 DEF Stepping, Steps, JobStep
    <3> QED
      BY <1>1, <2>1, <3>1 DEF OneJob
  <2>2. CASE ~job.exists
    <3>1. job' = job \/ (job'.uid = job.uid + 1 /\ job'.uid <= MaxJobs)
      BY <2>2, CreatedEmpty DEF Stepping
    <3> QED
      BY <1>1, <2>2, <3>1 DEF OneJob
  <2> QED
    BY <2>1, <2>2
<1>3. ASSUME NEW p \in Pods, phase'[p] # "none"
      PROVE  owner'[p] > 0
  <2>1. CASE Born(p)
    <3>1. pc = "createPod" /\ owner'[p] = held.uid
      BY <2>1 DEF Stepping, PodsStep, PodStep
    <3>2. job.exists /\ job.uid = held.uid
      BY <3>1 DEF Stepping, WorkerInv, JobStillThere
    <3> QED
      BY <1>1, <3>1, <3>2 DEF OneJob
  <2>2. CASE ~Born(p)
    <3>1. phase[p] # "none" /\ owner'[p] = owner[p]
      BY <1>3, <2>2 DEF Stepping, PodsStep, PodStep, Born
    <3> QED
      BY <1>1, <3>1 DEF OneJob
  <2> QED
    BY <2>1, <2>2
<1> QED
  BY <1>2, <1>3 DEF OneJob

\* The outcome of an evaluation is set when it ends.
LEMMA OutcomesKept ==
  ASSUME OnePodInAll, Stepping
  PROVE  OutcomesLast'
<1> SUFFICES ASSUME NEW p \in Pods
             PROVE  /\ phase'[p] \in {"none", "pending", "start", "waitRunning",
                                      "executing"} => outcome'[p] = "none"
                    /\ phase'[p] = "none" => stage'[p] = "none"
  BY DEF OutcomesLast
<1>1. DriverStep(p) /\ OutcomesLast
  BY DEF Stepping, ReportStep, SuccessInv
<1>2. CASE Rests(p)
  BY <1>1, <1>2 DEF OutcomesLast, Rests, CallKept, Alive, Waiting, Ended
<1>3. CASE Sends(p)
  BY <1>1, <1>3 DEF OutcomesLast, Sends
<1>4. CASE Reads(p)
  BY <1>1, <1>4 DEF OutcomesLast, Reads, Waiting
<1>5. CASE Acked(p)
  BY <1>1, <1>5 DEF OutcomesLast, Acked, Waiting
<1> QED
  BY <1>1, <1>2, <1>3, <1>4, <1>5 DEF DriverStep

\* The outcome of an evaluation that has ended does not change.
LEMMA OutcomeStays ==
  ASSUME Stepping, NEW p \in Pods, outcome[p] # "none"
  PROVE  outcome'[p] = outcome[p] /\ owner'[p] = owner[p] /\ phase[p] # "none"
<1>1. DriverStep(p) /\ PodStep(p) /\ OutcomesLast
  BY DEF Stepping, ReportStep, PodsStep, SuccessInv
<1>2. phase[p] \notin {"none", "executing"}
  BY <1>1 DEF OutcomesLast
<1>3. outcome'[p] = outcome[p]
  BY <1>1, <1>2 DEF DriverStep, Rests, Sends, Reads, Acked
<1>4. owner'[p] = owner[p]
  BY <1>1, <1>2 DEF PodStep, Born
<1> QED
  BY <1>2, <1>3, <1>4

\* A report other than of success leaves the results alone.
LEMMA ReportKinds ==
  ASSUME NEW s \in Status, NEW r \in Lifecycle!Reporting(s)
  PROVE  r.reason = "Succeeded" \/ r.results = s.results
BY DEF Lifecycle!Reporting, Lifecycle!Failed, Status

\* The reports go on being true.
LEMMA ReportsKept ==
  ASSUME Stepping
  PROVE  ReportsTrue'
<1> SUFFICES ASSUME NEW p \in Pods, WriteSent(p)'
             PROVE  /\ copy'[p].st.reason = "Succeeded" =>
                         /\ outcome'[p] \in SuccessOutcome
                         /\ copy'[p].st.results =
                              {q \in {p} : outcome'[q] \in {"found", "huge"}}
                    /\ (phase'[p] = "waitComplete"
                          /\ outcome'[p] \in SuccessOutcome)
                         => copy'[p].st.reason = "Succeeded"
  BY DEF ReportsTrue
<1>1. DriverStep(p) /\ ReportsTrue
  BY DEF Stepping, ReportStep, SuccessInv
<1>2. CASE Rests(p)
  <2>1. WriteSent(p) /\ copy'[p] = copy[p] /\ outcome'[p] = outcome[p]
    BY <1>2 DEF Rests, CallKept
  <2>2. phase'[p] = "waitComplete" => phase[p] = "waitComplete"
    BY <1>2 DEF Rests
  <2>3. {q \in {p} : outcome'[q] \in {"found", "huge"}}
          = {q \in {p} : outcome[q] \in {"found", "huge"}}
    BY <2>1
  <2> QED
    BY <1>1, <2>1, <2>2, <2>3 DEF ReportsTrue
<1>3. CASE Reads(p)
  <2>1. /\ phase[p] \in Waiting /\ phase'[p] = phase[p]
        /\ outcome'[p] = outcome[p]
        /\ copy'[p].st = Merged(p, jobCache.st)
        /\ jobCache.st \in Status
    BY <1>3 DEF Reads, Stepping, TypeOK, Job
  <2>2. /\ Merged(p, jobCache.st).reason = Report(p).reason
        /\ CarriesResults(p) => Merged(p, jobCache.st).results = Report(p).results
    BY <2>1 DEF Merged, Status
  <2>3. /\ Report(p).reason = "Succeeded" <=> CarriesResults(p)
        /\ Report(p).results = {q \in {p} : outcome[q] \in {"found", "huge"}}
    BY <2>1 DEF Report, CarriesResults, Waiting
  <2>4. {q \in {p} : outcome'[q] \in {"found", "huge"}}
          = {q \in {p} : outcome[q] \in {"found", "huge"}}
    BY <2>1
  <2> QED
    BY <2>1, <2>2, <2>3, <2>4 DEF CarriesResults
<1>4. ~Sends(p) /\ ~Acked(p)
  BY DEF Sends, Acked
<1> QED
  BY <1>1, <1>2, <1>3, <1>4 DEF DriverStep

\* What a report that is stored says of results was found.
LEMMA StoredFound ==
  ASSUME Stepping, NEW p \in Pods, WriteSent(p), Fits(copy[p].st),
         copy[p].st.reason = "Succeeded"
  PROVE  copy[p].st.results = {q \in {p} : outcome[q] = "found"}
<1>1. copy[p].st.results = {q \in {p} : outcome[q] \in {"found", "huge"}}
  BY DEF Stepping, SuccessInv, ReportsTrue
<1>2. \A q \in copy[p].st.results : outcome[q] # "huge"
  BY DEF Fits
<1> QED
  BY <1>1, <1>2

\* The results in the job go on being those of an evaluation that found some.
LEMMA FoundKept ==
  ASSUME Stepping
  PROVE  FoundResults'
<1> SUFFICES ASSUME job'.exists, NEW p \in job'.st.results
             PROVE  outcome'[p] = "found"
  BY DEF FoundResults
<1>1. job.st \in Status /\ job'.st \in Status /\ p \in Pods
  BY DEF Stepping, TypeOK, Job, Status
<1>2. SUFFICES outcome[p] = "found"
  BY <1>1, OutcomeStays
<1>3. job.exists
  BY CreatedEmpty DEF Stepping
<1>4. CASE job'.st.results = job.st.results
  BY <1>3, <1>4 DEF Stepping, SuccessInv, FoundResults
<1>5. ASSUME NEW q \in Pods, WriteSent(q), Fits(copy[q].st),
             copy[q].st \in Lifecycle!Reporting(job.st), job'.st = copy[q].st
      PROVE  outcome[p] = "found"
  <2>1. CASE copy[q].st.reason = "Succeeded"
    BY <1>5, <2>1, StoredFound
  <2>2. CASE copy[q].st.reason # "Succeeded"
    BY <1>1, <1>4, <1>5, <2>2, ReportKinds
  <2> QED
    BY <2>1, <2>2
<1> QED
  BY <1>3, <1>4, <1>5 DEF Stepping, ReportStep, StatusStep

\* The job of a pod that was created is the last one.
LEMMA NoOtherJob ==
  ASSUME OnePodInAll, Stepping, NEW p \in Pods, phase[p] # "none", job'.exists
  PROVE  job.exists /\ owner[p] = job.uid
<1>1. owner[p] = 1 /\ job.uid = 1
  BY PodsAreOne
  DEF Stepping, SuccessInv, OnceInv, WorkerInv, LifecycleInv, VersionInv
<1>2. ~CreateJob
  <2>1. CreateJob => job'.uid = 2 /\ job'.uid <= MaxJobs
    BY <1>1, CreatedEmpty DEF Stepping
  <2> QED
    BY <2>1, BoundsAssumption DEF OnePodInAll
<1> QED
  BY <1>1, <1>2 DEF Stepping

\* A pod that exited with 0 leaves the job complete or cancelled.
LEMMA ExitedKept ==
  ASSUME OnePodInAll, Stepping, OneJob', OutcomesLast'
  PROVE  ExitedStays'
<1>1. \A r, q \in Pods : phase'[r] # "none" /\ phase'[q] # "none" => r = q
  <2>1. /\ EvaluationRunsOnce' /\ OwnersAreKnown' /\ TypeOK'
    BY DEF Stepping, OnceInv, WorkerInv, LifecycleInv, VersionInv
  <2>2. /\ job'.uid \in Nat /\ job'.uid <= 1
        /\ \A q \in Pods : owner'[q] \in Nat /\ owner'[q] <= job'.uid
    BY <2>1, BoundsAssumption DEF OnePodInAll, OneJob, OwnersAreKnown, TypeOK, Job
  <2>3. \A q \in Pods : phase'[q] # "none" => owner'[q] = 1
    BY <2>2 DEF OneJob
  <2> QED
    BY <2>1, <2>3 DEF EvaluationRunsOnce
<1> SUFFICES ASSUME NEW p \in Pods, Exited(p)'
             PROVE  /\ phase'[p] \in {"exit0", "gone"}
                    /\ stage'[p] = "none"
                    /\ job'.exists => job'.st.state \in {"Complete", "Cancelled"}
                    /\ ~BackwardWrite(p)'
  BY DEF ExitedStays
<1>2. /\ DriverStep(p) /\ PodStep(p) /\ StatusStep /\ ScheduleStep /\ ViewStep
      /\ ExitedStays
  BY DEF Stepping, ReportStep, PodsStep, SuccessInv
<1>3. CASE phase'[p] = "exit0"
  <2>1. stage'[p] = "none" /\ ~BackwardWrite(p)'
    BY <1>3 DEF Stepping, AckInv, CallsMatch, OlderRefused
  <2>2. ASSUME job'.exists PROVE job'.st.state \in {"Complete", "Cancelled"}
    <3>1. phase[p] # "none"
      BY <1>2, <1>3 DEF DriverStep, Rests, Acked, Reads, Sends, Waiting
    <3>2. job.exists /\ owner[p] = job.uid
      BY <2>2, <3>1, NoOtherJob
    <3>3. owner'[p] = owner[p] /\ job'.uid = job.uid
      BY <1>2, <3>1, <3>2 DEF PodStep, Born, Stepping, Steps, JobStep
    <3> QED
      BY <1>3, <2>2, <3>2, <3>3 DEF Stepping, AckInv, AckedReportSticks
  <2> QED
    BY <1>3, <2>1, <2>2
<1>4. CASE phase'[p] # "exit0"
  <2>1. podCache' = [pod |-> p, main |-> "exit0"]
    BY <1>4 DEF Exited
  <2>2. podCache' = podCache
    <3>1. ASSUME IsPodView(podCache'), UNCHANGED phase PROVE FALSE
      <4>1. podCache'.pod = p /\ podCache'.main = "exit0" /\ p # NoPod
        BY <2>1, NoPodAssumption
      <4>2. podCache' # NoView
        BY <4>1 DEF NoView
      <4>3. MainState(p) = "exit0"
        BY <3>1, <4>1, <4>2 DEF IsPodView
      <4> QED
        BY <1>4, <3>1, <4>3 DEF MainState
    <3> QED
      BY <1>2, <3>1 DEF ViewStep
  <2>3. /\ phase[p] \in {"exit0", "gone"} /\ stage[p] = "none"
        /\ job.exists => job.st.state \in {"Complete", "Cancelled"}
        /\ ~BackwardWrite(p)
    BY <1>2, <2>1, <2>2 DEF ExitedStays, Exited
  <2>4. Rests(p)
    BY <1>2, <2>3 DEF DriverStep, Sends, Reads, Acked, Waiting
  <2>5. phase'[p] = "gone" /\ stage'[p] = "none"
    BY <1>4, <2>3, <2>4 DEF Rests, CallKept, Alive, Waiting
  <2>6. ASSUME job'.exists PROVE job'.st.state \in {"Complete", "Cancelled"}
    <3>1. job.exists
      BY <2>3, <2>6, NoOtherJob
    <3>2. ~ \E q \in Pods : WriteSent(q) /\ copy[q].rv = job.rv
      BY <2>3 DEF BackwardWrite
    <3> QED
      BY <1>2, <2>3, <2>6, <3>1, <3>2 DEF StatusStep, BackwardWrite
  <2>7. ~BackwardWrite(p)'
    <3>1. ASSUME pc' \in ScheduleCalls, held'.st.state = "Scheduled",
                 held'.rv = job'.rv
          PROVE  FALSE
      <4>1. ~ \E r \in Pods : Born(r) /\ phase'[r] = "pending"
        BY <1>1, <2>5
      <4>2. pc \in ScheduleCalls /\ held' = held
        BY <1>2, <3>1, <4>1 DEF ScheduleStep
      <4>3. held.rv \in Nat /\ job.rv \in Nat /\ held.rv <= job.rv
        BY <4>2 DEF Stepping, TypeOK, Job, WorkerInv, LifecycleInv, VersionInv,
                    CopiesAreVersions, IsVersion, ScheduleCalls
      <4>4. job' = job
        <5>1. job' = job \/ job'.rv = job.rv + 1
          BY DEF Stepping, Steps, JobStep
        <5> QED
          BY <3>1, <4>2, <4>3, <5>1
      <4> QED
        BY <2>3, <3>1, <4>2, <4>4 DEF BackwardWrite
    <3>2. ASSUME NEW q \in Pods \ {p} PROVE ~WriteSent(q)'
      <4>1. phase'[q] = "none"
        BY <1>1, <2>5
      <4> QED
        BY <4>1 DEF OutcomesLast
    <3> QED
      BY <3>1, <3>2 DEF BackwardWrite
  <2> QED
    BY <2>5, <2>6, <2>7
<1> QED
  BY <1>3, <1>4

\* A worker that goes by the exit code goes on having an old copy of the job.
LEMMA ExitCodeKept ==
  ASSUME Stepping
  PROVE  ExitCodeRefused'
<1> SUFFICES ASSUME pc' \in EndCalls, held'.st.reason = "Succeeded"
             PROVE  held'.rv # job'.rv
  BY DEF ExitCodeRefused
<1>1. FinishStep /\ ExitCodeRefused /\ ExitedStays /\ JobStep
  BY DEF Stepping, ReportStep, SuccessInv, Steps
<1>2. CASE pc \in EndCalls /\ held' = held
  <2>1. held.rv # job.rv
    BY <1>1, <1>2 DEF ExitCodeRefused
  <2>2. held.rv \in Nat /\ job.rv \in Nat /\ held.rv <= job.rv
    BY <1>2 DEF Stepping, TypeOK, Job, WorkerInv, LifecycleInv, VersionInv,
                CopiesAreVersions, IsVersion, EndCalls
  <2>3. job' = job \/ job'.rv = job.rv + 1
    BY <1>1 DEF JobStep
  <2> QED
    BY <1>2, <2>1, <2>2, <2>3
<1>3. CASE /\ UNCHANGED job /\ held'.rv = jobCache.rv /\ jobCache.exists
           /\ jobCache.st.state \in {"Scheduled", "Running"}
           /\ podCache.pod # NoPod /\ podCache.main = "exit0"
  <2>1. podCache.pod \in Pods
        /\ podCache = [pod |-> podCache.pod, main |-> "exit0"]
    BY <1>3 DEF Stepping, TypeOK, PodViews
  <2>2. job.exists => job.st.state \in {"Complete", "Cancelled"}
    BY <1>1, <2>1 DEF ExitedStays, Exited
  <2>3. jobCache.rv = job.rv => jobCache = job
    BY DEF Stepping, WorkerInv, LifecycleInv, CopiesAreCurrent
  <2> QED
    BY <1>3, <2>2, <2>3
<1> QED
  BY <1>1, <1>2, <1>3 DEF FinishStep

\* The results of a pod that exited with 0 stay in the job.
LEMMA ResultsStayed ==
  ASSUME OnePodInAll, Stepping
  PROVE  ResultsKept'
<1> SUFFICES ASSUME NEW p \in Pods, phase'[p] = "exit0", job'.exists
             PROVE  job'.st.results = {q \in {p} : outcome'[q] = "found"}
  BY DEF ResultsKept
<1>1. DriverStep(p) /\ StatusStep /\ job.st \in Status
  BY DEF Stepping, ReportStep, TypeOK, Job
<1>2. phase[p] # "none" /\ outcome'[p] = outcome[p]
  BY <1>1 DEF DriverStep, Rests, Acked, Reads, Sends, Waiting
<1>3. job.exists /\ owner[p] = job.uid
  BY <1>2, NoOtherJob
<1>4. SUFFICES job'.st.results = {q \in {p} : outcome[q] = "found"}
  BY <1>2
<1>5. CASE Acked(p)
  <2>1. /\ WriteSent(p) /\ Fits(copy[p].st) /\ job'.st = copy[p].st
        /\ phase[p] = "waitComplete" /\ copy[p].rv = job.rv
    BY <1>5 DEF Acked, Waiting
  <2>2. copy[p].st \in Lifecycle!Reporting(job.st)
    BY <2>1 DEF Stepping, WorkerInv, LifecycleInv, CopiesAreCurrent
  <2>3. CASE copy[p].st.reason = "Succeeded"
    BY <2>1, <2>3, StoredFound
  <2>4. CASE copy[p].st.reason # "Succeeded"
    <3>1. outcome[p] # "found"
      BY <2>1, <2>4 DEF Stepping, SuccessInv, ReportsTrue, SuccessOutcome
    <3>2. job'.st.results = job.st.results
      BY <1>1, <2>1, <2>2, <2>4, ReportKinds
    <3>3. ASSUME NEW q \in job.st.results PROVE FALSE
      <4>1. q \in Pods /\ outcome[q] = "found"
        BY <1>1, <1>3 DEF Stepping, SuccessInv, FoundResults, Status
      <4>2. phase[q] # "none"
        BY <4>1, OutcomeStays
      <4>3. q = p
        BY <1>2, <4>1, <4>2, PodsAreOne
        DEF Stepping, SuccessInv, OnceInv, WorkerInv, LifecycleInv, VersionInv
      <4> QED
        BY <3>1, <4>1, <4>3
    <3> QED
      BY <3>1, <3>2, <3>3
  <2> QED
    BY <2>3, <2>4
<1>6. CASE ~Acked(p)
  <2>1. phase[p] = "exit0"
    BY <1>1, <1>6 DEF DriverStep, Rests, Reads, Sends, Waiting
  <2>2. job.st.results = {q \in {p} : outcome[q] = "found"}
    BY <1>3, <2>1 DEF Stepping, SuccessInv, ResultsKept
  <2>3. stage[p] = "none" /\ ~BackwardWrite(p)
    BY <2>1 DEF Stepping, SuccessInv, ExitedStays, Exited
  <2>4. ~ \E q \in Pods : WriteSent(q) /\ copy[q].rv = job.rv
    BY <2>3 DEF BackwardWrite
  <2> QED
    BY <1>1, <1>3, <2>2, <2>4 DEF StatusStep
<1> QED
  BY <1>5, <1>6

\* A job goes on being Succeeded only when its evaluation succeeded.
LEMMA SuccessStayed ==
  ASSUME OnePodInAll, Stepping
  PROVE  NoFalseSuccess'
<1> SUFFICES ASSUME job'.exists, job'.st.reason = "Succeeded"
             PROVE  \E p \in Pods : /\ owner'[p] = job'.uid
                                    /\ outcome'[p] \in SuccessOutcome
  BY DEF NoFalseSuccess
<1>1. job.exists /\ job'.uid = job.uid
  <2>1. job.exists
    BY CreatedEmpty DEF Stepping
  <2> QED
    BY <2>1 DEF Stepping, Steps, JobStep
<1>2. SUFFICES \E p \in Pods : /\ owner[p] = job.uid
                               /\ outcome[p] \in SuccessOutcome
  BY <1>1, OutcomeStays DEF SuccessOutcome
<1>3. StatusStep /\ ExitCodeRefused /\ NoFalseSuccess /\ ReportsTrue
  BY DEF Stepping, ReportStep, SuccessInv
<1>4. CASE job.st.reason = "Succeeded"
  BY <1>1, <1>3, <1>4 DEF NoFalseSuccess
<1>5. ASSUME NEW p \in Pods, WriteSent(p), job'.st = copy[p].st
      PROVE  owner[p] = job.uid /\ outcome[p] \in SuccessOutcome
  <2>1. outcome[p] \in SuccessOutcome
    BY <1>3, <1>5 DEF ReportsTrue
  <2>2. phase[p] # "none"
    BY <2>1, OutcomeStays DEF SuccessOutcome
  <2> QED
    BY <2>1, <2>2, NoOtherJob
<1> QED
  BY <1>1, <1>3, <1>4, <1>5 DEF StatusStep, ExitCodeRefused

\* Every step keeps the invariant.
LEMMA NextSuccess ==
  ASSUME OnePodInAll, SuccessInv, [Next]_vars
  PROVE  SuccessInv'
<1>1. Stepping
  BY NextStepping
<1>2. OneJob' /\ OutcomesLast'
  BY <1>1, OneJobKept, OutcomesKept
<1> QED
  BY <1>1, <1>2, ReportsKept, FoundKept, ExitedKept, ExitCodeKept,
     ResultsStayed, SuccessStayed
  DEF Stepping, SuccessInv

\* At the start there is no job and no pod.
LEMMA InitSuccess == Init => SuccessInv
<1> SUFFICES ASSUME Init PROVE SuccessInv
  OBVIOUS
<1>1. /\ AckInv /\ WorkerInv
      /\ pc = "idle" /\ job.uid = 0 /\ ~job.exists
      /\ phase = [p \in Pods |-> "none"] /\ stage = [p \in Pods |-> "none"]
      /\ outcome = [p \in Pods |-> "none"] /\ dying = [p \in Pods |-> FALSE]
      /\ podCache = NoView
  BY InitAck DEF Init, ClusterInit, AckInv, NoJob
<1>2. OnceInv
  BY <1>1 DEF OnceInv, DyingSpent, EvaluationRunsOnce
<1>3. OneJob
  BY <1>1, BoundsAssumption DEF OneJob
<1>4. OutcomesLast /\ ReportsTrue /\ FoundResults
  BY <1>1 DEF OutcomesLast, ReportsTrue, FoundResults
<1>5. ExitedStays
  BY <1>1, NoPodAssumption DEF ExitedStays, Exited, NoView
<1>6. ExitCodeRefused /\ ResultsKept /\ NoFalseSuccess
  BY <1>1 DEF ExitCodeRefused, EndCalls, ResultsKept, NoFalseSuccess
<1> QED
  BY <1>1, <1>2, <1>3, <1>4, <1>5, <1>6 DEF SuccessInv

\* When the name is used for one job and no one but the service deletes its pod,
\* the results of a driver that exited with 0 are in the job and stay there,
\* whatever is cancelled, delayed, lost or started again.  (With a second job
\* of the same name a late report of the first may overwrite them.)
THEOREM ResultsStay ==
  ASSUME MaxJobs <= 1, "evict" \notin Kinds
  PROVE  Spec => []ResultsKept
<1>1. SuccessInv /\ [Next]_vars => SuccessInv'
  BY NextSuccess DEF OnePodInAll
<1>2. SuccessInv => ResultsKept
  BY DEF SuccessInv
<1> QED
  BY <1>1, <1>2, InitSuccess, PTL DEF Spec

\* Under the same conditions a job is Succeeded only when its evaluation
\* succeeded: a failed one ends with exit code 0 too, but the worker that goes
\* by the exit code finds its copy of the job out of date.
THEOREM SuccessIsTrue ==
  ASSUME MaxJobs <= 1, "evict" \notin Kinds
  PROVE  Spec => []NoFalseSuccess
<1>1. SuccessInv /\ [Next]_vars => SuccessInv'
  BY NextSuccess DEF OnePodInAll
<1>2. SuccessInv => NoFalseSuccess
  BY DEF SuccessInv
<1> QED
  BY <1>1, <1>2, InitSuccess, PTL DEF Spec
=============================================================================
