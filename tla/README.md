# TLA+ verification of fms-lm-eval-service

The repository runs language-model evaluations in Kubernetes. A user creates an
`LMEvalJob`; the controller creates a pod for it; the driver in the pod runs
`lm_eval`, reports `Running` and `Complete` back to the controller over gRPC,
and exits; the controller stores the outcome in the status of the job. A
stand-alone Flask server (`server/app.py`) offers the same evaluations without
Kubernetes. This directory holds the TLA+ modules of both, the TLC runs that
check them on small instances, and the TLAPS proofs.

## The system

| Component | State | Operations | Talks to |
|---|---|---|---|
| Reconciler (`backend/controller/lmevaljob_controller.go`) | none of its own between requests; during one, a copy of the job | `Reconcile` and its handlers: deletion, new job, pod check, completion, cancellation | API server (writes), informer caches (reads), work queue |
| Status server (`backend/controller/grpc_server.go`, `updateStatus`) | one goroutine and one copy of the job per call | `UpdateStatus` | drivers (gRPC), the same caches and API server as the reconciler |
| Driver (`backend/driver/driver.go`, `cmd/driver/main.go`) | the running evaluation, its output files | report Running, execute, collect results, report Complete, exit; `--copy` in the init container | status server |
| LMEvalJob resource (`api/v1beta1/lmevaljob_types.go`) | state, reason, message, pod name, two times, results, finalizer, deletion mark | written by users, reconciler, status server | |
| Service setup (`SetupWithManager`, `StartGrpcServer`, `cmd/controller/main.go`) | options, TLS mode | reads the configmap, checks the secrets, starts the gRPC server | runs beside the reconciler |
| Pod specification (`createPod` and what it calls) | none | command line, environment, volumes of the pod | |
| Admission webhook (`lmevaljob_webhook.go`) | none | `Default`, `ValidateCreate`, `ValidateUpdate` | API server, on every write of a job, the controller's own included |
| Flask server (`server/app.py`) | dictionary `_jobs`, one thread and one process per task | submit, poll, results, list, cancel; background task | HTTP clients |

What is hard here:

- Reconciler and status server are goroutines of one process that read the job
  from a cache of unbounded age and write back whole copies of its status. Only
  the resource version of the API server stands between them.
- A job and its pod are kept in step by several calls, each of which may fail,
  take effect and still report an error, or be the last before a crash.
- The driver's call may time out while its handler still writes.
- The results of an evaluation have to fit into the status of the job.
- The name of a job is the name of its pod and the only address in a report; a
  name may be used again while old copies and old pods are still around.
- Of the pod's events only deletions arrive; everything else depends on the
  polling of `checkScheduledPod` going on.
- The settings of the controller are filled in while pods are composed from
  them, and the job may be edited while its pod is. Jobs may be in other
  namespaces than the controller.
- The Flask server shares a dictionary between threads without a lock.

What makes each component correct: the reconciler starts an evaluation once,
never undoes what a driver reported, ends every job, and lets a deleted or
cancelled job go only with its pod; the status server's answer tells the driver
whether its report was stored, and it loses no other field; the driver ends as
soon as a report is not acknowledged; the Flask server gives every task a final
status that is true and stays.

## Modules

| Module | Models | Extends |
|---|---|---|
| `JobStatus` | the status of a job: its fields and their values | |
| `JobLifecycle` | abstract: how a job's status may move, one step at a time | `JobStatus` |
| `Cluster` | the API server, caches, users and pods as the code uses them (mostly external) | `JobStatus` |
| `Driver` | `backend/driver`, `cmd/driver` | `Cluster` |
| `StatusServer` | `UpdateStatus` / `updateStatus` | `Driver` |
| `Reconciler` | `Reconcile` and its handlers | `Cluster` |
| `EvalService` | the composition, restarts of the controller, fairness, properties | `StatusServer`, `Reconciler`; instance of `JobLifecycle` |
| `EvalServiceProofs` | types, versions, finalizer and times, proved | `EvalService`, `TLAPS` |
| `LifecycleProofs` | that `EvalService` implements `JobLifecycle`, proved | `EvalServiceProofs` |
| `PodProofs` | one evaluation per job, stopped when it is cancelled, proved | `LifecycleProofs` |
| `ReportProofs` | reports, results and success, proved | `PodProofs` |
| `QueueProofs` | that no job is forgotten, proved | `LifecycleProofs` |
| `MCEvalService` | instance for TLC | `EvalService` |
| `PodSpec` | what `createPod` composes and how driver and evaluation read it; operators only | |
| `ServiceSetup` | `SetupWithManager`'s runnable, `StartGrpcServer`, the admission webhook, the job's user and the worker meanwhile | `PodSpec` |
| `MCServiceSetup` | job specifications for TLC | `ServiceSetup` |
| `SetupProofs` | its properties, proved | `ServiceSetup`, `TLAPS` |
| `FlaskServer` | `server/app.py`, with its properties; TLC runs it directly | |
| `FlaskProofs` | its safety properties, proved | `FlaskServer`, `TLAPS` |

### Cluster

`job` is the stored object, `jobCache` and `podCache` the informer copies, which
`SyncJob` and `SyncPod` bring up to date at any later time, skipping
intermediate versions. `queued` is the job's key in the work queue: now or after
a delay or back-off, which the model does not tell apart because time does not
appear in it. `SyncJob` and `SyncPod` enqueue according to the event filters of
`SetupWithManager`: every event of a job but its deletion, and of a pod only its
deletion.

One job name is modelled. The reconciler handles one request at a time and
touches only the job of the request and the pod of its name, so jobs of
different names do not interact. The name may be reused: `job.uid` counts the
incarnations. Each pod created under the name is another element of `Pods`, of
which at most one exists at a time.

A write carries the resource version of the copy it was computed from and is
refused if the stored job has moved on (`Accepts`). A write may also fail for
the server's own reasons, with or without having taken effect (`Write`, kind
`apiError`). A job with a finalizer is only marked when it is deleted and goes
with the finalizer. A pod is deleted in three steps: mark, stop, remove.

`phase[p]` is the pod and the program counter of the driver in it:
`pending` (init container), `start`, `waitRunning`, `executing`,
`waitComplete`, then `exit0` or `exit1`, or `initFailed`, and `gone`.

What can go wrong or be asked for is a *disturbance*. A behaviour has at most
`MaxFaults`, of the kinds in `Kinds`: `apiError`, `rpcError` (a report times out
or loses its connection), `crash` (restart of the controller), `kill` (of the
main container), `setupFail` (`NewDriver` fails), `initFail`, `evict` (the pod
is deleted by someone else), `edit`, `cancel`, `delete`, `huge` (results that
the API server will not store: `Fits`).

### Driver and StatusServer

`Report(p)` is what the driver's current call carries. A completion report
carries results only when the evaluation succeeded and the output directory
could be read (`CarriesResults`); `outcome[p]` is how the evaluation ended:
`failed`, or with no result file (`empty`), one (`found`), or one that is too
large (`huge`).
`stage[p]` is the call: `received`, `read` (the handler has its merged copy in
`copy[p]`), or `late` when the caller has gone in between; a late handler may
still write (`PutLate`) or find its context cancelled (`DropLate`). `Return`
is the rest of the driver: any error ends the process with 1, and the exit code
does not depend on the evaluation. A status update that was sent outlives the
controller (`WriteSent`): after a `Restart` it is one of the `late` ones.

### Reconciler

A request begins with cache reads and ends with at most two API calls. The part
up to the first call is one action (`HandleDeletion`, `HandleNewCR`,
`CheckScheduledPod`, `HandleComplete`, `HandleCancel`, `ReconcileMissing`): it
reads caches only, which are local, and leaves in `held` the copy the code has
in hand. Each API call is an action of its own, at the `pc` named for it, and
decides whether the request is repeated: on success and on error
(`UpdateScheduled`, `UpdatePodGone`, `UpdateCreateFailed`, where the first error
is returned although the update succeeded), on error only, or never
(`UpdateCompleted`, whose error is logged and dropped).

`Fetched` is the line `LastScheduleTime == nil` that takes every unscheduled
job for a new one. `PodFound` compares owners by name only, so any pod of the
name will do.

### JobLifecycle

The promise to those who read a job, without caches, versions or calls in
flight: a job is created; its user asks for its cancellation or deletion; the
reconciler adds the finalizer, schedules the job once, ends a job that is
scheduled or running, stamps a complete one, answers the cancellation of a
scheduled one and lets a deleted one go; a report of a driver is taken in any
status. Each is a single step with a guard on the status it replaces. The
mapping of `EvalService` is direct: the abstract job is the stored one, and
steps of caches, queue, worker, calls and pods stutter. That it holds is not
direct at all: in `EvalService` the guard is tested on a cached copy, the new
status is computed from it, and the write comes one or two calls later, after
other writes and perhaps after the controller has ended.

The lifecycle is as weak as the code: a report replaces a cancellation
(`cancel_race`), and a failed creation of the pod replaces a success
(`lost_success`), because neither the status server nor `handleNewCR` looks at
the state it replaces.

### PodSpec and ServiceSetup

`PodSpec` has the pod as sequences of environment entries, volumes and mounts
in the order `createPod`, `patch4GrpcTLS` and `patch4FileSecrets` append them.
`DriverMode` is `getGRPCClientConn`'s choice of protocol, with the last of
several entries for a variable counting. `Valid` is the API server's check that
volume names are lower-case labels and mount paths differ. The command line of
the evaluation is a sequence of words (`GenerateArgs`). The code joins the words
with blanks and has a shell take them apart, so an empty value leaves no word
(`Words`); `Readable` and `Read` are what the evaluation's parser makes of the
rest. The model and the tasks of a job are required by the resource definition
but may be empty texts, and are then options without a value.

A secret is a pair of what it is for and its name, and exists in a namespace.
`createPod` puts the pod into the namespace of its job, where its volumes look
for their secrets; `checkSecrets` looks in the controller's. The names that a
job chooses for variables, secrets and paths are of the constant `Texts`.

`ServiceSetup` is the first seconds of the controller, apart from the life of
jobs. Three goroutines share `r.options`: the runnable publishes it with the
defaults and then replaces setting after setting (`GetConfigMap`,
`SetOption`), checks the secrets (`CheckSecrets`) and spawns `StartGrpcServer`,
which decides the TLS mode; the worker composes a pod at any moment, reading the
TLS mode and secrets first (`ReadTLSMode`) and the rest later (`CreatePod`).
Without options it panics, which ends the process (controller-runtime 0.18 does
not recover).

Meanwhile the job is created, in either namespace, and edited once (`CreateJob`,
`UpdateJob`). With webhooks enabled every write passes `ValidateCreate` or
`ValidateUpdate`, served by the same process; without the process it is refused,
as the failure policy says. The mutating webhook comes first: `Default` changes
nothing, but its handler in controller-runtime decodes the job and answers with
what it encodes again, so that empty optional lists go (`Defaulted`). The worker adds the finalizer (`AttachFinalizer`) with an update of the
whole object, whose JSON leaves out empty optional lists (`Encoded`), and
composes the pod at a later request. A limit is one of the classes `Limits`
that the parsers of `ValidateLimit` tell apart.

The secrets, chosen from `SecretSets`, stay what they are while the service
runs: the code looks at them once, at its start. Of the eight settings four are kept: a parsed one and the strings
the pod refers to; the others are treated like these.

### FlaskServer

Each access to `_jobs` is a step. `at[t]` is where `_background_task` stands,
`process[t]` the evaluation process, `reaped[t]` whether `process.returncode` is
set. `JobResults` and `HandleError` are the two reads of a results request;
`poll_job` is the first of them. `ListJobs` and `ListNext` are the iteration of
`list_jobs` over the keys, which fails as soon as the dictionary has grown,
after the last key too. `ThreadDies` is an exception in the background thread.

## Runs

Each run has a `.cfg` of its name. `MCEvalService` adds only the
symmetry set, `MCServiceSetup` the job specifications and the sets of secrets. No run checks for deadlock: a job that is complete, a
controller that has started, or a Flask server whose tasks have ended and whom nobody asks, may stop.

| Run | Instance | Checks | Distinct states |
|---|---|---|---|
| `faults` | 2 pods, 1 job, any 2 disturbances but evictions, symmetry | `TypeOK`, `CancelledPodStopped`, `AckedReportSticks`, `NoFalseSuccess`, `EvaluationRunsOnce`, `ResultsKept`, `StatusCoherent`, `NeverForgotten`, `TimesAreFinal`, `LifecycleImplemented` | 876 000 |
| `reuse` | 2 pods, 2 jobs of one name, 1 deletion, symmetry | `FinalizerGuardsPod`, `LifecycleInv` | 3 000 000 |
| `settling` | 1 pod, 1 disturbance but `apiError`, `initFail`, `evict`; fair | `EventuallySettles`, `CompletionIsStamped`, `DeletedJobGoes` | 118 000 |
| `failures` | 2 pods, 1 `apiError` or `evict`; fair | `EventuallySettles` | 727 000 |
| `setup` | 4 job specifications, 2 namespaces, all TLS environments and configmaps, 4 sets of secrets, with and without webhooks, 1 edit, 1 restart | `TypeOK`, `SecretsChecked`, `TLSPodFits`, `MountsFit`, `LimitChecked`, `CommandFits` | 5 240 000 |
| `flask` | 2 tasks, failing threads; fair threads | `TypeOK`, `EndedMeansStopped`, `FinalAnswerStands`, `CancelStopsProcess`, `SuccessIsNoticed` | 477 000 |

What the properties say, and why they are not obvious:

- `EvaluationRunsOnce`: a status update that fails after the pod was created
  leaves a job that looks new; only the pod of the same name prevents a second
  evaluation, at every age of the caches and across restarts.
- `AckedReportSticks`: a driver that exits with 0 has a job that is complete and
  does not go back, although three writers use copies of different age.
- `NoFalseSuccess`: the driver of a failed evaluation exits with 0 too, and the
  reconciler turns exit code 0 into Succeeded; what saves it is that the failure
  was stored first and makes the reconciler's write collide.
- `CancelledPodStopped`: cancellation is complete only when the pod's deletion
  was accepted, whatever failed or was retried on the way.
- `ResultsKept`: a driver that exits with 0 leaves its results in the job, and
  no later write of a whole status loses them; results that could not be stored
  never count as delivered.
- `LifecycleImplemented`, `StatusCoherent`: every stored write makes sense in
  the status it replaces, and what a reader concludes from one field of the
  status agrees with the others.
- `LifecycleInv`: the inductive invariant of the proofs, checked here for a
  name that is used twice.
- `NeverForgotten`: the handlers take the request out of the queue and then
  fail, return without a repetition, or write what is refused. As long as the job
  is to be scheduled, watched, cancelled or let go, something is left that wakes
  the worker: a request, an event that has not arrived, or the worker itself at
  the current version. (The stamp of the completion time is not included:
  `handleComplete` drops the error of its update, and with an API error the
  stamp can be forgotten.)
- `TimesAreFinal`, `FinalizerGuardsPod`: see the proofs.
- `EventuallySettles`: the job becomes Complete for good or goes; in particular
  a driver that dies without a report is noticed by the polling.
- `CompletionIsStamped`: `handleComplete` ignores the error of its update, so
  the time is stored only if the colliding write itself causes another request.
- `DeletedJobGoes`: the pod may not exist, its name may not be stored, and the
  removal of the finalizer may collide with reports of the
  dying driver; the job goes all the same.
- `SecretsChecked`, `TLSPodFits`: although the settings are filled in while pods
  may already be composed from them, a pod that gets certificates was composed
  after everything it refers to was read and checked. In the controller's
  namespace its secrets are there; elsewhere they need not be
  (`secrets_elsewhere`). Whatever variables the job sets, the certificates are
  taken from where they are mounted. The driver's protocol is the server's, but
  for one case: a server that asks for no client certificates, and a job that
  sets a client certificate and key of its own, with which the driver tries
  mTLS. A pod composed before the TLS mode is decided has no certificates at
  all, and its driver cannot reach a TLS server: that is a weakness of the start
  the properties do not hide.
- `MountsFit`: volumes and mounts, appended by three functions, match. The API
  server refuses exactly the pods with file secrets, whose volumes have names
  that are no labels (see the disagreements).
- `LimitChecked`: with webhooks, whatever the order of writes, restarts and
  reads, no evaluation is started with a limit it does not understand.
- `CommandFits`: the evaluation can read its command line exactly if neither the
  model nor the tasks of the job are empty, and then reads what the job says. An
  empty `modelArgs` or `genArgs` would leave an option without its value; that it
  does no harm rests on the update that adds the finalizer, whose encoding drops
  the list, and on the mutating webhook, which does so at every write. Without
  webhooks a list that is emptied after the finalizer was added does leave such
  an option.
- `EndedMeansStopped`, `FinalAnswerStands`, `CancelStopsProcess`,
  `SuccessIsNoticed`: the two unlocked tests of the cancel flag, the wait with
  its timeout and the final assignments agree on how a task ended, in all
  interleavings with requests.

Bounds. Two pods are what one job could at worst create wrongly
(`EvaluationRunsOnce` would fail with the second), and `failures` needs the
second when the first was deleted too early. Two disturbances are the pairs that
matter: a failure, and the failure or restart that hits its recovery. The
single deletion of `reuse` is what a second incarnation needs. One edit of the
job in `setup` can come before or after each step of the worker. The sets of
secrets are none, all in the controller's namespace, all in both, and all but
one, so that each outcome of the check and of the look-up by a pod occurs. One
listing of
the Flask server runs at a time, because listings change nothing. Versions are not
bounded: they only grow with writes, of which there are finitely many. Flask
tasks share nothing but the dictionary; two show that they do not disturb each
other. Each property is broken by a mutant of the code listed in `PROJECT.json`
(a dropped guard, an ignored error, a write without version check, and so on),
whose definitions stand next to the originals.

Limits of what holds. With evictions `EvaluationRunsOnce`, `NoFalseSuccess` and
`ResultsKept` fail: a pod that disappears before the schedule time of its job is
stored is created again, a cached view of the first, ended pod may be taken for
the second's, and the first one's results stay when the second fails. With a
second job of the name `NoFalseSuccess` (`name_reuse`) and `ResultsKept` fail: a
report says only which name it is for. This is why `faults` leaves evictions out and `failures` asks only
whether the job settles. `settling` leaves out `initFail`, for which
`EventuallySettles` fails (a failed init container leaves the main one waiting,
and the job is checked for ever; the TODO in `Reconcile` concedes it), and
`apiError`: when the update of the completion time itself fails, the error
is dropped and nothing repeats it.

### Disagreements

These runs check what a comment or document of the repository says, and TLC
finds a behaviour of the code that does otherwise. The `findings` of
`PROJECT.json` quote the lines.

| Run | Property | What happens |
|---|---|---|
| `cancel_race` | `CancellationHonoured` | the driver's Running report overwrites Cancelled before it is handled |
| `stale_pod_cache` | `PodGoneIsTrue` | no fault: the pod cache lags and a healthy job is marked Failed |
| `lost_success` | `SuccessIsFinal` | no fault: a quick driver makes the Scheduled update conflict, the pod is created again, and AlreadyExists replaces Succeeded by Failed |
| `name_reuse` | `NoFalseSuccess` | a driver of the old job completes a new job of the name |
| `secrets_elsewhere` | `PodFindsSecrets` | the secrets are checked in the controller's namespace and mounted in the job's, where they may not exist |
| `flask_cancel_race` | `CancelledTaskSettles` | a cancellation between the two tests leaves the task running for ever |

Of the same kind, but without a run of their own: `patch4FileSecrets` names the
volumes `secVol1`, `secVol2`, ..., which are not DNS labels, so that no job can
"Use secrets as files" (`api/v1beta1/lmevaljob_types.go:110`; `MountsFit` has
this as part of what it says); a task submitted while `list_jobs` iterates over
the dictionary itself makes the listing fail with status 500, where the docstring
says "List all jobs" (`server/app.py:143`) and `server/static/api.json` knows the
list as the only answer (in the model `ListNext` with `listing.state` failed); a
job deleted before its
pod's name is stored loses its finalizer without its pod having been deleted,
and the pod is left to the garbage collector; a job marked Complete because its
pod could not be created is taken for a new one and scheduled; the Flask
server's error status is visible before the error text; an evaluation that
succeeded with results too large for the API server leaves a failed job; a job
with an empty model or without tasks is admitted, and its evaluation ends with a
usage message.

## Fairness

`FairSpec` assumes weak fairness of the worker's next step, of the two
informers, and per pod of the kubelet's and garbage collector's actions, of the
driver's steps and of the status calls: goroutines, processes and the cluster's
controllers keep running. The evaluation program is assumed to end (`Exec`),
because the code has no time limit for it. Users, disturbances and the replay of
the informers (`Resync`, every ten hours by default) are not fair. In
particular a retry is fair only because the worker is and the request is in the
queue. `FlaskServer` has weak fairness of each background thread; only
`EndingSpec`, used by `flask_cancel_race`, lets the processes
end.

## Proofs

For every set of pods, every value of the bounds and every set of kinds of
disturbances (from `NoPodAssumption`, `BoundsAssumption` and `KindsAssumption`
of `Cluster`), for every set of tasks of the Flask server
(`PrepareFailsAssumption`), and for every set of texts and job specifications
(`SpecsAssumption`), every choice of secrets (`SecretSetsAssumption`) and number
of restarts of the setup (`MaxRestartsAssumption`):

| Module | Theorem | States | Only if |
|---|---|---|---|
| `EvalServiceProofs` | `TypeCorrect` | `Spec => []TypeOK` | |
| | `VersionsHold` | `Spec => []VersionInv` | |
| | `FinalizerGuards` | `Spec => []FinalizerGuardsPod` | |
| | `TimesStay` | `Spec => TimesAreFinal` | |
| `LifecycleProofs` | `CopiesStayCurrent` | `Spec => []LifecycleInv` | |
| | `Implementation` | `Spec => LifecycleImplemented` | |
| | `StatusesCohere` | `Spec => []StatusCoherent` | |
| `PodProofs` | `StartsOnce` | `Spec => []EvaluationRunsOnce` | no evictions |
| | `CancelledStops` | `Spec => []CancelledPodStopped` | |
| `ReportProofs` | `AcksHold` | `Spec => []AckedReportSticks` | |
| | `ResultsStay` | `Spec => []ResultsKept` | no evictions, one job |
| | `SuccessIsTrue` | `Spec => []NoFalseSuccess` | no evictions, one job |
| `QueueProofs` | `NoneForgotten` | `Spec => []NeverForgotten` | |
| `SetupProofs` | `SetupTypes` | `Spec => []TypeOK` | |
| | `PodSecretsExist` | `Spec => []SecretsChecked` | |
| | `TLSPodsFit` | `Spec => []TLSPodFits` | |
| | `PodMountsFit` | `Spec => []MountsFit` | |
| | `LimitsChecked` | `Spec => []LimitChecked` | |
| | `CommandsFit` | `Spec => []CommandFits` | |
| `FlaskProofs` | `FlaskTypes` | `Spec => []TypeOK` | |
| | `EndedTasksStopped` | `Spec => []EndedMeansStopped` | |
| | `AnswersStand` | `Spec => FinalAnswerStands` | |

The conditions are those of the last column and no more. They are conditions on
the constants (`"evict" \notin Kinds`, `MaxJobs <= 1`), which say that no one
but the service deletes the pod and that the name of the job is not used again.
Without them the properties are false of the code, as TLC shows with a single
eviction or a single deletion (see the limits above and `name_reuse`).

### Versions and lifecycle

`FinalizerGuardsPod` is not inductive: the worker creates a pod on the strength
of a finalizer it has seen in a cache. `VersionInv` adds what makes that safe.
Every copy of the job (cache, worker, calls) has a version and a uid no greater
than the stored ones, and if the version is the stored one the copy agrees with
the job on uid, deletion mark and both times, as far as they are set
(`CopiesAreVersions`). A finalizer seen on the present incarnation is on it
still (`FinalizerStays`), because it is removed only through a copy with a
deletion mark (`FinalizerUse`), and a removal of that kind removes the job.
Owners of pods are past or present incarnations (`OwnersAreKnown`), so a new job
starts without a pod. `CallsHaveCallers` is needed for the copies: the report a
handler merges is that of a driver that still waits.

The proof splits the steps by what they may do rather than by action. `Steps`
says that the stored job stays, moves to a new version that keeps finalizer and
times, goes, or is created anew (`JobStep`); that the controller's copies stay,
are read from the cache or are derived from a copy (`CopyStep`); and what
happens to the finalizer's bookkeeping and the owners of pods (`FinalizerStep`,
`OwnerStep`). `VersionInvStep` shows that such steps keep `VersionInv`, and one
lemma per actor that its actions are such steps (`HandlerSteps`, `CallSteps`,
`WorkerSteps`, `ServerSteps`, `PodSteps`, `UserSteps`, `CacheSteps`).
`TimesStay` then follows because a write is accepted only from a copy
of the current version, which has every time the job has.

The refinement needs more than `VersionInv`: which write the worker is about to
make, and why it was right when the copy was read. `Intent` says that for each
`pc`, and `CopiesAreCurrent` that it is still true if the copy has the version
of the stored job; if it has not, the write will be refused. So each accepted
write maps to the step of `JobLifecycle` its `Intent` names, and a step that
changes the stored job makes every copy old, whose `Intent` is then void.
`NewIsNotStored` is needed because `Reconcile` marks an unscheduled job `New` in
its copy only. `StatusCoherent` is inductive for `JobLifecycle` and holds of
`EvalService` by the refinement.

### Pods

`StartsOnce` and `CancelledStops` speak of what the worker does on the strength
of old caches, so `WorkerInv` says that its view, however old, is a past one. The
worker's copy is not newer than the cache (`WorkerBehindCache`). What the cache
has shown of a deletion or a schedule time is still so (`SeenStays`). A job that
the cache shows with the finalizer and without a deletion cannot have gone,
because only the worker removes the finalizer, and the worker has not seen the
deletion (`JobStillThere`). Pods are of jobs the cache has shown (`OwnersSeen`),
one exists at a time (`OnePod`), and none goes without having been deleted
(`GoneWasDying`).

A second pod of a job needs the first one gone, hence deleted, and without
evictions only three do that: `DeletePod`, `CancelPod` and the garbage
collector. In each case the job is `Spent`: the stored job, if it is still there,
is deleted or scheduled, the cached one is that or lacks the finalizer, and the
worker is not about to create its pod; and a spent job remains so
(`SpentKept`). `DyingSpent` is this for all pods.

A cancellation is reported complete after the deletion of the pod was accepted
(`CancelDeletes`). That no pod comes later is `CancelledSpent`: the cache has
seen the schedule time, and the worker is not about to create a pod.

### Reports

`AckedReportSticks` is in danger from two writes, the worker's `Scheduled` and
the report of another pod, when they have the version of the stored job
(`BackwardWrite`). A driver reports twice. A report that changes the job makes
all older copies old. The first one may change nothing (if the job is already as an
earlier pod's report left it), but then the job is `Running`, and the second one
changes it; `OlderRefused` says both. While the pod is there, no
other driver reports and no pod is created, so no new backward write comes into
being (`BackwardIsOld`). This needs neither restriction.

For `ResultsKept` and `NoFalseSuccess` there is one pod in all (`PodsAreOne`,
from `OneJob` and `StartsOnce`). A call with reason Succeeded is of an
evaluation that succeeded and carries its results (`ReportsTrue`); a failed one
leaves the stored results alone, which are then empty (`FoundResults`). The exit
code of a pod is read from a cache that may outlast the pod, so `ExitedStays`
extends `AckedReportSticks` to a pod that was only seen to exit with 0. It
follows that a worker that goes by the exit code has a copy from before the
completion, and that its write of Succeeded is always refused
(`ExitCodeRefused`): the branch of `checkScheduledPod` for exit code 0 never
decides the reason of a job.

As before the steps are first described by what they may do (`PodsStep`,
`ReportStep`), one lemma per actor shows that its actions do no more, and the
invariants are proved from the descriptions.

### Queue

The danger to `NeverForgotten` is a step that ends a request: a handler that
returns neither an error nor a repetition. Such a step either changed the stored
job, and then the cache does not show the change yet and its event will bring
the request again; or it failed, and the error brings it again; or the write was
accepted and changed nothing, and no event comes. The proof shows that the last
case leaves nothing to do: `Intent` of `LifecycleInv` says what a write of the
current version changes. Two facts are needed besides. A job that is being
deleted still has its finalizer (`DeletionWaits`, a consequence of the
lifecycle), so the handler of a deleted job does not return without doing anything.
The worker that adds the finalizer has a job without it or an old copy
(`FinalizerMissing`), so its update changes the job. A handler that works from
an old copy ends with the cache behind the job, or has its write refused. A
restart lists all jobs again. Neither restriction is needed.

### Setup

`SetupInv` relates three goroutines. The settings that the runnable has passed
are those of the configmap; the TLS mode is other than None only after all of
them are and the secrets were checked (`OptionsInv`). The stored job passed the
webhook and has no empty list if there are webhooks, or after the finalizer was
added unless it was edited later (`JobInv`). What the worker has read when it
composes the pod is that job, and no TLS or all that goes with it (`SeenInv`).
The command line of the pod is that of the job (`ArgsInv`).

The rest is about the operators of `PodSpec`, for every specification:
`CommandLine` (what the program reads from the words of `GenerateArgs`),
`JobVariables` (the variables `GenerateEnvs` makes of the job's),
`DriverUsesTLS` (the entry that counts for a variable is the service's own, or
the job's if the service has none), `PodParts` and `VolumesFit` (where volumes
and mounts come from, and that they match one by one), `PathsDiffer` (only file
secrets can make the pod unacceptable) and `PodType`. The command
line is proved option by option from lemmas on the reading of concatenations.
`GenerateEnvs` and `EnvValue` choose elements by number and by position; that
there are such elements is `NthElement` and `GreatestNumber`, which rest on the
least number of a set (`LeastNumber`, from the library's `WFMin`). The texts of
a job are a constant set and not `STRING`, of which the prover knows no element.

### Flask server

`FlaskInv` is what each position of a background thread knows of its process
(`ProcessInv`) and of the status (`StatusInv`). In particular a thread that has
marked its task cancelled comes to its verdict with the flag set, so that it
stores nothing else. What a client was told of an end is the status (`AnswerInv`),
and the status of an ended task does not change. A listing has not come further
than the size the dictionary had, and the dictionary only grows (`ListingInv`), so
that each step of a listing finds a key, whose status it may answer with.

### Only model-checked

Every safety property of the passing runs is proved. The liveness properties
(`EventuallySettles`, `CompletionIsStamped`, `DeletedJobGoes`,
`CancelStopsProcess`, `SuccessIsNoticed`) are checked by TLC alone: the prover
has no rule for fairness and `ENABLED`. `NeverForgotten` is the safety half of
`EventuallySettles`, and proved.

The inductive invariants of `PodProofs`, `ReportProofs`, `QueueProofs`,
`SetupProofs` and `FlaskProofs` were checked by TLC on the instances of the runs before they were
proved; they stand in the proof modules, because they are of use to the proofs
only.

## Not modelled

- The evaluation program, the files of the driver, TLS and the network, except
  as outcomes and failures of the steps that use them.
- Two controllers at a time. The deployment has one replica.
- A write of the reconcile worker whose request outlives the controller and
  takes effect after the restart; the writes of status calls that do are
  modelled.
- Event recording, logging, generated code, manifests, images, the flags of
  `cmd/controller`.
- The text of the evaluation's command line beyond its words: values that a
  shell would take apart or expand. Options whose values do not come from the
  job (the output path).
- Secrets of the service that are deleted or created while it runs.
- The arguments of a task of the Flask server, which are handed on.
- Webhooks that are switched on while jobs are stored that they would refuse:
  such a job could not lose its finalizer, because the controller's own update
  is checked as well.

## Plan

1. Done: the modules above, their runs, the refinement, and a theorem for each
   safety property of a passing run.
2. Proofs: what holds of results and success without the restrictions of
   `ResultsStay` and `SuccessIsTrue` (a job that is Succeeded has had a pod of
   its name whose evaluation succeeded or exited with 0); and `NeverForgotten`
   for the completion stamp when no call to the API server fails.
