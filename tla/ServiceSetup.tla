---------------------------- MODULE ServiceSetup ----------------------------
(***************************************************************************)
(* The start of the controller: the runnable that reads the settings from  *)
(* the configmap, checks the secrets and starts the gRPC server, and the   *)
(* reconcile worker, which the manager starts at the same time and which   *)
(* uses the settings to compose pods.  r.options is shared between the     *)
(* three goroutines without a lock.                                        *)
(*                                                                         *)
(* The job the worker handles is created and edited by its user meanwhile; *)
(* the admission webhook, served by the same process, checks every write.  *)
(***************************************************************************)
EXTENDS PodSpec

CONSTANTS
  Specs,       \* the specifications a user may give the job
  SecretSets,  \* the secret objects that may exist, with their namespaces
  MaxRestarts  \* bound on the restarts of the controller

ASSUME SpecsAssumption == Specs \subseteq JobSpecs
ASSUME SecretSetsAssumption == SecretSets \subseteq SUBSET (Namespaces \X SecretNames)
ASSUME MaxRestartsAssumption == MaxRestarts \in Nat

VARIABLES
  environ,    \* the TLS variables set in the controller's environment
  configMap,  \* configMap[f]: what the configmap has for f, if there is one
  secrets,    \* the secret objects that exist, with their namespaces
  webhooks,   \* the admission webhooks are enabled
  job,        \* the job as it is stored
  process,    \* the controller process
  setup,      \* where the runnable stands
  pending,    \* the settings it has not come to, in order
  options,    \* r.options
  grpc,       \* where StartGrpcServer stands
  worker,     \* where createPod stands
  seen,       \* the specification it got and what patch4GrpcTLS has read
  pod,        \* the pod last composed
  created,    \* what became of it
  restarts

world     == <<environ, configMap, secrets, webhooks>>
setupVars == <<setup, pending, grpc>>
podVars   == <<worker, seen, pod, created>>
vars      == <<world, job, process, setupVars, options, podVars, restarts>>

(***************************************************************************)
(* The settings.  Of the eight, those that are read by different lines or  *)
(* treated differently: a number (the checking interval and the pull       *)
(* policy are parsed in the same way) and the strings the pod refers to    *)
(* (the images are treated like them).  A setting is the default or what   *)
(* the configmap says.                                                     *)
(***************************************************************************)
Fields == <<"GrpcPort", "GrpcService", "GrpcServerSecret", "GrpcClientSecret">>

Settings == {Fields[i] : i \in DOMAIN Fields}

NoConfigMap == [f \in Settings |-> "missing"]

ConfigMaps ==
  {c \in [Settings -> {"absent", "valid", "invalid"}] :
     \A f \in Settings \ {"GrpcPort"} : c[f] # "invalid"}

\* What tells StartGrpcServer to use certificates.
TLSVariables == {"GRPC_SERVER_CERT", "GRPC_SERVER_KEY", "GRPC_CLIENT_CA"}

NoOptions == [set |-> FALSE, tls |-> "None",
              value |-> [f \in Settings |-> "default"]]

\* The settings after constructOptionsFromConfigMap.
Configured(f) == IF configMap[f] = "valid" THEN "config" ELSE "default"

ServerSecret == <<"server", options.value["GrpcServerSecret"]>>

ClientSecret == <<"client", options.value["GrpcClientSecret"]>>

NothingSeen == [spec |-> "none", tls |-> "None", server |-> "none",
                client |-> "none"]

NoPod == [namespace |-> "none", envs |-> <<>>, volumes |-> <<>>, mounts |-> <<>>,
          cmd |-> GenerateCmd(NoOptions.value), args |-> <<>>]

NoJob == [stored |-> FALSE, fin |-> FALSE, namespace |-> "none", spec |-> "none",
          edited |-> "no"]

Init ==
  /\ environ \in SUBSET TLSVariables
  /\ configMap \in ConfigMaps \cup {NoConfigMap}
  /\ secrets \in SecretSets
  /\ webhooks \in BOOLEAN
  /\ job = NoJob
  /\ process = "running"
  /\ setup = "getConfigMap"
  /\ pending = <<>>
  /\ options = NoOptions
  /\ grpc = "off"
  /\ worker = "idle"
  /\ seen = NothingSeen
  /\ pod = NoPod
  /\ created = "no"
  /\ restarts = 0

(***************************************************************************)
(* The runnable of SetupWithManager.                                       *)
(***************************************************************************)
\* The configmap is read and r.options set, to the defaults at first.
GetConfigMap ==
  /\ process = "running"
  /\ setup = "getConfigMap"
  /\ IF configMap = NoConfigMap
       THEN setup' = "error" /\ UNCHANGED <<options, pending>>
       ELSE /\ setup' = "setOptions"
            /\ options' = [NoOptions EXCEPT !.set = TRUE]
            /\ pending' = Fields
  /\ UNCHANGED <<world, job, process, grpc, podVars, restarts>>

\* One turn of the loop over the settings.  A text that cannot be parsed leaves
\* the default.
SetOption ==
  /\ process = "running"
  /\ setup = "setOptions"
  /\ pending # <<>>
  /\ pending' = Tail(pending)
  /\ options' = [options EXCEPT !.value[Head(pending)] = Configured(Head(pending))]
  /\ UNCHANGED <<world, job, process, setup, grpc, podVars, restarts>>

\* Mutant of SecretsExist: one of the two is enough.
SecretsExistServer == <<"controller", ServerSecret>> \in secrets

\* checkSecrets looks in the namespace of the controller.
SecretsExist ==
  /\ <<"controller", ServerSecret>> \in secrets
  /\ <<"controller", ClientSecret>> \in secrets

\* Missing secrets are an error if any of the TLS variables is set; otherwise
\* the server is started.
CheckSecrets ==
  /\ process = "running"
  /\ setup = "setOptions"
  /\ pending = <<>>
  /\ IF ~SecretsExist /\ environ # {}
       THEN setup' = "error" /\ UNCHANGED grpc
       ELSE setup' = "done" /\ grpc' = "start"
  /\ UNCHANGED <<world, job, process, pending, options, podVars, restarts>>

\* Mutant of ServerMode: a mode the pods do not know.
ServerModeServerTLS ==
  IF {"GRPC_SERVER_CERT", "GRPC_SERVER_KEY"} \subseteq environ
  THEN IF "GRPC_CLIENT_CA" \in environ THEN "mTLS" ELSE "ServerTLS"
  ELSE "None"

ServerMode ==
  IF {"GRPC_SERVER_CERT", "GRPC_SERVER_KEY"} \subseteq environ
  THEN IF "GRPC_CLIENT_CA" \in environ THEN "mTLS" ELSE "TLS"
  ELSE "None"

\* StartGrpcServer, up to the TLS mode.  Certificates that cannot be loaded end
\* it; its error is dropped.
StartGrpcServer ==
  /\ process = "running"
  /\ grpc = "start"
  /\ \/ /\ ServerMode # "None"
        /\ grpc' = "failed"
        /\ UNCHANGED options
     \/ /\ grpc' = "listen"
        /\ options' = [options EXCEPT !.tls = ServerMode]
  /\ UNCHANGED <<world, job, process, setup, pending, podVars, restarts>>

Listen ==
  /\ process = "running"
  /\ grpc = "listen"
  /\ grpc' \in {"serving", "failed"}
  /\ UNCHANGED <<world, job, process, setup, pending, options, podVars, restarts>>

(***************************************************************************)
(* The user's writes, and the webhook.  A write that cannot be checked is  *)
(* refused: the failure policy of the webhook is to fail.                  *)
(***************************************************************************)
ValidateLimit(limit) == limit \in {"unset", "int", "fraction"}

ValidateJob(spec) == ValidateLimit(spec.limit)

ValidateCreate(spec) == ValidateJob(spec)

\* Mutant of ValidateUpdate: only new jobs are checked.
ValidateUpdateNothing(spec) == TRUE

ValidateUpdate(spec) == ValidateJob(spec)

\* Whether the API server goes on with a write.
Admitted(valid) == webhooks => process = "running" /\ valid

\* The optional lists of LMEvalJobSpec are omitted from its JSON when empty.
Encoded(spec) ==
  LET Omitted(list) == IF list = "empty" THEN "nil" ELSE list
  IN  [spec EXCEPT !.modelArgs = Omitted(@), !.genArgs = Omitted(@)]

\* What the API server stores.  The mutating webhook decodes the job, calls
\* Default, which changes nothing, and answers with what it encodes again.
Defaulted(spec) == IF webhooks THEN Encoded(spec) ELSE spec

CreateJob(namespace, s) ==
  /\ ~job.stored
  /\ Admitted(ValidateCreate(s))
  /\ job' = [NoJob EXCEPT !.stored = TRUE, !.namespace = namespace,
                          !.spec = Defaulted(s)]
  /\ UNCHANGED <<world, process, setupVars, options, podVars, restarts>>

\* The specification is edited, at most once, before the job has its pod.
UpdateJob(s) ==
  /\ job.stored
  /\ job.edited = "no"
  /\ created # "accepted"
  /\ Admitted(ValidateUpdate(s))
  /\ job' = [job EXCEPT !.spec = Defaulted(s),
                        !.edited = IF job.fin THEN "after" ELSE "before"]
  /\ UNCHANGED <<world, process, setupVars, options, podVars, restarts>>

(***************************************************************************)
(* The worker handles the new job.                                         *)
(***************************************************************************)
\* Mutant of AttachFinalizer: the finalizer is patched in and the specification
\* left as it is.
AttachFinalizerByPatch ==
  /\ process = "running"
  /\ worker = "idle"
  /\ job.stored /\ ~job.fin
  /\ Admitted(ValidateUpdate(job.spec))
  /\ job' = [job EXCEPT !.fin = TRUE]
  /\ UNCHANGED <<world, process, setupVars, options, podVars, restarts>>

\* handleNewCR adds the finalizer with an update, which replaces the stored job
\* by what the worker read and encodes again.
AttachFinalizer ==
  /\ process = "running"
  /\ worker = "idle"
  /\ job.stored /\ ~job.fin
  /\ Admitted(ValidateUpdate(job.spec))
  /\ job' = [job EXCEPT !.fin = TRUE, !.spec = Encoded(@)]
  /\ UNCHANGED <<world, process, setupVars, options, podVars, restarts>>

(***************************************************************************)
(* createPod.  The TLS mode and the secrets are read before the rest of    *)
(* the settings.  Without r.options it panics.                             *)
(***************************************************************************)
ReadTLSMode ==
  /\ process = "running"
  /\ worker = "idle"
  /\ job.fin
  /\ created # "accepted"
  /\ IF options.set
       THEN /\ worker' = "compose"
            /\ seen' = [spec |-> job.spec, tls |-> options.tls,
                        server |-> ServerSecret, client |-> ClientSecret]
            /\ UNCHANGED process
       ELSE process' = "ended" /\ UNCHANGED <<worker, seen>>
  /\ UNCHANGED <<world, job, setupVars, options, pod, created, restarts>>

\* The pod is composed and sent.  A refused one is tried again: the job has no
\* schedule time.
CreatePod ==
  /\ process = "running"
  /\ worker = "compose"
  /\ pod' = ComposedPod(job.namespace, seen.spec, seen.tls, seen.server,
                         seen.client, options.value)
  /\ created' = IF Valid(pod') THEN "accepted" ELSE "refused"
  /\ worker' = "idle"
  /\ seen' = NothingSeen
  /\ UNCHANGED <<world, job, process, setupVars, options, restarts>>

\* An error of the runnable stops the manager, and main exits.
StopManager ==
  /\ process = "running"
  /\ setup = "error"
  /\ process' = "ended"
  /\ UNCHANGED <<world, job, setupVars, options, podVars, restarts>>

\* The process is started again; the job and its pod are what they were.
Restart ==
  /\ process = "ended"
  /\ restarts < MaxRestarts
  /\ restarts' = restarts + 1
  /\ process' = "running"
  /\ setup' = "getConfigMap"
  /\ pending' = <<>>
  /\ options' = NoOptions
  /\ grpc' = "off"
  /\ worker' = "idle"
  /\ seen' = NothingSeen
  /\ UNCHANGED <<world, job, pod, created>>

Next ==
  \/ GetConfigMap
  \/ SetOption
  \/ CheckSecrets
  \/ StartGrpcServer
  \/ Listen
  \/ \E s \in Specs : \/ \E namespace \in Namespaces : CreateJob(namespace, s)
                      \/ UpdateJob(s)
  \/ AttachFinalizer
  \/ ReadTLSMode
  \/ CreatePod
  \/ StopManager
  \/ Restart

Spec == Init /\ [][Next]_vars

-----------------------------------------------------------------------------
StoredJobs ==
  [stored : {TRUE}, fin : BOOLEAN, namespace : Namespaces, spec : JobSpecs,
   edited : {"no", "before", "after"}]

\* Every variable has its type.
TypeOK ==
  /\ environ \in SUBSET TLSVariables
  /\ configMap \in ConfigMaps \cup {NoConfigMap}
  /\ secrets \in SecretSets
  /\ webhooks \in BOOLEAN
  /\ IF job.stored THEN job \in StoredJobs ELSE job = NoJob
  /\ process \in {"running", "ended"}
  /\ setup \in {"getConfigMap", "setOptions", "done", "error"}
  /\ pending \in {SubSeq(Fields, i, Len(Fields)) : i \in 1..Len(Fields) + 1}
  /\ options \in [set: BOOLEAN, tls: TLSMode,
                  value: [Settings -> {"default", "config"}]]
  /\ grpc \in {"off", "start", "listen", "serving", "failed"}
  /\ worker \in {"idle", "compose"}
  /\ IF worker = "compose"
       THEN seen \in [spec: JobSpecs, tls: TLSMode,
                      server: SecretNames, client: SecretNames]
       ELSE seen = NothingSeen
  /\ pod \in Pods
  /\ created \in {"no", "accepted", "refused"}
  /\ restarts \in 0..MaxRestarts

GrpcVolumes ==
  {i \in DOMAIN pod.volumes :
     pod.volumes[i].name.word \in {"client-cert", "server-cert"}}

\* The controller "errors out" if TLS is enabled and the "secrets don't exist", so
\* that a pod finds the secrets its TLS volumes name where it looks for them, in
\* its own namespace.
PodFindsSecrets ==
  \A i \in GrpcVolumes : <<pod.namespace, pod.volumes[i].secret>> \in secrets

\* A pod in the controller's namespace never waits for certificates that are not
\* there: the TLS mode is decided after the secrets were checked under the names
\* the configmap gives them.
SecretsChecked == pod.namespace = "controller" => PodFindsSecrets

\* A pod that was given TLS certificates is given the rest as well: the settings
\* of the configmap, and the server's certificate authority, and for mTLS the
\* client's key and certificate, from the mounted directories, whatever variables
\* the job sets for itself.  So the driver speaks the protocol of the server,
\* unless the server does not ask for client certificates and the job brings its
\* own.  (A pod composed before the TLS mode is decided has none.)
TLSPodFits ==
  GrpcVolumes # {} =>
    /\ pod.cmd = GenerateCmd([f \in Settings |-> Configured(f)])
    /\ \A i \in GrpcVolumes :
         pod.volumes[i].secret \in {<<"server", Configured("GrpcServerSecret")>>,
                                   <<"client", Configured("GrpcClientSecret")>>}
    /\ EnvValue(pod, "GRPC_SERVER_CA") = "serverCerts"
    /\ ServerMode = "mTLS" =>
         \A v \in ClientVariables : EnvValue(pod, v) = "clientCerts"
    /\ DriverMode(pod) # ServerMode =>
         /\ ServerMode = "TLS" /\ DriverMode(pod) = "mTLS"
         /\ \A v \in ClientVariables : EnvValue(pod, v) \in {"text", "ref"}

\* Every mount is of a volume of the pod, and no two volumes have one name.  The
\* API server refuses the pods of jobs with file secrets, the names of whose
\* volumes are no labels, and finds nothing wrong with the others.
MountsFit ==
  /\ \A i \in DOMAIN pod.mounts :
       \E j \in DOMAIN pod.volumes : pod.volumes[j].name = pod.mounts[i].name
  /\ \A i, j \in DOMAIN pod.volumes :
       pod.volumes[i].name = pod.volumes[j].name => i = j
  /\ created = "refused" <=>
       \E i \in DOMAIN pod.volumes : pod.volumes[i].name.word = "secVol"

\* With the webhooks enabled no evaluation is started with a limit it does not
\* understand, whatever the user wrote before or after the worker came to the job.
LimitChecked ==
  webhooks => ValidateLimit(Read(pod.args, "--limit"))

Given(field) == IF field = "nil" THEN "unset" ELSE field

ListOptions == {"--model_args", "--gen_kwargs"}

\* An optional list that is there but empty does no harm: the update that adds the
\* finalizer drops it, and with the webhooks every write does.  So only a list
\* emptied after the finalizer, without the webhooks, leaves an option without a
\* value.  The evaluation can read its command line unless the model or the tasks
\* are empty, and then reads from it what the job says.
CommandFits ==
  /\ webhooks \/ job.edited # "after" => HasValues(pod.args, ListOptions)
  /\ created # "no" /\ job.edited # "after" =>
       /\ Readable(pod.args) <=> job.spec.model = "given" /\ job.spec.tasks = "given"
       /\ Readable(pod.args) =>
            /\ Read(pod.args, "--model") = job.spec.model
            /\ Read(pod.args, "--tasks") = job.spec.tasks
            /\ Read(pod.args, "--model_args") = Given(job.spec.modelArgs)
            /\ Read(pod.args, "--gen_kwargs") = Given(job.spec.genArgs)
            /\ Read(pod.args, "--num_fewshot") = Given(job.spec.numFewShot)
            /\ Read(pod.args, "--limit") = job.spec.limit
=============================================================================
