------------------------------ MODULE PodSpec -------------------------------
(***************************************************************************)
(* The pod that createPod composes for a job, as far as its parts refer to *)
(* each other, to the job and to the service: environment, volumes, mounts *)
(* and the command line; how the driver chooses its protocol from that     *)
(* environment, and what the evaluation program reads from the command.    *)
(*                                                                         *)
(* Of an environment secret of a job, text and ref say whether a plain     *)
(* text, which is not empty, and a reference to a secret object are given. *)
(* A volume name is a word and, for the volumes that are numbered, a       *)
(* number.  The secret of a volume, whose name is looked up in the         *)
(* namespace of the pod, is a pair of what it is for and its name.         *)
(***************************************************************************)
EXTENDS Naturals, Sequences, FiniteSets

CONSTANT Texts  \* what a job may name its variables, secrets and paths

\* The namespace of the controller, and any other a job may be in.
Namespaces == {"controller", "other"}

\* What a secret of the service is for, and whether its name is the configmap's.
SecretNames == {"server", "client"} \X {"default", "config"}

\* An integer, a number in (0, 1], any other number, or a text that is none.
Limits == {"unset", "int", "fraction", "float", "text"}

\* The specification of a job; a list that is left out is "nil".  The model and
\* the tasks, which cannot be left out, are "empty" when they have no word in
\* them: a model or a task may be an empty text.
JobSpecs ==
  [envSecrets : Seq([env : Texts, text : BOOLEAN, ref : BOOLEAN]),
   fileSecrets : Seq([secret : Texts, path : Texts]),
   model : {"empty", "given"},
   modelArgs : {"nil", "empty", "given"},
   genArgs : {"nil", "empty", "given"},
   tasks : {"empty", "given"},
   numFewShot : {"nil", "given"},
   limit : Limits,
   logSamples : {"nil", "false", "true"}]

TLSMode == {"None", "TLS", "mTLS"}

VolumeNames ==
  [word : {"shared", "client-cert", "server-cert", "secVol"}, number : Nat]

Volumes ==
  [name : VolumeNames,
   secret : SecretNames \cup {<<"none", "none">>} \cup {"file"} \X Texts]

Mounts ==
  [name : VolumeNames, path : {"bin", "clientCerts", "serverCerts"} \cup Texts]

\* The variables the driver looks for.
ClientVariables == {"GRPC_CLIENT_CERT", "GRPC_CLIENT_KEY"}

DriverVariables == ClientVariables \cup {"GRPC_SERVER_CA"}

Variables ==
  [name : DriverVariables \cup Texts,
   value : {"text", "ref", "clientCerts", "serverCerts"}]

\* The options of the evaluation program that have a value; all that a job may
\* use; and the values.
Valued == {"--model", "--model_args", "--tasks", "--num_fewshot", "--limit",
           "--gen_kwargs"}

OptionNames == Valued \cup {"--log_samples"}

ValueWords == {"given", "int", "fraction", "float", "text"}

CommandWords == OptionNames \cup ValueWords

Pods ==
  [namespace : Namespaces \cup {"none"}, envs : Seq(Variables),
   volumes : Seq(Volumes), mounts : Seq(Mounts),
   cmd : [service : {"default", "config"}, port : {"default", "config"}],
   args : Seq(CommandWords)]

Name(word) == [word |-> word, number |-> 0]

\* A secret that gives neither is skipped; the others keep their order.
GenerateEnvs(envSecrets) ==
  LET given  == {i \in DOMAIN envSecrets : envSecrets[i].text \/ envSecrets[i].ref}
      Nth(n) == envSecrets[CHOOSE i \in given : Cardinality(given \cap 1..i) = n]
  IN  [n \in 1..Cardinality(given) |->
         [name |-> Nth(n).env, value |-> IF Nth(n).text THEN "text" ELSE "ref"]]

(***************************************************************************)
(* patch4GrpcTLS.  The value of a variable is the directory of the file it *)
(* names; server and client are the names of the two secret objects.       *)
(***************************************************************************)
ServerCA == [name |-> "GRPC_SERVER_CA", value |-> "serverCerts"]

TLSEnvs(mode) ==
  CASE mode = "mTLS" -> <<[name |-> "GRPC_CLIENT_KEY", value |-> "clientCerts"],
                          [name |-> "GRPC_CLIENT_CERT", value |-> "clientCerts"],
                          ServerCA>>
    [] mode = "TLS"  -> <<ServerCA>>
    [] mode = "None" -> <<>>

TLSVolumes(mode, server, client) ==
  LET clientCert == [name |-> Name("client-cert"), secret |-> client]
      serverCert == [name |-> Name("server-cert"), secret |-> server]
  IN  CASE mode = "mTLS" -> <<clientCert, serverCert>>
        [] mode = "TLS"  -> <<serverCert>>
        [] mode = "None" -> <<>>

TLSMounts(mode) ==
  LET clientCert == [name |-> Name("client-cert"), path |-> "clientCerts"]
      serverCert == [name |-> Name("server-cert"), path |-> "serverCerts"]
  IN  CASE mode = "mTLS" -> <<clientCert, serverCert>>
        [] mode = "TLS"  -> <<serverCert>>
        [] mode = "None" -> <<>>

\* patch4FileSecrets: one volume per file secret, counted from 1.
FileVolumes(fileSecrets) ==
  [i \in DOMAIN fileSecrets |->
     [name |-> [word |-> "secVol", number |-> i],
      secret |-> <<"file", fileSecrets[i].secret>>]]

\* Mutant of FileMounts: the mounts are counted from 0.
FileMountsFromZero(fileSecrets) ==
  [i \in DOMAIN fileSecrets |->
     [name |-> [word |-> "secVol", number |-> i - 1],
      path |-> fileSecrets[i].path]]

FileMounts(fileSecrets) ==
  [i \in DOMAIN fileSecrets |->
     [name |-> [word |-> "secVol", number |-> i],
      path |-> fileSecrets[i].path]]

\* Mutant of PodEnvs: the job's own variables come last.
PodEnvsJobLast(spec, mode) == TLSEnvs(mode) \o GenerateEnvs(spec.envSecrets)

PodEnvs(spec, mode) == GenerateEnvs(spec.envSecrets) \o TLSEnvs(mode)

(***************************************************************************)
(* The command line.  generateArgs joins its words with blanks and leaves  *)
(* it to a shell to take them apart, so an empty value leaves no word.     *)
(***************************************************************************)
\* strings.Join and argsToString, and the shell.
Words(value) == IF value = "empty" THEN <<>> ELSE <<value>>

Option(name, given, value) ==
  IF given THEN <<name>> \o Words(value) ELSE <<>>

\* generateArgs.  The options whose values do not come from the job are left out.
GenerateArgs(spec) ==
  Option("--model", TRUE, spec.model)
    \o Option("--model_args", spec.modelArgs # "nil", spec.modelArgs)
    \o Option("--tasks", TRUE, spec.tasks)
    \o Option("--num_fewshot", spec.numFewShot # "nil", spec.numFewShot)
    \o Option("--limit", spec.limit # "unset", spec.limit)
    \o Option("--gen_kwargs", spec.genArgs # "nil", spec.genArgs)
    \o Option("--log_samples", spec.logSamples = "true", "empty")

\* generateCmd: where the driver finds the server.
GenerateCmd(settings) ==
  [service |-> settings["GrpcService"], port |-> settings["GrpcPort"]]

\* createPod, given the TLS mode and the secrets read by patch4GrpcTLS.  The pod
\* is put into the namespace of its job.
ComposedPod(namespace, spec, mode, server, client, settings) ==
  [namespace |-> namespace,
   envs      |-> PodEnvs(spec, mode),
   volumes   |-> <<[name |-> Name("shared"), secret |-> <<"none", "none">>]>>
                  \o TLSVolumes(mode, server, client)
                  \o FileVolumes(spec.fileSecrets),
   mounts    |-> <<[name |-> Name("shared"), path |-> "bin"]>>
                  \o TLSMounts(mode) \o FileMounts(spec.fileSecrets),
   cmd       |-> GenerateCmd(settings),
   args      |-> GenerateArgs(spec)]

(***************************************************************************)
(* What the API server and the kubelet make of the pod.                    *)
(***************************************************************************)
\* The names of volumes have to be DNS labels: lower-case letters, digits and
\* dashes.
IsLabel(name) == name.word # "secVol"

Valid(pod) ==
  /\ \A i \in DOMAIN pod.volumes : IsLabel(pod.volumes[i].name)
  /\ \A i, j \in DOMAIN pod.mounts :
       pod.mounts[i].path = pod.mounts[j].path => i = j

\* Of several entries for a variable the last one counts.
EnvValue(pod, name) ==
  LET entries == {i \in DOMAIN pod.envs : pod.envs[i].name = name}
  IN  IF entries = {} THEN "unset"
      ELSE pod.envs[CHOOSE i \in entries : \A j \in entries : j <= i].value

\* getGRPCClientConn: the protocol the driver in the pod will speak.
DriverMode(pod) ==
  IF EnvValue(pod, "GRPC_SERVER_CA") = "unset" THEN "None"
  ELSE IF "unset" \in {EnvValue(pod, "GRPC_CLIENT_CERT"),
                       EnvValue(pod, "GRPC_CLIENT_KEY")} THEN "TLS"
  ELSE "mTLS"

(***************************************************************************)
(* How the evaluation program reads its command line: the option is        *)
(* followed by its value, which cannot be another option.                  *)
(***************************************************************************)
HasValue(args, i) == i < Len(args) /\ args[i + 1] \notin OptionNames

\* The options of these names have their values.
HasValues(args, names) ==
  \A i \in DOMAIN args : args[i] \in names => HasValue(args, i)

\* The program ends with a usage message if an option has no value.
Readable(args) == HasValues(args, Valued)

\* The value it reads for an option.
Read(args, name) ==
  LET at == {i \in DOMAIN args : args[i] = name}
  IN  IF at = {} THEN "unset" ELSE args[(CHOOSE i \in at : TRUE) + 1]
=============================================================================
