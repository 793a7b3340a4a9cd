--------------------------- MODULE MCServiceSetup ---------------------------
(* Instances of ServiceSetup for TLC. *)
EXTENDS ServiceSetup

MCTexts == {"TOKEN", "GRPC_SERVER_CA", "GRPC_CLIENT_CERT", "GRPC_CLIENT_KEY",
            "s1", "s2", "dir1", "dir2"}

Plain == [envSecrets |-> <<>>, fileSecrets |-> <<>>, model |-> "given",
          tasks |-> "given", modelArgs |-> "given", genArgs |-> "nil",
          numFewShot |-> "nil", limit |-> "unset", logSamples |-> "nil"]

\* Two lists that are there but empty, and variables of the job's own, one of
\* them the driver's and one without a value; two file secrets, every option, a
\* limit that is out of range and the driver's client certificate and key; no
\* task; and no model.
MCSpecs ==
  {[Plain EXCEPT !.modelArgs = "empty", !.genArgs = "empty", !.limit = "fraction",
      !.envSecrets = <<[env |-> "TOKEN", text |-> FALSE, ref |-> FALSE],
                       [env |-> "GRPC_SERVER_CA", text |-> TRUE, ref |-> TRUE]>>],
   [Plain EXCEPT !.genArgs = "given", !.numFewShot = "given", !.limit = "float",
      !.logSamples = "true",
      !.envSecrets = <<[env |-> "GRPC_CLIENT_CERT", text |-> TRUE, ref |-> FALSE],
                       [env |-> "GRPC_CLIENT_KEY", text |-> FALSE, ref |-> TRUE]>>,
      !.fileSecrets = <<[secret |-> "s1", path |-> "dir1"],
                        [secret |-> "s2", path |-> "dir2"]>>],
   [Plain EXCEPT !.tasks = "empty", !.limit = "int"],
   [Plain EXCEPT !.model = "empty"]}

\* No secret; every one in the controller's namespace, in both, or in the
\* controller's but one.
MCSecretSets ==
  LET here == {"controller"} \X SecretNames
  IN  {{}, here, Namespaces \X SecretNames,
       here \ {<<"controller", <<"client", "config">>>>}}
=============================================================================
