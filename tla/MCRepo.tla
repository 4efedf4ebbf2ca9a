------------------------------- MODULE MCRepo -------------------------------
(***************************************************************************)
(* Instances of RepoConfig.  A daemon and the commands it runs through its *)
(* API share the process "p1"; init and the other commands have processes  *)
(* of their own.                                                           *)
(***************************************************************************)
EXTENDS RepoConfig

CONSTANTS daemon, init, edit, key, service, remove

mcKind == [h \in Handles |-> CASE h = daemon -> "daemon" [] h = init -> "init"
                               [] OTHER -> "command"]

mcCommands == [h \in Handles |->
  CASE h = edit -> {"boot", "profile"} [] h = key -> {"key"}
    [] h = service -> {"addService", "rmService"} [] h = remove -> {"rmService"}
    [] OTHER -> {}]

\* `ipfs init` and `ipfs pin remote service` beside a daemon.
mcProcs == {"p1", "p2", "p3"}
mcProcOf == [h \in Handles |-> CASE h = init -> "p2" [] h = service -> "p3" [] OTHER -> "p1"]

\* One process.
mcOneProc == {"p1"}
mcOneProcOf == [h \in Handles |-> "p1"]
=============================================================================
