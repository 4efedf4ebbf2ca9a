------------------------------ MODULE RepoOpen ------------------------------
(***************************************************************************)
(* One repository directory and the processes that use it                  *)
(* (repo/fsrepo/fsrepo.go, repo/onlyone.go): initialization, the repo      *)
(* lock, the FSRepo that the callers in a process share through OnlyOne,   *)
(* the api file that tells other processes where the daemon is, crashes.   *)
(*                                                                         *)
(* A handle is one caller of fsrepo.Open: a daemon, `ipfs init`, or one    *)
(* command, which runs in the daemon's process or in one of its own.  What *)
(* a command does with the open repo is in RepoConfig.  OnlyOne's          *)
(* reference is named after the handle whose call made it.  packageLock    *)
(* and OnlyOne's mutex let ppc hold one open, close or init per process.   *)
(***************************************************************************)
EXTENDS Integers, FiniteSets

CONSTANTS Procs,        \* operating system processes
          Handles,
          ProcOf,       \* the process of each handle
          Kind,         \* what each handle is
          Commands,     \* what a command may be
          UserKeys,     \* config keys that the Config struct does not know
          RefMod,       \* the reference counter's modulus, 2^32 in the code
          SlowCommands, \* a command may outlive the API server's shutdownTimeout
          FaultKinds,   \* what may fail, each once
          MaxFaults,    \* how many of these, at most
          MaxCrashes,
          Torn,         \* a config file that does not parse
          None

\* A setting is named by the handle that makes it: an entry of the Bootstrap
\* list, the value of a key, or the entry of a service in the map of remote
\* pinning services.
Config == [boot : SUBSET Handles, keys : SUBSET Handles, service : SUBSET Handles]
FileConfig == [boot : SUBSET Handles, keys : SUBSET Handles, service : SUBSET Handles,
               user : SUBSET UserKeys]
NoConfig == [boot |-> {}, keys |-> {}, service |-> {}]
FreshConfig == [boot |-> {}, keys |-> {}, service |-> {}, user |-> UserKeys]

\* config.FromMap: what the Config struct keeps of the file.
FromMap(f) == [boot |-> f.boot, keys |-> f.keys, service |-> f.service]

Kinds == {"daemon", "init", "command"}
CommandKinds == {"boot", "profile", "key", "addService", "rmService"}

ASSUME RepoAssumption ==
  /\ IsFiniteSet(Handles)
  /\ ProcOf \in [Handles -> Procs]
  /\ Kind \in [Handles -> Kinds]
  /\ Commands \in [Handles -> SUBSET CommandKinds]
  /\ \A h \in Handles : Kind[h] # "command" => Commands[h] = {}
  /\ None \notin Handles
  /\ Torn # None /\ None \notin FileConfig /\ Torn \notin FileConfig
  /\ RefMod \in Nat /\ RefMod > Cardinality(Handles) + 1
  /\ SlowCommands \in BOOLEAN
  /\ FaultKinds \subseteq {"keystore", "close", "write"}
  /\ MaxFaults \in Nat /\ MaxCrashes \in Nat

VARIABLES configFile, specFile, versionFile,    \* the directory
          apiFile,     \* the daemon whose address is in the api file
          lock, ds,    \* the FSRepo that holds repo.lock; that has the datastore
          ppc,         \* what a process does under packageLock
          actor,       \* the handle it does it for
          active,      \* OnlyOne: the reference of the process's open FSRepo
          refs,        \* the counter of each reference
          href,        \* the reference each handle has
          closed,      \* the FSRepos that are closed
          cur,         \* the config object each FSRepo points to
          heap,        \* the contents of the config objects
          hpc,         \* where each handle is
          hobj, taken, \* the config object it works on; the peers it took out
          acked,       \* handles whose change of the config succeeded
          seen,        \* what was acked when each handle started
          faults, crashes

dirVars == <<configFile, specFile, versionFile>>
refVars == <<active, refs, href, closed>>
editVars == <<cur, heap, hobj, taken, acked>>
boundVars == <<faults, crashes>>
vars == <<dirVars, apiFile, lock, ds, ppc, actor, refVars, editVars, hpc, seen, boundVars>>

-----------------------------------------------------------------------------
\* The object openConfig makes for an FSRepo, and the one a command makes.
Objects == Handles \X {"opened", "made"}

ProcStates == {"idle", "initConfig", "initSpec", "initVersion",
               "lock", "version", "config", "datastore", "keystore",
               "removeApi", "closeDatastore", "unlock"}
HandleStates == {"none", "init", "opening", "open", "boot", "put", "profile", "addService", "rmService", "set",
                 "serving", "leave", "again", "done", "dead"}

Init ==
  /\ \/ configFile = None /\ specFile = FALSE /\ versionFile = FALSE
     \/ configFile = FreshConfig /\ specFile = TRUE /\ versionFile = TRUE
  /\ apiFile = None
  /\ lock = None
  /\ ds = None
  /\ ppc = [p \in Procs |-> "idle"]
  /\ actor = [p \in Procs |-> None]
  /\ active = [p \in Procs |-> None]
  /\ refs = [h \in Handles |-> 0]
  /\ href = [h \in Handles |-> None]
  /\ closed = {}
  /\ cur = [h \in Handles |-> <<h, "opened">>]
  /\ heap = [o \in Objects |-> NoConfig]
  /\ hpc = [h \in Handles |-> "none"]
  /\ hobj = [h \in Handles |-> <<h, "opened">>]
  /\ taken = [h \in Handles |-> {}]
  /\ acked = {}
  /\ seen = [h \in Handles |-> {}]
  /\ faults = {}
  /\ crashes = 0

Fault(k) ==
  /\ k \in FaultKinds \ faults
  /\ Cardinality(faults) < MaxFaults
  /\ faults' = faults \cup {k}

HGoTo(h, phase) == hpc' = [hpc EXCEPT ![h] = phase]
PGoTo(p, phase) == ppc' = [ppc EXCEPT ![p] = phase] /\ UNCHANGED actor
Begin(p, h, phase) ==
  ppc' = [ppc EXCEPT ![p] = phase] /\ actor' = [actor EXCEPT ![p] = h]

\* The process is through with its handle, which goes on to phase.
Finish(p, phase) ==
  /\ Begin(p, None, "idle")
  /\ HGoTo(actor[p], phase)

\* OnlyOne's mutex is free: no open or close is under way in the process.
OnlyOneFree(p) == ppc[p] \in {"idle", "initConfig", "initSpec", "initVersion"}
-----------------------------------------------------------------------------
(***************************************************************************)
(* Init.                                                                   *)
(***************************************************************************)

\* doInit refuses an initialized repo; Init takes packageLock.
InitStart(h) ==
  /\ Kind[h] = "init"
  /\ hpc[h] = "none"
  /\ ppc[ProcOf[h]] = "idle"
  /\ IF configFile # None
     THEN HGoTo(h, "done") /\ UNCHANGED <<ppc, actor>>
     ELSE HGoTo(h, "init") /\ Begin(ProcOf[h], h, "initConfig")
  /\ UNCHANGED <<dirVars, apiFile, lock, ds, refVars, editVars, seen, boundVars>>

\* The files are written one after the other: config, datastore spec, version.
\* A torn spec or version is refused by open as a missing one is.
InitConfig(p) ==
  /\ ppc[p] = "initConfig"
  /\ configFile' = IF configFile = None THEN FreshConfig ELSE configFile
  /\ PGoTo(p, "initSpec")
  /\ UNCHANGED <<specFile, versionFile, apiFile, lock, ds, refVars, editVars, hpc, seen, boundVars>>

InitSpec(p) ==
  /\ ppc[p] = "initSpec"
  /\ specFile' = TRUE
  /\ PGoTo(p, "initVersion")
  /\ UNCHANGED <<configFile, versionFile, apiFile, lock, ds, refVars, editVars, hpc, seen, boundVars>>

\* The command goes on to open the repo it has made.
InitVersion(p) ==
  /\ ppc[p] = "initVersion"
  /\ versionFile' = TRUE
  /\ Finish(p, "opening")
  /\ UNCHANGED <<configFile, specFile, apiFile, lock, ds, refVars, editVars, seen, boundVars>>
-----------------------------------------------------------------------------
(***************************************************************************)
(* Open.                                                                   *)
(***************************************************************************)

\* A daemon or a command starts.  A command in a daemon's process comes through
\* its API.
OpenCall(h) ==
  /\ Kind[h] # "init"
  /\ hpc[h] = "none"
  /\ \A d \in Handles \ {h} :
       Kind[d] = "daemon" /\ ProcOf[d] = ProcOf[h] => hpc[d] = "serving"
  /\ HGoTo(h, "opening")
  /\ seen' = [seen EXCEPT ![h] = acked]
  /\ UNCHANGED <<dirVars, apiFile, lock, ds, ppc, actor, refVars, editVars, boundVars>>

\* OnlyOne.Open finds the repo open in this process.
OpenShared(h) ==
  LET r == active[ProcOf[h]] IN
  /\ hpc[h] = "opening"
  /\ OnlyOneFree(ProcOf[h])
  /\ r # None
  /\ refs' = [refs EXCEPT ![r] = (@ + 1) % RefMod]
  /\ href' = [href EXCEPT ![h] = r]
  /\ HGoTo(h, "open")
  /\ UNCHANGED <<dirVars, apiFile, lock, ds, ppc, actor, active, closed, editVars, seen, boundVars>>

\* It does not: open takes packageLock and looks for the config.
OpenFirst(h) ==
  LET p == ProcOf[h] IN
  /\ hpc[h] = "opening"
  /\ ppc[p] = "idle"
  /\ active[p] = None
  /\ IF configFile = None
     THEN HGoTo(h, "done") /\ UNCHANGED <<ppc, actor>>
     ELSE Begin(p, h, "lock") /\ UNCHANGED hpc
  /\ UNCHANGED <<dirVars, apiFile, lock, ds, refVars, editVars, seen, boundVars>>

OpenLock(p) ==
  /\ ppc[p] = "lock"
  /\ lock = None
  /\ lock' = actor[p]
  /\ PGoTo(p, "version")
  /\ UNCHANGED <<dirVars, apiFile, ds, refVars, editVars, hpc, seen, boundVars>>

\* The lock is taken: fail at once, or when IPFS_WAIT_REPO_LOCK has passed.
OpenLocked(p) ==
  /\ ppc[p] = "lock"
  /\ lock # None
  /\ Finish(p, "done")
  /\ UNCHANGED <<dirVars, apiFile, lock, ds, refVars, editVars, seen, boundVars>>

\* Mutant: an error leaves the repo locked.
OpenErrorLocked(p) == Finish(p, "done") /\ UNCHANGED lock

\* The deferred unlock of open, on every error after the lock was taken.
OpenError(p) == Finish(p, "done") /\ lock' = None

OpenVersion(p) ==
  /\ ppc[p] = "version"
  /\ IF versionFile
     THEN PGoTo(p, "config") /\ UNCHANGED <<lock, hpc>>
     ELSE OpenError(p)
  /\ UNCHANGED <<dirVars, apiFile, ds, refVars, editVars, seen, boundVars>>

\* openConfig: the new FSRepo's config is an object with what is in the file.
OpenConfig(p) ==
  LET r == actor[p] IN
  /\ ppc[p] = "config"
  /\ IF configFile = Torn
     THEN OpenError(p) /\ UNCHANGED <<heap, cur>>
     ELSE /\ heap' = [heap EXCEPT ![<<r, "opened">>] = FromMap(configFile)]
          /\ cur' = [cur EXCEPT ![r] = <<r, "opened">>]
          /\ PGoTo(p, "datastore")
          /\ UNCHANGED <<lock, hpc>>
  /\ UNCHANGED <<dirVars, apiFile, ds, refVars, hobj, taken, acked, seen, boundVars>>

\* The datastore must match the spec on disk, and has a lock of its own.
OpenDatastore(p) ==
  /\ ppc[p] = "datastore"
  /\ IF specFile /\ ds = None
     THEN PGoTo(p, "keystore") /\ ds' = actor[p] /\ UNCHANGED <<lock, hpc>>
     ELSE OpenError(p) /\ UNCHANGED ds
  /\ UNCHANGED <<dirVars, apiFile, refVars, editVars, seen, boundVars>>

\* Done: OnlyOne makes a reference to the FSRepo.
OpenDone(p) ==
  LET r == actor[p] IN
  /\ ppc[p] = "keystore"
  /\ Finish(p, "open")
  /\ active' = [active EXCEPT ![p] = r]
  /\ refs' = [refs EXCEPT ![r] = 1]
  /\ href' = [href EXCEPT ![r] = r]
  /\ UNCHANGED <<dirVars, apiFile, lock, ds, closed, editVars, seen, boundVars>>

\* The keystore cannot be opened: the repo is unlocked, and the datastore, which
\* nobody closes, stays open until the process ends.
OpenKeystoreError(p) ==
  /\ Fault("keystore")
  /\ ppc[p] = "keystore"
  /\ OpenError(p)
  /\ UNCHANGED <<dirVars, apiFile, ds, refVars, editVars, seen, crashes>>
-----------------------------------------------------------------------------
(***************************************************************************)
(* The daemon's api file, Close and crashes.                               *)
(***************************************************************************)

\* serveHTTPApi: SetAPIAddr writes a temporary file and renames it.
SetAPIAddr(h) ==
  /\ Kind[h] = "daemon"
  /\ hpc[h] = "open"
  /\ apiFile' = h
  /\ HGoTo(h, "serving")
  /\ UNCHANGED <<dirVars, lock, ds, ppc, actor, refVars, editVars, seen, boundVars>>

\* The daemon stops, or init has added its assets: the node closes its repo.
Leave(h) ==
  /\ \/ Kind[h] = "daemon" /\ hpc[h] = "serving"
     \/ Kind[h] = "init" /\ hpc[h] = "open"
  /\ HGoTo(h, "leave")
  /\ UNCHANGED <<dirVars, apiFile, lock, ds, ppc, actor, refVars, editVars, seen, boundVars>>

\* The daemon fails before it has a node: only its own deferred Close is left.
DaemonFails(h) ==
  /\ Kind[h] = "daemon"
  /\ hpc[h] = "open"
  /\ HGoTo(h, "again")
  /\ UNCHANGED <<dirVars, apiFile, lock, ds, ppc, actor, refVars, editVars, seen, boundVars>>

\* The node of a daemon closes the repo, then daemonFunc does.
AfterClose(h) == IF Kind[h] = "daemon" /\ hpc[h] = "leave" THEN "again" ELSE "done"

\* daemonFunc's own Close waits for the API server, and that for its commands,
\* for shutdownTimeout.
MayClose(h) ==
  \/ hpc[h] = "leave"
  \/ /\ hpc[h] = "again"
     /\ SlowCommands \/ \A c \in Handles \ {h} :
                          ProcOf[c] = ProcOf[h] => hpc[c] \in {"none", "done", "dead"}

\* Mutant: the first caller to leave closes the repo for the others too.
CloseEager(h) ==
  LET p == ProcOf[h] IN
  /\ MayClose(h)
  /\ ppc[p] = "idle"
  /\ refs' = [refs EXCEPT ![href[h]] = 0]
  /\ active' = [active EXCEPT ![p] = None]
  /\ Begin(p, h, "removeApi")
  /\ UNCHANGED <<dirVars, apiFile, lock, ds, href, closed, editVars, hpc, seen, boundVars>>

\* ref.Close: the last one makes OnlyOne forget the repo and goes on to
\* FSRepo.Close, with OnlyOne's mutex.  The counter is unsigned: closing again
\* what is closed wraps it around and does nothing.
Close(h) ==
  LET p == ProcOf[h]
      left == (refs[href[h]] - 1) % RefMod
  IN
  /\ MayClose(h)
  /\ OnlyOneFree(p)
  /\ refs' = [refs EXCEPT ![href[h]] = left]
  /\ IF left > 0
     THEN HGoTo(h, AfterClose(h)) /\ UNCHANGED <<ppc, actor, active>>
     ELSE /\ ppc[p] = "idle"
          /\ active' = [active EXCEPT ![p] = None]
          /\ Begin(p, h, "removeApi")
          /\ UNCHANGED hpc
  /\ UNCHANGED <<dirVars, apiFile, lock, ds, href, closed, editVars, seen, boundVars>>

\* Mutant: the repo is unlocked before the api file is removed.
CloseRemoveApiUnlocked(p) ==
  /\ ppc[p] = "removeApi"
  /\ IF lock = href[actor[p]]
     THEN lock' = None /\ ds' = None /\ UNCHANGED <<apiFile, ppc, actor, hpc>>
     ELSE apiFile' = None /\ Finish(p, AfterClose(actor[p])) /\ UNCHANGED <<lock, ds>>
  /\ UNCHANGED <<dirVars, refVars, editVars, seen, boundVars>>

\* FSRepo.Close removes the api file...
CloseRemoveApi(p) ==
  /\ ppc[p] = "removeApi"
  /\ apiFile' = None
  /\ PGoTo(p, "closeDatastore")
  /\ UNCHANGED <<dirVars, lock, ds, refVars, editVars, hpc, seen, boundVars>>

CloseDatastore(p) ==
  /\ ppc[p] = "closeDatastore"
  /\ ds' = None
  /\ PGoTo(p, "unlock")
  /\ UNCHANGED <<dirVars, apiFile, lock, refVars, editVars, hpc, seen, boundVars>>

\* ... returns early if the datastore does not close, with the repo locked and
\* OnlyOne's reference gone...
CloseDatastoreError(p) ==
  /\ Fault("close")
  /\ ppc[p] = "closeDatastore"
  /\ Finish(p, AfterClose(actor[p]))
  /\ UNCHANGED <<dirVars, apiFile, lock, ds, refVars, editVars, seen, crashes>>

\* ... and unlocks.
CloseUnlock(p) ==
  /\ ppc[p] = "unlock"
  /\ closed' = closed \cup {href[actor[p]]}
  /\ lock' = None
  /\ Finish(p, AfterClose(actor[p]))
  /\ UNCHANGED <<dirVars, apiFile, ds, active, refs, href, editVars, seen, boundVars>>

\* The process dies: its locks go, its files stay.  Its callers that have not
\* started run in the next one.
Crash(p) ==
  LET here == {h \in Handles : ProcOf[h] = p}
      Free(x) == IF x \in here THEN None ELSE x
  IN
  /\ crashes < MaxCrashes
  /\ \E h \in here : hpc[h] \notin {"none", "done", "dead"}
  /\ crashes' = crashes + 1
  /\ lock' = Free(lock)
  /\ ds' = Free(ds)
  /\ Begin(p, None, "idle")
  /\ active' = [active EXCEPT ![p] = None]
  /\ hpc' = [h \in Handles |-> IF h \in here /\ hpc[h] \notin {"none", "done"} THEN "dead" ELSE hpc[h]]
  /\ UNCHANGED <<dirVars, apiFile, refs, href, closed, editVars, seen, faults>>

OpenNext ==
  \/ \E h \in Handles :
       \/ InitStart(h)
       \/ OpenCall(h) \/ OpenShared(h) \/ OpenFirst(h)
       \/ SetAPIAddr(h) \/ Leave(h) \/ DaemonFails(h) \/ Close(h)
  \/ \E p \in Procs :
       \/ InitConfig(p) \/ InitSpec(p) \/ InitVersion(p)
       \/ OpenLock(p) \/ OpenLocked(p) \/ OpenVersion(p) \/ OpenConfig(p)
       \/ OpenDatastore(p) \/ OpenDone(p) \/ OpenKeystoreError(p)
       \/ CloseRemoveApi(p) \/ CloseDatastore(p) \/ CloseDatastoreError(p)
       \/ CloseUnlock(p) \/ Crash(p)
=============================================================================
