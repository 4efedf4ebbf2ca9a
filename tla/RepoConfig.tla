----------------------------- MODULE RepoConfig -----------------------------
(***************************************************************************)
(* The commands that change the configuration, on top of RepoOpen:         *)
(*   key      `ipfs config <key> <value>`: SetConfigKey                    *)
(*   profile  `ipfs config profile apply` and the like: Config, Clone,     *)
(*            change the clone, SetConfig                                  *)
(*   boot     `ipfs bootstrap add` and the like: Config, change the object *)
(*            all callers share, SetConfig                                 *)
(*   addService, rmService  `ipfs pin remote service add` and `rm`: as     *)
(*            boot, on the map of remote pinning services                  *)
(***************************************************************************)
EXTENDS RepoOpen

unchangedByEdits == <<specFile, versionFile, apiFile, lock, ds, ppc, actor, refVars, seen>>

\* FSRepo.Config: the shared object, or an error once the FSRepo is closed.
GetConfig(h) ==
  /\ Kind[h] = "command"
  /\ hpc[h] = "open"
  /\ ppc[ProcOf[h]] = "idle"
  /\ IF href[h] \in closed
     THEN HGoTo(h, "leave") /\ UNCHANGED hobj
     ELSE /\ \E c \in Commands[h] \ {"key"} : HGoTo(h, c)
          /\ hobj' = [hobj EXCEPT ![h] = cur[href[h]]]
  /\ UNCHANGED <<unchangedByEdits, configFile, cur, heap, taken, acked, boundVars>>

\* bootstrapAdd empties the list of the shared object...
BootTake(h) ==
  /\ hpc[h] = "boot"
  /\ taken' = [taken EXCEPT ![h] = heap[hobj[h]].boot]
  /\ heap' = [heap EXCEPT ![hobj[h]].boot = {}]
  /\ HGoTo(h, "put")
  /\ UNCHANGED <<unchangedByEdits, configFile, cur, hobj, acked, boundVars>>

\* ... and appends the new and the old peers to what is in it by now.
BootPut(h) ==
  /\ hpc[h] = "put"
  /\ heap' = [heap EXCEPT ![hobj[h]].boot = @ \cup taken[h] \cup {h}]
  /\ HGoTo(h, "set")
  /\ UNCHANGED <<unchangedByEdits, configFile, cur, hobj, taken, acked, boundVars>>

\* transformConfig changes a clone.
CloneConfig(h) ==
  LET new == <<h, "made">> IN
  /\ hpc[h] = "profile"
  /\ heap' = [heap EXCEPT ![new] = [heap[hobj[h]] EXCEPT !.keys = @ \cup {h}]]
  /\ hobj' = [hobj EXCEPT ![h] = new]
  /\ HGoTo(h, "set")
  /\ UNCHANGED <<unchangedByEdits, configFile, cur, taken, acked, boundVars>>

\* The service is added to the map; adding it again is an error.
AddService(h) ==
  /\ hpc[h] = "addService"
  /\ IF heap[hobj[h]].service # {}
     THEN HGoTo(h, "leave") /\ UNCHANGED heap
     ELSE HGoTo(h, "set") /\ heap' = [heap EXCEPT ![hobj[h]].service = {h}]
  /\ UNCHANGED <<unchangedByEdits, configFile, cur, hobj, taken, acked, boundVars>>

\* The service is deleted from the map.
RmService(h) ==
  /\ hpc[h] = "rmService"
  /\ HGoTo(h, "set")
  /\ heap' = [heap EXCEPT ![hobj[h]].service = {}]
  /\ UNCHANGED <<unchangedByEdits, configFile, cur, hobj, taken, acked, boundVars>>

\* WriteConfigFile, to a temporary file that the deferred Close of atomicfile
\* renames.
WriteConfigFile(f) == configFile' = f /\ UNCHANGED boundVars

\* It fails: the temporary file is not made, or it is renamed half written.
WriteConfigFileError == Fault("write") /\ configFile' \in {configFile, Torn} /\ UNCHANGED crashes

\* The error of the deferred Close is not looked at: a rename that fails passes
\* for a write.
WriteConfigFileUnsaved == Fault("write") /\ UNCHANGED <<configFile, crashes>>

\* The command reports its change as done, or fails; either way it closes the repo.
Report(h) == acked' = acked \cup {h} /\ HGoTo(h, "leave")
Fail(h) == HGoTo(h, "leave") /\ UNCHANGED acked

\* SetConfig begins: it does not ask whether the FSRepo is open.
InSetConfig(h) ==
  /\ hpc[h] = "set"
  /\ ppc[ProcOf[h]] = "idle"
  /\ UNCHANGED <<unchangedByEdits, heap, hobj, taken>>

\* MapMergeDeep: what the file becomes when the struct c is saved.  Values and
\* lists are replaced; of a map, every entry that c lacks stays in the file.
MergedFile(c) == [configFile EXCEPT !.boot = c.boot, !.keys = c.keys,
                                    !.service = IF c.service = {} THEN @ ELSE c.service]

\* Mutant: the file is written, and the FSRepo keeps its old config.
SetConfigFileOnly(h) ==
  /\ InSetConfig(h)
  /\ configFile # Torn
  /\ WriteConfigFile(MergedFile(heap[hobj[h]]))
  /\ Report(h)
  /\ UNCHANGED cur

SetConfig(h) ==
  /\ InSetConfig(h)
  /\ configFile # Torn
  /\ WriteConfigFile(MergedFile(heap[hobj[h]])) \/ WriteConfigFileUnsaved
  /\ cur' = [cur EXCEPT ![href[h]] = hobj[h]]
  /\ Report(h)

\* The file cannot be read, or not be written.
SetConfigError(h) ==
  /\ InSetConfig(h)
  /\ \/ configFile = Torn /\ UNCHANGED <<configFile, boundVars>>
     \/ configFile # Torn /\ WriteConfigFileError
  /\ Fail(h)
  /\ UNCHANGED cur

InSetConfigKey(h) ==
  /\ "key" \in Commands[h]
  /\ hpc[h] = "open"
  /\ ppc[ProcOf[h]] = "idle"
  /\ UNCHANGED <<unchangedByEdits, hobj, taken>>

\* SetConfigKey fails at once on a closed FSRepo or an unreadable file.
SetConfigKeyRefused(h) ==
  /\ InSetConfigKey(h)
  /\ href[h] \in closed \/ configFile = Torn
  /\ Fail(h)
  /\ UNCHANGED <<configFile, cur, heap, boundVars>>

\* Mutant: the FSRepo's config is left as it was.
SetConfigKeyFileOnly(h) ==
  /\ InSetConfigKey(h)
  /\ configFile # Torn
  /\ WriteConfigFile([configFile EXCEPT !.keys = @ \cup {h}])
  /\ Report(h)
  /\ UNCHANGED <<cur, heap>>

\* It sets the key in what is in the file, makes that the FSRepo's config, and
\* only then writes it.
SetConfigKey(h) ==
  LET new == <<h, "made">> IN
  /\ InSetConfigKey(h)
  /\ href[h] \notin closed /\ configFile # Torn
  /\ heap' = [heap EXCEPT ![new] = [FromMap(configFile) EXCEPT !.keys = @ \cup {h}]]
  /\ cur' = [cur EXCEPT ![href[h]] = new]
  /\ \/ WriteConfigFile([configFile EXCEPT !.keys = @ \cup {h}]) /\ Report(h)
     \/ WriteConfigFileUnsaved /\ Report(h)
     \/ WriteConfigFileError /\ Fail(h)

ConfigNext ==
  \E h \in Handles :
    \/ GetConfig(h) \/ BootTake(h) \/ BootPut(h) \/ CloneConfig(h) \/ AddService(h) \/ RmService(h)
    \/ SetConfig(h) \/ SetConfigError(h)
    \/ SetConfigKey(h) \/ SetConfigKeyRefused(h)

Next == OpenNext \/ ConfigNext

Spec == Init /\ [][Next]_vars
-----------------------------------------------------------------------------
(***************************************************************************)
(* Properties.                                                             *)
(***************************************************************************)

\* Every variable has its type; the reference counters stay in their width.
TypeOK ==
  /\ configFile \in FileConfig \cup {None, Torn}
  /\ specFile \in BOOLEAN
  /\ versionFile \in BOOLEAN
  /\ {apiFile, lock, ds} \subseteq Handles \cup {None}
  /\ ppc \in [Procs -> ProcStates]
  /\ actor \in [Procs -> Handles \cup {None}]
  /\ active \in [Procs -> Handles \cup {None}]
  /\ refs \in [Handles -> 0 .. RefMod - 1]
  /\ href \in [Handles -> Handles \cup {None}]
  /\ closed \subseteq Handles
  /\ cur \in [Handles -> Objects]
  /\ heap \in [Objects -> Config]
  /\ hpc \in [Handles -> HandleStates]
  /\ hobj \in [Handles -> Objects]
  /\ taken \in [Handles -> SUBSET Handles]
  /\ acked \subseteq Handles
  /\ seen \in [Handles -> SUBSET Handles]
  /\ faults \subseteq FaultKinds
  /\ crashes \in 0 .. MaxCrashes

Editing == (CommandKinds \ {"key"}) \cup {"put", "set"}

\* Handles between their Open and their Close.
Using == {h \in Handles : hpc[h] \in {"open", "serving"} \cup Editing}

\* A caller that has the repo open has it locked and its datastore open, whatever
\* other callers and processes open, close or fail to open in the meantime
\* (OnlyOne, open's deferred unlock, FSRepo.Close).
OpenMeansLocked == \A h \in Using : lock = href[h] /\ ds = href[h]

\* Nobody holds the repo lock for nothing: its holder is open in OnlyOne, or is
\* being opened or closed, unless its datastore could not be closed.
LockNotLeaked ==
  lock # None =>
    LET p == ProcOf[lock] IN active[p] = lock \/ ppc[p] # "idle" \/ "close" \in faults

\* While a daemon serves its API, the api file leads to it: no command or other
\* daemon that closes the repo removes or replaces it.
ApiFileOwn == \A h \in Handles : hpc[h] = "serving" => apiFile = h

\* When no command is changing the config and no write of it has failed, the
\* config an open FSRepo gives its callers is the one on disk; the map of services
\* on disk may have more entries (see ServiceRemoved).
MemoryMatchesDisk ==
  \A p \in Procs :
    LET r == active[p] IN
    /\ r # None
    /\ "write" \notin faults
    /\ \A h \in Handles : href[h] = r => hpc[h] \notin {"put", "set"}
    => /\ heap[cur[r]].boot = configFile.boot
       /\ heap[cur[r]].keys = configFile.keys
       /\ heap[cur[r]].service \subseteq configFile.service

\* Two commands that change the config ran, in part, at the same time.
Overlap(g, h) ==
  /\ g # h
  /\ \A c \in {g, h} : Kind[c] = "command" /\ hpc[c] # "none"
  /\ g \notin seen[h] /\ h \notin seen[g]

ServiceCommands == {"addService", "rmService"}

\* Commands that overlap each other, not both of them done before h started, may
\* write over what h changed: h is one of them, or two later ones that empty the
\* shared list together.
MayBeLost(h) == \E g \in Handles, k \in Handles \ seen[h] : Overlap(g, k)

\* While no write fails, a list or key that was changed and reported as done is in
\* the file, unless commands overlapped: commands that come one after the other
\* keep each other's changes, across processes and crashes.
SequentialEditsKept ==
  "write" \notin faults =>
    \A h \in acked : \/ h \in configFile.boot \cup configFile.keys
                     \/ Commands[h] \cap ServiceCommands # {}
                     \/ MayBeLost(h)

\* What `ipfs pin remote service rm` says it does: when it has removed the
\* service, all other commands done before it, the config file has no entry.
ServiceRemoved ==
  \A h \in acked :
    /\ Commands[h] = {"rmService"}
    /\ \A g \in Handles \ {h} : Kind[g] = "command" => g \in seen[h] \/ hpc[g] = "none"
    => configFile.service = {}
=============================================================================
