----------------------------- MODULE RepoProofs -----------------------------
(***************************************************************************)
(* Proofs about RepoConfig: who has the repository open, who holds its     *)
(* lock, and what the configuration commands leave in the config file, for *)
(* any processes, callers, commands, failures and crashes.                 *)
(*                                                                         *)
(* The theorems need that a command ends before the API server's           *)
(* shutdownTimeout (SlowCommands = FALSE): without it the second Close of  *)
(* the daemon takes a reference that is not its own.                       *)
(***************************************************************************)
EXTENDS RepoConfig, FiniteSetTheorems, TLAPS

-----------------------------------------------------------------------------
(***************************************************************************)
(* The inductive invariant, in parts.                                      *)
(***************************************************************************)

InitPhases == {"initConfig", "initSpec", "initVersion"}
HeldPhases == {"version", "config", "datastore", "keystore"}
OpenPhases == {"lock"} \cup HeldPhases
ClosePhases == {"removeApi", "closeDatastore", "unlock"}
UsingStates == {"open", "serving"} \cup Editing

\* Nobody opens or uses a repository without a config file.
PresentInv ==
  configFile = None =>
    /\ \A p \in Procs : active[p] = None /\ ppc[p] \notin OpenPhases
    /\ \A h \in Handles : hpc[h] \notin UsingStates

\* A process works for one of its own handles, which is where the work says, and
\* has opened nothing yet while it opens or closes.
ActorInv ==
  \A p \in Procs :
    /\ ppc[p] = "idle" => actor[p] = None
    /\ ppc[p] # "idle" => actor[p] \in Handles /\ ProcOf[actor[p]] = p
    /\ ppc[p] \in InitPhases => hpc[actor[p]] = "init"
    /\ ppc[p] \in OpenPhases => hpc[actor[p]] = "opening" /\ active[p] = None
    /\ ppc[p] \in ClosePhases =>
         /\ hpc[actor[p]] \in {"leave", "again"}
         /\ active[p] = None
         /\ href[actor[p]] # None
         /\ refs[href[actor[p]]] = 0

\* A reference belongs to the process of those who have it, and its maker is past
\* its Open.
RefInv ==
  /\ \A h \in Handles :
       /\ href[h] # None => /\ ProcOf[href[h]] = ProcOf[h]
                            /\ hpc[href[h]] \notin {"none", "init", "opening"}
       /\ hpc[h] \in UsingStates \cup {"leave", "again"} => href[h] # None
  /\ \A p \in Procs :
       active[p] # None => /\ ProcOf[active[p]] = p
                           /\ hpc[active[p]] \notin {"none", "init", "opening"}

\* The handles of a process that certainly have a reference; the daemon that may
\* have one: it failed before its node could close the repo.
Sure(p) == {h \in Handles : /\ ProcOf[h] = p
                            /\ hpc[h] \in UsingStates \cup {"leave"}
                            /\ actor[p] # h}
Perhaps(p) == {h \in Handles : ProcOf[h] = p /\ hpc[h] = "again" /\ actor[p] # h}

\* OnlyOne's counter is the number of those who will still close the repo: what
\* is open is counted, what is not open is wanted by nobody.
CountOf(p) ==
  /\ active[p] = None => Sure(p) = {}
  /\ active[p] # None =>
       /\ \A h \in Sure(p) : href[h] = active[p]
       /\ refs[active[p]] > 0
       /\ \E B \in SUBSET {h \in Perhaps(p) : href[h] = active[p]} :
            refs[active[p]] = Cardinality(Sure(p) \cup B)
  /\ \A h \in Perhaps(p) : href[h] = active[p] \/ refs[href[h]] = 0

CountInv == \A p \in Procs : CountOf(p)

\* What is open, being opened or being closed has the lock and the datastore.
LockInv ==
  \A p \in Procs :
    /\ active[p] # None => lock = active[p] /\ ds = active[p]
    /\ ppc[p] \in HeldPhases => lock = actor[p]
    /\ ppc[p] = "keystore" => ds = actor[p]
    /\ ppc[p] \in ClosePhases => lock = href[actor[p]]
    /\ ppc[p] \in ClosePhases \ {"unlock"} => ds = href[actor[p]]

\* A second daemon does not start in a process.
OneDaemon ==
  \A d, e \in Handles :
    d # e /\ Kind[d] = "daemon" /\ Kind[e] = "daemon" /\ ProcOf[d] = ProcOf[e] => hpc[d] = "none"

\* The lock's holder is open, or being opened or closed by its process.
LeakInv ==
  lock # None /\ "close" \notin faults =>
    active[ProcOf[lock]] = lock \/ ppc[ProcOf[lock]] \in HeldPhases \cup ClosePhases

\* Daemons serve; those who change the config are commands, and have not reported it.
EditorInv ==
  /\ \A h \in Handles : hpc[h] = "serving" => Kind[h] = "daemon"
  /\ \A h \in Handles : hpc[h] \in Editing => Kind[h] = "command"
  /\ \A h \in Handles : hpc[h] \in ServiceCommands => hpc[h] \in Commands[h]
  /\ \A h \in acked : /\ Kind[h] = "command"
                      /\ hpc[h] \in {"leave", "done", "dead"}
  /\ \A h \in Handles : seen[h] \subseteq acked
  /\ \A h \in Handles : hpc[h] = "none" => seen[h] = {}

\* The FSRepo's config agrees with the file.
Agrees(r) ==
  /\ heap[cur[r]].boot = configFile.boot
  /\ heap[cur[r]].keys = configFile.keys
  /\ heap[cur[r]].service \subseteq configFile.service

\* Nobody is between a change of the shared config and its write.
Idle == \A h \in Handles : hpc[h] \notin {"put", "set"}

MemoryInv ==
  "write" \notin faults =>
    /\ configFile # Torn
    /\ \A p \in Procs :
         /\ ppc[p] \in {"datastore", "keystore"} => Agrees(actor[p])
         /\ active[p] # None /\ Idle => Agrees(active[p])

\* Changes that no overlap puts at risk are in the file, and in whatever a command
\* that is at work will write.
Safe(h) == Commands[h] \cap ServiceCommands = {} /\ ~ MayBeLost(h)
Listed(h, c) == h \in c.boot \cup c.keys

KeptFor(h) ==
  /\ configFile # None
  /\ Listed(h, configFile)
  /\ \A g \in Handles :
       /\ hpc[g] \in Editing \ {"put"} => Listed(h, heap[hobj[g]])
       /\ hpc[g] = "put" => Listed(h, heap[hobj[g]]) \/ h \in taken[g]

KeptInv ==
  "write" \notin faults =>
    /\ \A h \in acked : Safe(h) => KeptFor(h)
    /\ \A g \in Handles : hpc[g] = "set" /\ Safe(g) => Listed(g, heap[hobj[g]])

BaseInv == TypeOK /\ PresentInv /\ ActorInv /\ RefInv /\ OneDaemon

-----------------------------------------------------------------------------
(***************************************************************************)
(* Steps that only move one caller of an open repository on: the daemon's  *)
(* SetAPIAddr and Leave, and all of RepoConfig.                            *)
(***************************************************************************)

openVars == <<lock, ds, ppc, actor, refVars>>

Moves(h) ==
  /\ hpc[h] \in UsingStates
  /\ \E s \in UsingStates \cup {"leave"} : hpc' = [hpc EXCEPT ![h] = s]
  /\ UNCHANGED openVars

LEMMA EditMoves ==
  ASSUME RepoAssumption, TypeOK, NEW h \in Handles,
         \/ GetConfig(h) \/ BootTake(h) \/ BootPut(h) \/ CloneConfig(h) \/ AddService(h) \/ RmService(h)
         \/ SetConfig(h) \/ SetConfigError(h)
         \/ SetConfigKey(h) \/ SetConfigKeyRefused(h)
  PROVE  /\ Moves(h) /\ UNCHANGED <<specFile, versionFile, apiFile, seen, crashes>>
         /\ hpc'[h] \in Editing \cup {"leave"} /\ faults \subseteq faults'
         /\ hpc[h] \in Editing \/ Kind[h] = "command"
<1> USE DEF TypeOK, Moves, UsingStates, Editing, CommandKinds, openVars, unchangedByEdits, refVars, HGoTo
<1>1. CASE GetConfig(h)
  BY <1>1, RepoAssumption DEF GetConfig, boundVars, RepoAssumption
<1>2. CASE BootTake(h) \/ BootPut(h) \/ CloneConfig(h)
  BY <1>2 DEF BootTake, BootPut, CloneConfig, boundVars
<1>3. CASE AddService(h) \/ RmService(h)
  BY <1>3 DEF AddService, RmService, boundVars
<1>4. CASE SetConfig(h) \/ SetConfigError(h)
  BY <1>4 DEF SetConfig, SetConfigError, InSetConfig, WriteConfigFile, WriteConfigFileUnsaved,
              WriteConfigFileError, Fault, Report, Fail, boundVars
<1>5. CASE SetConfigKey(h) \/ SetConfigKeyRefused(h)
  BY <1>5 DEF SetConfigKey, SetConfigKeyRefused, InSetConfigKey, WriteConfigFile,
              WriteConfigFileUnsaved, WriteConfigFileError, Fault, Report, Fail, boundVars
<1> QED BY <1>1, <1>2, <1>3, <1>4, <1>5

LEMMA DaemonMoves ==
  ASSUME TypeOK, NEW h \in Handles, SetAPIAddr(h) \/ Leave(h)
  PROVE  Moves(h) /\ UNCHANGED <<dirVars, editVars, seen, boundVars>>
BY DEF SetAPIAddr, Leave, Moves, UsingStates, Editing, HGoTo, openVars, refVars

-----------------------------------------------------------------------------
(***************************************************************************)
(* Types, actors and references.                                           *)
(***************************************************************************)

LEMMA ExceptType ==
  ASSUME NEW S, NEW T, NEW f \in [S -> T], NEW x, NEW v \in T
  PROVE  [f EXCEPT ![x] = v] \in [S -> T]
OBVIOUS

LEMMA CounterWide ==
  ASSUME RepoAssumption
  PROVE  /\ Cardinality(Handles) \in Nat
         /\ RefMod \in Nat /\ RefMod > Cardinality(Handles) + 1 /\ RefMod > 1
BY FS_CardinalityType DEF RepoAssumption

\* The unsigned counter goes up without wrapping, and wraps only below 0.
LEMMA CounterDown ==
  ASSUME NEW m \in Nat, m > 1, NEW a \in 0 .. m - 1
  PROVE  (a - 1) % m = IF a = 0 THEN m - 1 ELSE a - 1
<1>1. CASE a = 0
  <2>1. (0 - 1) % m = m - 1
    OBVIOUS
  <2> QED BY <1>1, <2>1
<1>2. CASE a # 0
  BY <1>2
<1> QED BY <1>1, <1>2

LEMMA CounterUp ==
  ASSUME NEW m \in Nat, NEW a \in Nat, a + 1 < m
  PROVE  (a + 1) % m = a + 1
OBVIOUS

LEMMA ConfigChange ==
  ASSUME NEW c \in Config, NEW b \in SUBSET Handles
  PROVE  /\ [c EXCEPT !.boot = b] \in Config
         /\ [c EXCEPT !.keys = b] \in Config
         /\ [c EXCEPT !.service = b] \in Config
BY DEF Config

LEMMA InitBase == RepoAssumption /\ Init => BaseInv
<1> SUFFICES ASSUME RepoAssumption, Init PROVE BaseInv
  OBVIOUS
<1>1. TypeOK
  <2>1. configFile \in FileConfig \cup {None, Torn}
    BY DEF Init, FileConfig, FreshConfig
  <2>2. heap \in [Objects -> Config]
    BY DEF Init, Config, NoConfig
  <2>3. refs \in [Handles -> 0 .. RefMod - 1]
    BY CounterWide DEF Init
  <2>4. crashes \in 0 .. MaxCrashes
    BY DEF Init, RepoAssumption
  <2> QED BY <2>1, <2>2, <2>3, <2>4 DEF Init, TypeOK, ProcStates, HandleStates, Objects
<1>2. PresentInv
  BY DEF Init, PresentInv, OpenPhases, HeldPhases, UsingStates, Editing, CommandKinds
<1>3. ActorInv
  BY DEF Init, ActorInv, InitPhases, OpenPhases, HeldPhases, ClosePhases
<1>4. RefInv /\ OneDaemon
  BY DEF Init, RefInv, OneDaemon, UsingStates, Editing, CommandKinds
<1> QED BY <1>1, <1>2, <1>3, <1>4 DEF BaseInv

LEMMA EditType ==
  ASSUME RepoAssumption, BaseInv, NEW h \in Handles,
         \/ GetConfig(h) \/ BootTake(h) \/ BootPut(h) \/ CloneConfig(h) \/ AddService(h) \/ RmService(h)
         \/ SetConfig(h) \/ SetConfigError(h)
         \/ SetConfigKey(h) \/ SetConfigKeyRefused(h)
  PROVE  TypeOK' /\ (configFile # None => configFile' # None)
<1>1. Moves(h) /\ UNCHANGED <<specFile, versionFile, apiFile, seen, crashes>>
  BY EditMoves DEF BaseInv
<1>2. hpc' \in [Handles -> HandleStates]
  <2>1. PICK s \in UsingStates \cup {"leave"} : hpc' = [hpc EXCEPT ![h] = s]
    BY <1>1 DEF Moves
  <2>2. s \in HandleStates
    BY <2>1 DEF HandleStates, UsingStates, Editing, CommandKinds
  <2> QED BY <2>1, <2>2 DEF BaseInv, TypeOK
<1>3. /\ cur[h] \in Objects /\ hobj[h] \in Objects /\ <<h, "made">> \in Objects
      /\ heap[hobj[h]] \in Config /\ taken[h] \in SUBSET Handles
      /\ hpc[h] \in UsingStates /\ configFile # None
  BY <1>1 DEF Moves, BaseInv, TypeOK, Objects, PresentInv
<1>4. ASSUME configFile # Torn PROVE configFile \in FileConfig
  BY <1>3, <1>4 DEF BaseInv, TypeOK
<1>5. href[h] \in Handles
  BY <1>3 DEF BaseInv, RefInv, TypeOK
<1> USE DEF BaseInv
<1>6. CASE GetConfig(h) \/ BootTake(h) \/ BootPut(h)
  <2>1. /\ UNCHANGED <<configFile, cur, acked, faults>>
        /\ UNCHANGED taken \/ taken' = [taken EXCEPT ![h] = heap[hobj[h]].boot]
        /\ UNCHANGED hobj \/ hobj' = [hobj EXCEPT ![h] = cur[href[h]]]
    BY <1>6 DEF GetConfig, BootTake, BootPut, boundVars
  <2>2. heap' \in [Objects -> Config]
    <3>1. CASE GetConfig(h)
      BY <3>1 DEF GetConfig, TypeOK
    <3>2. CASE BootTake(h)
      BY <3>2, <1>3, ConfigChange DEF BootTake, TypeOK
    <3>3. CASE BootPut(h)
      <4> DEFINE b == heap[hobj[h]].boot \cup taken[h] \cup {h}
      <4>1. b \in SUBSET Handles
        BY <1>3 DEF Config
      <4>2. heap' = [heap EXCEPT ![hobj[h]] = [heap[hobj[h]] EXCEPT !.boot = b]]
        BY <3>3, <1>3 DEF BootPut, TypeOK
      <4> QED BY <4>1, <4>2, <1>3, ConfigChange DEF TypeOK
    <3> QED BY <1>6, <3>1, <3>2, <3>3
  <2>3. cur[href[h]] \in Objects /\ heap[hobj[h]].boot \in SUBSET Handles
    BY <1>3, <1>5 DEF TypeOK, Config
  <2>4. hobj' \in [Handles -> Objects]
    BY <2>1, <2>3 DEF TypeOK
  <2>5. taken' \in [Handles -> SUBSET Handles]
    BY <2>1, <2>3 DEF TypeOK
  <2> QED BY <1>1, <1>2, <2>1, <2>2, <2>4, <2>5 DEF Moves, openVars, refVars, TypeOK
<1>7. CASE CloneConfig(h) \/ AddService(h) \/ RmService(h)
  <2>1. /\ UNCHANGED <<configFile, cur, acked, taken, faults>>
        /\ UNCHANGED hobj \/ hobj' = [hobj EXCEPT ![h] = <<h, "made">>]
    BY <1>7 DEF CloneConfig, AddService, RmService, boundVars
  <2>2. heap' \in [Objects -> Config]
    <3>1. CASE CloneConfig(h)
      <4>1. [heap[hobj[h]] EXCEPT !.keys = @ \cup {h}] \in Config
        BY <1>3 DEF Config
      <4>2. heap' = [heap EXCEPT ![<<h, "made">>] = [heap[hobj[h]] EXCEPT !.keys = @ \cup {h}]]
        BY <3>1 DEF CloneConfig
      <4> QED BY <4>1, <4>2, ExceptType DEF TypeOK
    <3>2. CASE AddService(h)
      <4>1. [heap[hobj[h]] EXCEPT !.service = {h}] \in Config
        BY <1>3 DEF Config
      <4>2. UNCHANGED heap \/ heap' = [heap EXCEPT ![hobj[h]] = [heap[hobj[h]] EXCEPT !.service = {h}]]
        BY <3>2 DEF AddService
      <4> QED BY <4>1, <4>2, ExceptType DEF TypeOK
    <3>3. CASE RmService(h)
      BY <3>3, <1>3, ConfigChange DEF RmService, TypeOK
    <3> QED BY <1>7, <3>1, <3>2, <3>3
  <2>3. hobj' \in [Handles -> Objects]
    BY <2>1, <1>3 DEF TypeOK
  <2> QED BY <1>1, <1>2, <2>1, <2>2, <2>3 DEF Moves, openVars, refVars, TypeOK
<1>8. CASE SetConfig(h) \/ SetConfigError(h)
  <2>1. /\ UNCHANGED <<heap, hobj, taken>>
        /\ UNCHANGED acked \/ acked' = acked \cup {h}
        /\ UNCHANGED faults \/ (faults' = faults \cup {"write"} /\ "write" \in FaultKinds)
        /\ UNCHANGED cur \/ cur' = [cur EXCEPT ![href[h]] = hobj[h]]
        /\ \/ UNCHANGED configFile
           \/ configFile' = Torn
           \/ configFile # Torn /\ configFile' = MergedFile(heap[hobj[h]])
    BY <1>8 DEF SetConfig, SetConfigError, InSetConfig, WriteConfigFile, WriteConfigFileUnsaved,
                WriteConfigFileError, Fault, Report, Fail, boundVars
  <2>2. configFile' \in FileConfig \cup {Torn}
    BY Zenon, <2>1, <1>3, <1>4 DEF BaseInv, TypeOK, MergedFile, Config, FileConfig
  <2>3. cur' \in [Handles -> Objects] /\ acked' \subseteq Handles /\ faults' \subseteq FaultKinds
    BY <2>1, <1>3 DEF BaseInv, TypeOK
  <2>4. configFile' # None
    BY <2>2 DEF RepoAssumption
  <2> QED BY <1>1, <1>2, <2>1, <2>2, <2>3, <2>4 DEF Moves, openVars, refVars, BaseInv, TypeOK
<1>9. CASE SetConfigKey(h) \/ SetConfigKeyRefused(h)
  <2>1. /\ UNCHANGED <<hobj, taken>>
        /\ UNCHANGED acked \/ acked' = acked \cup {h}
        /\ UNCHANGED faults \/ (faults' = faults \cup {"write"} /\ "write" \in FaultKinds)
        /\ \/ UNCHANGED <<cur, heap>>
           \/ /\ configFile # Torn
              /\ cur' = [cur EXCEPT ![href[h]] = <<h, "made">>]
              /\ heap' = [heap EXCEPT ![<<h, "made">>] = [FromMap(configFile) EXCEPT !.keys = @ \cup {h}]]
        /\ \/ UNCHANGED configFile
           \/ configFile' = Torn
           \/ configFile # Torn /\ configFile' = [configFile EXCEPT !.keys = @ \cup {h}]
    BY <1>9 DEF SetConfigKey, SetConfigKeyRefused, InSetConfigKey, WriteConfigFile,
                WriteConfigFileUnsaved, WriteConfigFileError, Fault, Report, Fail, boundVars
  <2>2. configFile' \in FileConfig \cup {Torn}
    <3>1. configFile # Torn => [configFile EXCEPT !.keys = @ \cup {h}] \in FileConfig
      BY <1>4 DEF FileConfig
    <3> QED BY <2>1, <3>1, <1>4
  <2>3. acked' \subseteq Handles /\ faults' \subseteq FaultKinds
    BY <2>1 DEF TypeOK
  <2>6. cur' \in [Handles -> Objects]
    BY <2>1, <1>3, ExceptType DEF TypeOK
  <2>4. heap' \in [Objects -> Config]
    <3>1. configFile # Torn => [FromMap(configFile) EXCEPT !.keys = @ \cup {h}] \in Config
      BY <1>4 DEF FromMap, Config, FileConfig
    <3> QED BY <2>1, <3>1, ExceptType DEF TypeOK
  <2>5. configFile' # None
    BY <2>2 DEF RepoAssumption
  <2> QED BY <1>1, <1>2, <2>1, <2>2, <2>3, <2>4, <2>5, <2>6 DEF Moves, openVars, refVars, TypeOK
<1> QED BY <1>6, <1>7, <1>8, <1>9

LEMMA MovesBase ==
  ASSUME RepoAssumption, BaseInv, NEW h \in Handles, Moves(h), configFile # None => configFile' # None
  PROVE  (PresentInv /\ ActorInv /\ RefInv /\ OneDaemon)'
<1>1. PICK s \in UsingStates \cup {"leave"} : hpc' = [hpc EXCEPT ![h] = s]
  BY DEF Moves
<1>2. /\ hpc[h] \in UsingStates /\ configFile' # None
      /\ hpc'[h] = s /\ \A g \in Handles \ {h} : hpc'[g] = hpc[g]
      /\ UNCHANGED openVars
  BY <1>1 DEF Moves, BaseInv, TypeOK, PresentInv
<1> USE DEF openVars, refVars, UsingStates, Editing, CommandKinds
<1>3. PresentInv'
  BY <1>2 DEF PresentInv
<1>4. ActorInv'
  BY <1>1, <1>2 DEF BaseInv, ActorInv, InitPhases, OpenPhases, HeldPhases, ClosePhases
<1>5. RefInv'
  BY <1>1, <1>2 DEF BaseInv, RefInv, TypeOK
<1>6. OneDaemon'
  BY <1>1, <1>2 DEF BaseInv, OneDaemon, TypeOK
<1> QED BY <1>3, <1>4, <1>5, <1>6

LEMMA OpenBase == ASSUME RepoAssumption, BaseInv, OpenNext PROVE BaseInv'
<1> USE DEF BaseInv, InitPhases, OpenPhases, HeldPhases, ClosePhases, UsingStates, Editing, CommandKinds
<1>0. ASSUME NEW h \in Handles, SetAPIAddr(h) \/ Leave(h) PROVE BaseInv'
  <2>1. Moves(h) /\ UNCHANGED <<dirVars, editVars, seen, boundVars>>
    BY <1>0, DaemonMoves
  <2>2. (PresentInv /\ ActorInv /\ RefInv /\ OneDaemon)'
    BY <2>1, MovesBase DEF dirVars
  <2>3. TypeOK'
    <3>1. apiFile' \in Handles \cup {None}
      BY <1>0 DEF SetAPIAddr, Leave, TypeOK
    <3>2. hpc' \in [Handles -> HandleStates]
      BY <1>0 DEF SetAPIAddr, Leave, TypeOK, HGoTo, HandleStates
    <3> QED BY <2>1, <3>1, <3>2 DEF Moves, openVars, TypeOK, dirVars, refVars, editVars, boundVars
  <2> QED BY <2>2, <2>3
<1>1. ASSUME NEW h \in Handles, InitStart(h) PROVE BaseInv'
  <2> USE <1>1 DEF InitStart, HGoTo, Begin, dirVars, refVars, editVars, boundVars
  <2>1. TypeOK'
    <3>1. hpc' \in [Handles -> HandleStates]
      BY DEF TypeOK, HandleStates
    <3>2. ppc' \in [Procs -> ProcStates] /\ actor' \in [Procs -> Handles \cup {None}]
      BY DEF TypeOK, ProcStates
    <3> QED BY <3>1, <3>2 DEF TypeOK
  <2>2. PresentInv'
    BY DEF TypeOK, PresentInv
  <2>3. ActorInv'
    BY DEF TypeOK, ActorInv, RefInv, RepoAssumption
  <2>4. RefInv'
    BY DEF TypeOK, ActorInv, RefInv, RepoAssumption
  <2>5. OneDaemon'
    BY DEF TypeOK, OneDaemon, ActorInv
  <2> QED BY <2>1, <2>2, <2>3, <2>4, <2>5
<1>2. ASSUME NEW h \in Handles, OpenCall(h) PROVE BaseInv'
  <2> USE <1>2 DEF OpenCall, HGoTo, dirVars, refVars, editVars, boundVars
  <2>1. TypeOK'
    BY DEF TypeOK, ProcStates, HandleStates, ActorInv
  <2>2. PresentInv'
    BY DEF TypeOK, PresentInv
  <2>3. ActorInv'
    BY DEF TypeOK, ActorInv, RefInv, RepoAssumption
  <2>4. RefInv'
    BY DEF TypeOK, ActorInv, RefInv, RepoAssumption
  <2>5. OneDaemon'
    BY DEF TypeOK, OneDaemon, ActorInv
  <2> QED BY <2>1, <2>2, <2>3, <2>4, <2>5
<1>3. ASSUME NEW h \in Handles, OpenShared(h) PROVE BaseInv'
  <2> USE <1>3 DEF OpenShared, HGoTo, OnlyOneFree, dirVars, editVars, boundVars
  <2>1. TypeOK'
    BY CounterWide DEF TypeOK, ProcStates, HandleStates, ActorInv
  <2>2. PresentInv'
    BY DEF TypeOK, PresentInv
  <2>3. ActorInv'
    BY DEF TypeOK, ActorInv, RefInv, RepoAssumption
  <2>4. RefInv'
    BY DEF TypeOK, ActorInv, RefInv, RepoAssumption
  <2>5. OneDaemon'
    BY DEF TypeOK, OneDaemon, ActorInv
  <2> QED BY <2>1, <2>2, <2>3, <2>4, <2>5
<1>4. ASSUME NEW h \in Handles, OpenFirst(h) PROVE BaseInv'
  <2> USE <1>4 DEF OpenFirst, HGoTo, Begin, dirVars, refVars, editVars, boundVars
  <2>1. TypeOK'
    <3>1. hpc' \in [Handles -> HandleStates]
      BY DEF TypeOK, HandleStates
    <3>2. ppc' \in [Procs -> ProcStates] /\ actor' \in [Procs -> Handles \cup {None}]
      BY SMTT(30) DEF TypeOK, ProcStates
    <3> QED BY <3>1, <3>2 DEF TypeOK
  <2>2. PresentInv'
    BY DEF TypeOK, PresentInv
  <2>3. ActorInv'
    BY DEF TypeOK, ActorInv, RefInv, RepoAssumption
  <2>4. RefInv'
    BY DEF TypeOK, ActorInv, RefInv, RepoAssumption
  <2>5. OneDaemon'
    BY DEF TypeOK, OneDaemon, ActorInv
  <2> QED BY <2>1, <2>2, <2>3, <2>4, <2>5
<1>5. ASSUME NEW h \in Handles, DaemonFails(h) PROVE BaseInv'
  <2> USE <1>5 DEF DaemonFails, HGoTo, dirVars, refVars, editVars, boundVars
  <2>1. TypeOK'
    BY DEF TypeOK, ProcStates, HandleStates, ActorInv
  <2>2. PresentInv'
    BY DEF TypeOK, PresentInv
  <2>3. ActorInv'
    BY DEF TypeOK, ActorInv, RefInv, RepoAssumption
  <2>4. RefInv'
    BY DEF TypeOK, ActorInv, RefInv, RepoAssumption
  <2>5. OneDaemon'
    BY DEF TypeOK, OneDaemon, ActorInv
  <2> QED BY <2>1, <2>2, <2>3, <2>4, <2>5
<1>6. ASSUME NEW h \in Handles, Close(h) PROVE BaseInv'
  <2> DEFINE p == ProcOf[h]
             left == (refs[href[h]] - 1) % RefMod
  <2>1. /\ hpc[h] \in {"leave", "again"} /\ p \in Procs /\ ppc[p] \in {"idle"} \cup InitPhases
        /\ refs' = [refs EXCEPT ![href[h]] = left]
        /\ UNCHANGED <<dirVars, apiFile, lock, ds, href, closed, editVars, seen, boundVars>>
    BY <1>6 DEF Close, MayClose, OnlyOneFree, RepoAssumption
  <2>2. href[h] \in Handles /\ ProcOf[href[h]] = p /\ left \in 0 .. RefMod - 1
    BY <2>1, CounterWide DEF TypeOK, RefInv
  <2>3. refs' \in [Handles -> 0 .. RefMod - 1]
    BY <2>1, <2>2, ExceptType DEF TypeOK
  <2>4. CASE left > 0
    <3>1. hpc' = [hpc EXCEPT ![h] = AfterClose(h)] /\ UNCHANGED <<ppc, actor, active>>
      BY <1>6, <2>4 DEF Close, HGoTo
    <3>2. AfterClose(h) \in {"again", "done"}
      BY DEF AfterClose
    <3> HIDE DEF left, p
    <3>3. TypeOK'
      BY <2>1, <2>3, <3>1, <3>2 DEF TypeOK, HandleStates, dirVars, editVars, boundVars
    <3>4. /\ hpc'[h] \in {"again", "done"} /\ \A g \in Handles \ {h} : hpc'[g] = hpc[g]
          /\ \A g \in Handles : g # href[h] => refs'[g] = refs[g]
      BY <2>1, <3>1, <3>2 DEF TypeOK
    <3>5. PresentInv' /\ OneDaemon'
      BY <2>1, <3>1, <3>4 DEF PresentInv, OneDaemon, dirVars, TypeOK
    <3>6. RefInv'
      BY <2>1, <2>2, <3>1, <3>4 DEF RefInv, TypeOK
    <3>7. ActorInv'
      BY <2>1, <2>2, <3>1, <3>4 DEF ActorInv, RefInv, TypeOK, p
    <3> QED BY <3>3, <3>5, <3>6, <3>7
  <2>5. CASE left = 0
    <3>1. /\ ppc[p] = "idle" /\ active' = [active EXCEPT ![p] = None]
          /\ ppc' = [ppc EXCEPT ![p] = "removeApi"] /\ actor' = [actor EXCEPT ![p] = h]
          /\ UNCHANGED hpc
      BY <1>6, <2>5 DEF Close, Begin
    <3>2. refs'[href[h]] = 0 /\ \A g \in Handles : g # href[h] => refs'[g] = refs[g]
      BY <2>1, <2>2, <2>5 DEF TypeOK
    <3> HIDE DEF left
    <3>3. TypeOK'
      BY <2>1, <2>3, <3>1 DEF TypeOK, ProcStates, dirVars, editVars, boundVars
    <3>4. PresentInv' /\ OneDaemon'
      BY <2>1, <3>1 DEF PresentInv, OneDaemon, dirVars, TypeOK
    <3>5. RefInv'
      BY <2>1, <3>1 DEF RefInv, TypeOK
    <3>6. ActorInv'
      <4> SUFFICES ASSUME NEW q \in Procs PROVE ActorInv!(q)'
        BY DEF ActorInv
      <4>1. CASE q = p
        BY <2>1, <2>2, <3>1, <3>2, <4>1 DEF TypeOK, RepoAssumption
      <4>2. CASE q # p
        BY <2>1, <2>2, <3>1, <3>2, <4>2 DEF ActorInv, RefInv, TypeOK
      <4> QED BY <4>1, <4>2
    <3> QED BY <3>3, <3>4, <3>5, <3>6
  <2> QED BY <2>2, <2>4, <2>5
<1>7. ASSUME NEW p \in Procs, InitConfig(p) PROVE BaseInv'
  <2> USE <1>7 DEF InitConfig, PGoTo, refVars, editVars, boundVars
  <2>1. TypeOK'
    <3>1. configFile' \in FileConfig \cup {None, Torn}
      BY DEF TypeOK, FileConfig, FreshConfig
    <3> QED BY <3>1 DEF TypeOK, ProcStates
  <2>2. PresentInv'
    BY DEF TypeOK, PresentInv
  <2>3. ActorInv'
    BY DEF TypeOK, ActorInv, RefInv, RepoAssumption
  <2>4. RefInv'
    BY DEF TypeOK, ActorInv, RefInv, RepoAssumption
  <2>5. OneDaemon'
    BY DEF TypeOK, OneDaemon, ActorInv
  <2> QED BY <2>1, <2>2, <2>3, <2>4, <2>5
<1>8. ASSUME NEW p \in Procs, InitSpec(p) PROVE BaseInv'
  <2> USE <1>8 DEF InitSpec, PGoTo, refVars, editVars, boundVars
  <2>1. TypeOK'
    BY DEF TypeOK, ProcStates, HandleStates, ActorInv
  <2>2. PresentInv'
    BY DEF TypeOK, PresentInv
  <2>3. ActorInv'
    BY DEF TypeOK, ActorInv, RefInv, RepoAssumption
  <2>4. RefInv'
    BY DEF TypeOK, ActorInv, RefInv, RepoAssumption
  <2>5. OneDaemon'
    BY DEF TypeOK, OneDaemon, ActorInv
  <2> QED BY <2>1, <2>2, <2>3, <2>4, <2>5
<1>9. ASSUME NEW p \in Procs, InitVersion(p) PROVE BaseInv'
  <2> USE <1>9 DEF InitVersion, HGoTo, Begin, Finish, refVars, editVars, boundVars
  <2>1. TypeOK'
    BY DEF TypeOK, ProcStates, HandleStates, ActorInv
  <2>2. PresentInv'
    BY DEF TypeOK, PresentInv
  <2>3. ActorInv'
    BY DEF TypeOK, ActorInv, RefInv, RepoAssumption
  <2>4. RefInv'
    BY DEF TypeOK, ActorInv, RefInv, RepoAssumption
  <2>5. OneDaemon'
    BY DEF TypeOK, OneDaemon, ActorInv
  <2> QED BY <2>1, <2>2, <2>3, <2>4, <2>5
<1>10. ASSUME NEW p \in Procs, OpenLock(p) PROVE BaseInv'
  <2> USE <1>10 DEF OpenLock, PGoTo, dirVars, refVars, editVars, boundVars
  <2>1. TypeOK'
    BY DEF TypeOK, ProcStates, HandleStates, ActorInv
  <2>2. PresentInv'
    BY DEF TypeOK, PresentInv
  <2>3. ActorInv'
    BY DEF TypeOK, ActorInv, RefInv, RepoAssumption
  <2>4. RefInv'
    BY DEF TypeOK, ActorInv, RefInv, RepoAssumption
  <2>5. OneDaemon'
    BY DEF TypeOK, OneDaemon, ActorInv
  <2> QED BY <2>1, <2>2, <2>3, <2>4, <2>5
<1>11. ASSUME NEW p \in Procs, OpenLocked(p) PROVE BaseInv'
  <2> USE <1>11 DEF OpenLocked, HGoTo, Begin, Finish, dirVars, refVars, editVars, boundVars
  <2>1. TypeOK'
    BY DEF TypeOK, ProcStates, HandleStates, ActorInv
  <2>2. PresentInv'
    BY DEF TypeOK, PresentInv
  <2>3. ActorInv'
    BY DEF TypeOK, ActorInv, RefInv, RepoAssumption
  <2>4. RefInv'
    BY DEF TypeOK, ActorInv, RefInv, RepoAssumption
  <2>5. OneDaemon'
    BY DEF TypeOK, OneDaemon, ActorInv
  <2> QED BY <2>1, <2>2, <2>3, <2>4, <2>5
<1>12. ASSUME NEW p \in Procs, OpenVersion(p) PROVE BaseInv'
  <2> USE <1>12 DEF OpenVersion, HGoTo, PGoTo, Begin, Finish, OpenError, dirVars, refVars, editVars, boundVars
  <2>1. TypeOK'
    BY SMTT(20) DEF TypeOK, ProcStates, HandleStates, ActorInv
  <2>2. PresentInv'
    BY DEF TypeOK, PresentInv
  <2>3. ActorInv'
    BY DEF TypeOK, ActorInv, RefInv, RepoAssumption
  <2>4. RefInv'
    BY DEF TypeOK, ActorInv, RefInv, RepoAssumption
  <2>5. OneDaemon'
    BY DEF TypeOK, OneDaemon, ActorInv
  <2> QED BY <2>1, <2>2, <2>3, <2>4, <2>5
<1>13. ASSUME NEW p \in Procs, OpenConfig(p) PROVE BaseInv'
  <2> USE <1>13 DEF OpenConfig, HGoTo, PGoTo, Begin, Finish, OpenError, dirVars, refVars, boundVars
  <2>1. TypeOK'
    <3>1. actor[p] \in Handles /\ configFile # None
      BY DEF ActorInv, PresentInv
    <3>2. <<actor[p], "opened">> \in Objects
      BY <3>1 DEF Objects
    <3>3. configFile # Torn => FromMap(configFile) \in Config
      BY <3>1 DEF TypeOK, FromMap, Config, FileConfig
    <3>4. heap' \in [Objects -> Config]
      BY <3>3, ExceptType DEF TypeOK
    <3>5. cur' \in [Handles -> Objects]
      BY <3>2, ExceptType DEF TypeOK
    <3>6. lock' \in Handles \cup {None} /\ hpc' \in [Handles -> HandleStates]
      BY <3>1 DEF TypeOK, HandleStates
    <3>7. ppc' \in [Procs -> ProcStates] /\ actor' \in [Procs -> Handles \cup {None}]
      BY SMTT(20), <3>1 DEF TypeOK, ProcStates
    <3> QED BY <3>4, <3>5, <3>6, <3>7 DEF TypeOK
  <2>2. PresentInv'
    BY DEF TypeOK, PresentInv
  <2>3. ActorInv'
    BY DEF TypeOK, ActorInv, RefInv, RepoAssumption
  <2>4. RefInv'
    BY SMTT(20) DEF TypeOK, ActorInv, RefInv, RepoAssumption
  <2>5. OneDaemon'
    BY DEF TypeOK, OneDaemon, ActorInv
  <2> QED BY <2>1, <2>2, <2>3, <2>4, <2>5
<1>14. ASSUME NEW p \in Procs, OpenDatastore(p) PROVE BaseInv'
  <2> USE <1>14 DEF OpenDatastore, HGoTo, PGoTo, Begin, Finish, OpenError, dirVars, refVars, editVars, boundVars
  <2>1. TypeOK'
    <3>1. {lock', ds'} \subseteq Handles \cup {None} /\ hpc' \in [Handles -> HandleStates]
      BY DEF TypeOK, HandleStates, ActorInv
    <3>2. ppc' \in [Procs -> ProcStates] /\ actor' \in [Procs -> Handles \cup {None}]
      BY DEF TypeOK, ProcStates
    <3> QED BY <3>1, <3>2 DEF TypeOK
  <2>2. PresentInv'
    BY DEF TypeOK, PresentInv
  <2>3. ActorInv'
    BY DEF TypeOK, ActorInv, RefInv, RepoAssumption
  <2>4. RefInv'
    BY DEF TypeOK, ActorInv, RefInv, RepoAssumption
  <2>5. OneDaemon'
    BY DEF TypeOK, OneDaemon, ActorInv
  <2> QED BY <2>1, <2>2, <2>3, <2>4, <2>5
<1>15. ASSUME NEW p \in Procs, OpenDone(p) PROVE BaseInv'
  <2> USE <1>15 DEF OpenDone, HGoTo, Begin, Finish, dirVars, editVars, boundVars
  <2>1. TypeOK'
    BY CounterWide DEF TypeOK, ProcStates, HandleStates, ActorInv
  <2>2. PresentInv'
    BY DEF TypeOK, PresentInv
  <2>3. ActorInv'
    BY DEF TypeOK, ActorInv, RefInv, RepoAssumption
  <2>4. RefInv'
    BY DEF TypeOK, ActorInv, RefInv, RepoAssumption
  <2>5. OneDaemon'
    BY DEF TypeOK, OneDaemon, ActorInv
  <2> QED BY <2>1, <2>2, <2>3, <2>4, <2>5
<1>16. ASSUME NEW p \in Procs, OpenKeystoreError(p) PROVE BaseInv'
  <2> USE <1>16 DEF OpenKeystoreError, HGoTo, Begin, Finish, OpenError, dirVars, refVars, editVars
  <2>1. TypeOK'
    BY DEF TypeOK, Fault, ProcStates, HandleStates, ActorInv
  <2>2. PresentInv'
    BY DEF TypeOK, PresentInv
  <2>3. ActorInv'
    BY DEF TypeOK, ActorInv, RefInv, RepoAssumption
  <2>4. RefInv'
    BY DEF TypeOK, ActorInv, RefInv, RepoAssumption
  <2>5. OneDaemon'
    BY DEF TypeOK, OneDaemon, ActorInv
  <2> QED BY <2>1, <2>2, <2>3, <2>4, <2>5
<1>17. ASSUME NEW p \in Procs, CloseRemoveApi(p) PROVE BaseInv'
  <2> USE <1>17 DEF CloseRemoveApi, PGoTo, dirVars, refVars, editVars, boundVars
  <2>1. TypeOK'
    BY DEF TypeOK, ProcStates, HandleStates, ActorInv
  <2>2. PresentInv'
    BY DEF TypeOK, PresentInv
  <2>3. ActorInv'
    BY DEF TypeOK, ActorInv, RefInv, RepoAssumption
  <2>4. RefInv'
    BY DEF TypeOK, ActorInv, RefInv, RepoAssumption
  <2>5. OneDaemon'
    BY DEF TypeOK, OneDaemon, ActorInv
  <2> QED BY <2>1, <2>2, <2>3, <2>4, <2>5
<1>18. ASSUME NEW p \in Procs, CloseDatastore(p) PROVE BaseInv'
  <2> USE <1>18 DEF CloseDatastore, PGoTo, dirVars, refVars, editVars, boundVars
  <2>1. TypeOK'
    BY DEF TypeOK, ProcStates, HandleStates, ActorInv
  <2>2. PresentInv'
    BY DEF TypeOK, PresentInv
  <2>3. ActorInv'
    BY DEF TypeOK, ActorInv, RefInv, RepoAssumption
  <2>4. RefInv'
    BY DEF TypeOK, ActorInv, RefInv, RepoAssumption
  <2>5. OneDaemon'
    BY DEF TypeOK, OneDaemon, ActorInv
  <2> QED BY <2>1, <2>2, <2>3, <2>4, <2>5
<1>19. ASSUME NEW p \in Procs, CloseDatastoreError(p) PROVE BaseInv'
  <2> USE <1>19 DEF CloseDatastoreError, AfterClose, HGoTo, Begin, Finish, dirVars, refVars, editVars
  <2>1. TypeOK'
    BY DEF TypeOK, Fault, ProcStates, HandleStates, ActorInv
  <2>2. PresentInv'
    BY DEF TypeOK, PresentInv
  <2>3. ActorInv'
    BY DEF TypeOK, ActorInv, RefInv, RepoAssumption
  <2>4. RefInv'
    BY DEF TypeOK, ActorInv, RefInv, RepoAssumption
  <2>5. OneDaemon'
    BY DEF TypeOK, OneDaemon, ActorInv
  <2> QED BY <2>1, <2>2, <2>3, <2>4, <2>5
<1>20. ASSUME NEW p \in Procs, CloseUnlock(p) PROVE BaseInv'
  <2> USE <1>20 DEF CloseUnlock, AfterClose, HGoTo, Begin, Finish, dirVars, editVars, boundVars
  <2>1. TypeOK'
    BY DEF TypeOK, ProcStates, HandleStates, ActorInv
  <2>2. PresentInv'
    BY DEF TypeOK, PresentInv
  <2>3. ActorInv'
    BY DEF TypeOK, ActorInv, RefInv, RepoAssumption
  <2>4. RefInv'
    BY DEF TypeOK, ActorInv, RefInv, RepoAssumption
  <2>5. OneDaemon'
    BY DEF TypeOK, OneDaemon, ActorInv
  <2> QED BY <2>1, <2>2, <2>3, <2>4, <2>5
<1>21. ASSUME NEW p \in Procs, Crash(p) PROVE BaseInv'
  <2> USE <1>21 DEF Crash, Begin, dirVars, editVars
  <2>1. TypeOK'
    BY DEF TypeOK, ProcStates, HandleStates, RepoAssumption, ActorInv
  <2>2. PresentInv'
    BY DEF TypeOK, PresentInv
  <2>3. ActorInv'
    BY DEF TypeOK, ActorInv, RefInv, RepoAssumption
  <2>4. RefInv'
    BY DEF TypeOK, ActorInv, RefInv, RepoAssumption
  <2>5. OneDaemon'
    BY DEF TypeOK, OneDaemon, ActorInv
  <2> QED BY <2>1, <2>2, <2>3, <2>4, <2>5
<1> QED BY <1>0, <1>1, <1>2, <1>3, <1>4, <1>5, <1>6, <1>7, <1>8, <1>9, <1>10, <1>11, <1>12, <1>13, <1>14, <1>15, <1>16, <1>17, <1>18, <1>19, <1>20, <1>21 DEF OpenNext

LEMMA BaseStep == ASSUME RepoAssumption, BaseInv, [Next]_vars PROVE BaseInv'
<1>1. CASE OpenNext
  BY <1>1, OpenBase
<1>2. ASSUME NEW h \in Handles,
             \/ GetConfig(h) \/ BootTake(h) \/ BootPut(h) \/ CloneConfig(h) \/ AddService(h) \/ RmService(h)
             \/ SetConfig(h) \/ SetConfigError(h)
             \/ SetConfigKey(h) \/ SetConfigKeyRefused(h)
      PROVE  BaseInv'
  <2>1. Moves(h)
    BY <1>2, EditMoves DEF BaseInv
  <2>2. TypeOK' /\ (configFile # None => configFile' # None)
    BY <1>2, EditType
  <2> QED BY <2>1, <2>2, MovesBase DEF BaseInv
<1>3. CASE UNCHANGED vars
  BY <1>3 DEF vars, dirVars, refVars, editVars, boundVars, BaseInv, TypeOK, PresentInv, ActorInv, RefInv, OneDaemon
<1> QED BY <1>1, <1>2, <1>3 DEF Next, ConfigNext

-----------------------------------------------------------------------------
(***************************************************************************)
(* OnlyOne's reference counter.                                            *)
(***************************************************************************)

\* A step that leaves the callers of a process as they are leaves it counted.
LEMMA CountSame ==
  ASSUME BaseInv, NEW p \in Procs, CountOf(p),
         Sure(p)' = Sure(p), Perhaps(p)' = Perhaps(p), active'[p] = active[p],
         \A h \in Handles : ProcOf[h] = p => href'[h] = href[h] /\ refs'[h] = refs[h]
  PROVE  CountOf(p)'
<1>1. \A h \in Sure(p) \cup Perhaps(p) : h \in Handles /\ href'[h] = href[h]
  BY DEF Sure, Perhaps
<1>2. \A h \in Perhaps(p) : href[h] \in Handles /\ ProcOf[href[h]] = p
  BY DEF Perhaps, BaseInv, RefInv, TypeOK
<1>3. active[p] # None => active[p] \in Handles /\ ProcOf[active[p]] = p
  BY DEF BaseInv, RefInv, TypeOK
<1>4. active[p] # None => {h \in Perhaps(p) : href[h] = active[p]} = {h \in Perhaps(p)' : href'[h] = active'[p]}
  BY <1>1
<1> QED BY <1>1, <1>2, <1>3, <1>4 DEF CountOf

LEMMA CountInit == ASSUME RepoAssumption, Init PROVE CountInv
BY DEF Init, CountInv, CountOf, Sure, Perhaps, UsingStates, Editing, CommandKinds

LEMMA MovesCount == ASSUME RepoAssumption, BaseInv, CountInv, NEW h \in Handles, Moves(h) PROVE CountInv'
<1> SUFFICES ASSUME NEW p \in Procs PROVE CountOf(p)'
  BY DEF CountInv
<1>1. PICK s \in UsingStates \cup {"leave"} : hpc' = [hpc EXCEPT ![h] = s]
  BY DEF Moves
<1>2. /\ hpc[h] \in UsingStates
      /\ hpc'[h] = s /\ \A g \in Handles \ {h} : hpc'[g] = hpc[g]
      /\ UNCHANGED openVars
  BY <1>1 DEF Moves, BaseInv, TypeOK
<1>3. Sure(p)' = Sure(p) /\ Perhaps(p)' = Perhaps(p)
  BY <1>1, <1>2 DEF Sure, Perhaps, openVars, UsingStates, Editing, CommandKinds
<1> QED BY <1>2, <1>3, CountSame DEF CountInv, openVars, refVars

\* Until the last of its steps, Open counts nobody, and Close nobody after its first.
LEMMA UncountedSteps ==
  ASSUME RepoAssumption, BaseInv, CountInv,
         \/ \E h \in Handles : InitStart(h) \/ OpenCall(h) \/ OpenFirst(h)
         \/ \E p \in Procs :
              \/ InitConfig(p) \/ InitSpec(p) \/ InitVersion(p)
              \/ OpenLock(p) \/ OpenLocked(p) \/ OpenVersion(p) \/ OpenConfig(p)
              \/ OpenDatastore(p) \/ OpenKeystoreError(p)
              \/ CloseRemoveApi(p) \/ CloseDatastore(p)
  PROVE  CountInv'
<1> SUFFICES ASSUME NEW q \in Procs PROVE CountOf(q)'
  BY DEF CountInv
<1> USE DEF BaseInv, TypeOK, ActorInv, Sure, Perhaps, InitPhases, OpenPhases, HeldPhases, ClosePhases,
            UsingStates, Editing, CommandKinds
<1> DEFINE Same == Sure(q)' = Sure(q) /\ Perhaps(q)' = Perhaps(q)
<1>1. ASSUME NEW h \in Handles, InitStart(h) PROVE Same
  BY <1>1 DEF InitStart, HGoTo, Begin
<1>2. ASSUME NEW h \in Handles, OpenCall(h) PROVE Same
  BY <1>2 DEF OpenCall, HGoTo
<1>3. ASSUME NEW h \in Handles, OpenFirst(h) PROVE Same
  BY <1>3 DEF OpenFirst, HGoTo, Begin
<1>4. ASSUME NEW p \in Procs, InitConfig(p) PROVE Same
  BY <1>4 DEF InitConfig, PGoTo
<1>5. ASSUME NEW p \in Procs, InitSpec(p) PROVE Same
  BY <1>5 DEF InitSpec, PGoTo
<1>6. ASSUME NEW p \in Procs, InitVersion(p) PROVE Same
  BY <1>6 DEF InitVersion, Finish, Begin, HGoTo
<1>7. ASSUME NEW p \in Procs, OpenLock(p) PROVE Same
  BY <1>7 DEF OpenLock, PGoTo
<1>8. ASSUME NEW p \in Procs, OpenLocked(p) PROVE Same
  BY <1>8 DEF OpenLocked, Finish, Begin, HGoTo
<1>9. ASSUME NEW p \in Procs, OpenVersion(p) PROVE Same
  BY <1>9 DEF OpenVersion, PGoTo, OpenError, Finish, Begin, HGoTo
<1>10. ASSUME NEW p \in Procs, OpenConfig(p) PROVE Same
  BY <1>10 DEF OpenConfig, PGoTo, OpenError, Finish, Begin, HGoTo
<1>11. ASSUME NEW p \in Procs, OpenDatastore(p) PROVE Same
  BY <1>11 DEF OpenDatastore, PGoTo, OpenError, Finish, Begin, HGoTo
<1>12. ASSUME NEW p \in Procs, OpenKeystoreError(p) PROVE Same
  BY <1>12 DEF OpenKeystoreError, OpenError, Finish, Begin, HGoTo
<1>13. ASSUME NEW p \in Procs, CloseRemoveApi(p) PROVE Same
  BY <1>13 DEF CloseRemoveApi, PGoTo
<1>14. ASSUME NEW p \in Procs, CloseDatastore(p) PROVE Same
  BY <1>14 DEF CloseDatastore, PGoTo
<1>15. Same
  BY <1>1, <1>2, <1>3, <1>4, <1>5, <1>6, <1>7, <1>8, <1>9, <1>10, <1>11, <1>12, <1>13, <1>14
<1>16. UNCHANGED refVars
  BY DEF InitStart, OpenCall, OpenFirst, InitConfig, InitSpec, InitVersion, OpenLock, OpenLocked, OpenVersion,
         OpenConfig, OpenDatastore, OpenKeystoreError, CloseRemoveApi, CloseDatastore
<1> QED BY <1>15, <1>16, CountSame DEF CountInv, refVars

LEMMA OtherCount ==
  ASSUME BaseInv, CountInv, NEW q \in Procs,
         active'[q] = active[q], actor'[q] = actor[q],
         \A h \in Handles : ProcOf[h] = q => hpc'[h] = hpc[h] /\ href'[h] = href[h] /\ refs'[h] = refs[h]
  PROVE  CountOf(q)'
<1>1. Sure(q)' = Sure(q) /\ Perhaps(q)' = Perhaps(q)
  BY DEF Sure, Perhaps
<1> QED BY <1>1, CountSame DEF CountInv

LEMMA SureFinite ==
  ASSUME RepoAssumption, NEW p, NEW B \in SUBSET Perhaps(p)
  PROVE  /\ IsFiniteSet(Sure(p) \cup B)
         /\ Cardinality(Sure(p) \cup B) \in Nat
         /\ Cardinality(Sure(p) \cup B) <= Cardinality(Handles)
<1>1. Sure(p) \cup B \subseteq Handles
  BY DEF Sure, Perhaps
<1>2. IsFiniteSet(Handles)
  BY DEF RepoAssumption
<1> QED BY <1>1, <1>2, FS_Subset, FS_CardinalityType

LEMMA OpenSharedCount ==
  ASSUME RepoAssumption, BaseInv, CountInv, NEW h \in Handles, OpenShared(h)
  PROVE  CountInv'
<1> DEFINE p == ProcOf[h]
           r == active[p]
<1>1. /\ p \in Procs /\ r \in Handles /\ r # None /\ ProcOf[r] = p /\ hpc[h] = "opening"
      /\ ppc[p] \in {"idle"} \cup InitPhases
  BY DEF OpenShared, OnlyOneFree, InitPhases, BaseInv, TypeOK, RefInv, RepoAssumption
<1>2. actor[p] # h
  BY <1>1 DEF BaseInv, ActorInv, InitPhases, RepoAssumption
<1>3. PICK B \in SUBSET {g \in Perhaps(p) : href[g] = r} : refs[r] = Cardinality(Sure(p) \cup B)
  BY <1>1 DEF CountInv, CountOf
<1>4. IsFiniteSet(Sure(p) \cup B) /\ refs[r] \in Nat /\ refs[r] <= Cardinality(Handles)
  <2>1. B \in SUBSET Perhaps(p)
    BY <1>3
  <2> HIDE DEF p
  <2>2. /\ IsFiniteSet(Sure(p) \cup B) /\ Cardinality(Sure(p) \cup B) \in Nat
        /\ Cardinality(Sure(p) \cup B) <= Cardinality(Handles)
    BY <2>1, SureFinite, Zenon
  <2> QED BY <1>3, <2>2
<1>5. (refs[r] + 1) % RefMod = refs[r] + 1
  BY <1>4, CounterWide, CounterUp
<1>6. /\ refs'[r] = refs[r] + 1 /\ \A g \in Handles \ {r} : refs'[g] = refs[g]
      /\ href'[h] = r /\ \A g \in Handles \ {h} : href'[g] = href[g]
      /\ hpc'[h] = "open" /\ \A g \in Handles \ {h} : hpc'[g] = hpc[g]
      /\ UNCHANGED <<active, actor>>
  BY <1>1, <1>5 DEF OpenShared, HGoTo, BaseInv, TypeOK
<1> HIDE DEF p, r
<1>7. /\ Sure(p)' = Sure(p) \cup {h} /\ Perhaps(p)' = Perhaps(p)
      /\ h \notin Sure(p) /\ h \notin Perhaps(p)
  BY <1>1, <1>2, <1>6 DEF Sure, Perhaps, UsingStates, Editing, CommandKinds, p
<1>8. CountOf(p)'
  <2>1. Cardinality(Sure(p)' \cup B) = refs'[r]
    <3>1. Sure(p)' \cup B = (Sure(p) \cup B) \cup {h} /\ h \notin Sure(p) \cup B
      BY <1>7
    <3>2. Cardinality((Sure(p) \cup B) \cup {h}) = Cardinality(Sure(p) \cup B) + 1
      BY <3>1, <1>4, FS_AddElement
    <3> QED BY <3>1, <3>2, <1>3, <1>6
  <2>2. \A g \in Perhaps(p)' : g \in Handles /\ href'[g] = href[g] /\ href[g] \in Handles
    BY <1>6, <1>7 DEF Perhaps, BaseInv, RefInv, TypeOK
  <2>3. B \in SUBSET {g \in Perhaps(p)' : href'[g] = active'[p]}
    BY <1>3, <1>6, <1>7, <2>2 DEF r
  <2>4. \A g \in Sure(p)' : href'[g] = active'[p]
    BY <1>1, <1>6, <1>7 DEF r, CountInv, CountOf, Sure
  <2>5. \A g \in Perhaps(p)' : href'[g] = active'[p] \/ refs'[href'[g]] = 0
    BY <1>1, <1>6, <1>7, <2>2 DEF r, CountInv, CountOf
  <2>6. active'[p] = r /\ refs'[r] > 0
    BY <1>1, <1>4, <1>6 DEF r
  <2>7. \E C \in SUBSET {g \in Perhaps(p)' : href'[g] = active'[p]} : refs'[r] = Cardinality(Sure(p)' \cup C)
    BY <2>1, <2>3
  <2> QED BY <1>1, <2>4, <2>5, <2>6, <2>7 DEF CountOf
<1>9. ASSUME NEW q \in Procs, q # p PROVE CountOf(q)'
  BY <1>1, <1>6, <1>9, OtherCount DEF p
<1> QED BY <1>8, <1>9 DEF CountInv

LEMMA DaemonFailsCount ==
  ASSUME RepoAssumption, BaseInv, CountInv, NEW h \in Handles, DaemonFails(h)
  PROVE  CountInv'
<1> DEFINE p == ProcOf[h]
           r == active[p]
<1>1. /\ p \in Procs /\ hpc[h] = "open" /\ hpc'[h] = "again"
      /\ \A g \in Handles \ {h} : hpc'[g] = hpc[g]
      /\ UNCHANGED <<active, actor, refs, href>>
  BY DEF DaemonFails, HGoTo, BaseInv, TypeOK, RepoAssumption, refVars
<1>2. actor[p] # h
  BY <1>1 DEF BaseInv, ActorInv, TypeOK, ProcStates, InitPhases, OpenPhases, HeldPhases, ClosePhases, RepoAssumption
<1>3. h \in Sure(p) /\ Sure(p)' = Sure(p) \ {h} /\ Perhaps(p)' = Perhaps(p) \cup {h}
  BY <1>1, <1>2 DEF Sure, Perhaps, UsingStates, Editing, CommandKinds
<1>4. r # None /\ href[h] = r
  BY <1>1, <1>3 DEF CountInv, CountOf
<1>5. PICK B \in SUBSET {g \in Perhaps(p) : href[g] = r} : refs[r] = Cardinality(Sure(p) \cup B)
  BY <1>1, <1>4 DEF CountInv, CountOf
<1>6. CountOf(p)'
  <2>1. Sure(p)' \cup (B \cup {h}) = Sure(p) \cup B
    BY <1>3
  <2>2. B \cup {h} \in SUBSET {g \in Perhaps(p)' : href'[g] = active'[p]}
    BY <1>1, <1>3, <1>4, <1>5
  <2>3. refs'[r] = Cardinality(Sure(p)' \cup (B \cup {h}))
    BY <1>1, <1>5, <2>1
  <2>4. \E C \in SUBSET {g \in Perhaps(p)' : href'[g] = active'[p]} : refs'[r] = Cardinality(Sure(p)' \cup C)
    BY <2>2, <2>3
  <2>5. active'[p] = r /\ refs'[r] > 0 /\ \A g \in Sure(p)' : href'[g] = r
    BY <1>1, <1>3, <1>4 DEF CountInv, CountOf
  <2>6. \A g \in Perhaps(p)' : href'[g] = r \/ refs'[href'[g]] = 0
    BY <1>1, <1>3, <1>4 DEF CountInv, CountOf
  <2> QED BY <1>4, <2>4, <2>5, <2>6 DEF CountOf
<1>7. ASSUME NEW q \in Procs, q # p PROVE CountOf(q)'
  BY <1>1, <1>7, OtherCount
<1> QED BY <1>6, <1>7 DEF CountInv

\* The first Close of each caller takes its reference.
LEMMA CloseLeaveCount ==
  ASSUME RepoAssumption, BaseInv, CountInv, NEW h \in Handles, Close(h), hpc[h] = "leave"
  PROVE  CountInv'
<1> DEFINE p == ProcOf[h]
           r == active[p]
           left == (refs[href[h]] - 1) % RefMod
<1>1. /\ p \in Procs /\ ppc[p] \in {"idle"} \cup InitPhases /\ href[h] \in Handles /\ ProcOf[href[h]] = p
      /\ UNCHANGED href
  BY DEF Close, OnlyOneFree, InitPhases, BaseInv, TypeOK, RefInv, RepoAssumption
<1>2. actor[p] # h
  BY <1>1 DEF BaseInv, ActorInv, InitPhases, RepoAssumption
<1>3. h \in Sure(p) /\ h \notin Perhaps(p)
  BY <1>2 DEF Sure, Perhaps
<1>4. r # None /\ href[h] = r
  BY <1>1, <1>3 DEF CountInv, CountOf
<1>5. PICK B \in SUBSET {g \in Perhaps(p) : href[g] = r} : refs[r] = Cardinality(Sure(p) \cup B)
  BY <1>1, <1>4 DEF CountInv, CountOf
<1>6. refs[r] \in 0 .. RefMod - 1 /\ refs[r] > 0
  BY <1>1, <1>4 DEF BaseInv, TypeOK, CountInv, CountOf
<1>7. left = refs[r] - 1
  BY <1>4, <1>6, CounterWide, CounterDown
<1>8. refs'[r] = left /\ \A g \in Handles \ {r} : refs'[g] = refs[g]
  BY <1>1, <1>4 DEF Close, BaseInv, TypeOK
<1>9. Cardinality((Sure(p) \cup B) \ {h}) = left /\ IsFiniteSet((Sure(p) \cup B) \ {h})
  <2>1. B \in SUBSET Perhaps(p)
    BY <1>5
  <2> HIDE DEF p
  <2>2. IsFiniteSet(Sure(p) \cup B)
    BY <2>1, SureFinite, Zenon
  <2>3. Cardinality((Sure(p) \cup B) \ {h}) = Cardinality(Sure(p) \cup B) - 1 /\ IsFiniteSet((Sure(p) \cup B) \ {h})
    BY <2>2, <1>3, FS_RemoveElement
  <2> QED BY <2>3, <1>5, <1>7
<1>10. (Sure(p) \cup B) \ {h} = (Sure(p) \ {h}) \cup B
  BY <1>3, <1>5
<1>11. \A g \in Perhaps(p) : g \in Handles /\ href[g] \in Handles
  BY DEF Perhaps, BaseInv, RefInv, TypeOK
<1>12. ASSUME NEW q \in Procs, q # p, \A g \in Handles \ {h} : hpc'[g] = hpc[g],
              active'[q] = active[q], actor'[q] = actor[q]
       PROVE  CountOf(q)'
  BY <1>1, <1>4, <1>8, <1>12, OtherCount
<1>13. CASE left > 0
  <2>1. hpc' = [hpc EXCEPT ![h] = AfterClose(h)] /\ UNCHANGED <<ppc, actor, active>>
    BY <1>13 DEF Close, HGoTo
  <2>2. AfterClose(h) \in {"again", "done"}
    BY DEF AfterClose
  <2>3. hpc'[h] \in {"again", "done"} /\ \A g \in Handles \ {h} : hpc'[g] = hpc[g]
    BY <2>1, <2>2 DEF BaseInv, TypeOK
  <2>4. /\ Sure(p)' = Sure(p) \ {h}
        /\ Perhaps(p) \subseteq Perhaps(p)' /\ Perhaps(p)' \subseteq Perhaps(p) \cup {h}
    BY <1>3, <2>1, <2>3 DEF Sure, Perhaps, UsingStates, Editing, CommandKinds
  <2> HIDE DEF left
  <2>5. CountOf(p)'
    <3>1. active'[p] = r /\ refs'[r] > 0 /\ \A g \in Sure(p)' : href'[g] = r
      BY <1>1, <1>4, <1>8, <1>13, <2>1, <2>4 DEF CountInv, CountOf
    <3>2. B \in SUBSET {g \in Perhaps(p)' : href'[g] = active'[p]}
      BY <1>1, <1>5, <2>1, <2>4
    <3>3. refs'[r] = Cardinality(Sure(p)' \cup B)
      BY <1>8, <1>9, <1>10, <2>4
    <3>4. \E C \in SUBSET {g \in Perhaps(p)' : href'[g] = active'[p]} : refs'[r] = Cardinality(Sure(p)' \cup C)
      BY <3>2, <3>3
    <3>5. \A g \in Perhaps(p)' : href'[g] = r \/ refs'[href'[g]] = 0
      BY <1>1, <1>4, <1>8, <1>11, <2>4 DEF CountInv, CountOf
    <3> QED BY <1>4, <3>1, <3>4, <3>5 DEF CountOf
  <2> QED BY <1>12, <2>1, <2>3, <2>5 DEF CountInv
<1>14. CASE left = 0
  <2>1. /\ active' = [active EXCEPT ![p] = None] /\ actor' = [actor EXCEPT ![p] = h] /\ UNCHANGED hpc
    BY <1>14 DEF Close, Begin
  <2>2. (Sure(p) \ {h}) \cup B = {}
    BY <1>9, <1>10, <1>14, FS_EmptySet
  <2>3. active'[p] = None /\ actor'[p] = h /\ \A q \in Procs \ {p} : active'[q] = active[q] /\ actor'[q] = actor[q]
    BY <1>1, <2>1 DEF BaseInv, TypeOK
  <2>4. actor[p] = None
    BY <1>1, <1>14 DEF Close, BaseInv, ActorInv
  <2>5. Sure(p)' = {} /\ Perhaps(p)' = Perhaps(p)
    BY <1>3, <2>1, <2>2, <2>3, <2>4, <1>1 DEF Sure, Perhaps, RepoAssumption
  <2> HIDE DEF left
  <2>6. CountOf(p)'
    BY <1>1, <1>8, <1>11, <1>14, <2>3, <2>5 DEF CountInv, CountOf
  <2> QED BY <1>12, <2>1, <2>3, <2>6 DEF CountInv
<1>15. left \in Nat
  BY <1>6, <1>7
<1> QED BY <1>13, <1>14, <1>15

\* The second Close of a daemon, or the only one of a daemon that failed: by now
\* no command of its process has the repository.
LEMMA CloseAgainCount ==
  ASSUME RepoAssumption, ~ SlowCommands, BaseInv, CountInv,
         NEW h \in Handles, Close(h), hpc[h] = "again"
  PROVE  CountInv' /\ (refs[href[h]] = 1 => href[h] = active[ProcOf[h]])
<1> DEFINE p == ProcOf[h]
           left == (refs[href[h]] - 1) % RefMod
<1>1. /\ p \in Procs /\ ppc[p] \in {"idle"} \cup InitPhases /\ href[h] \in Handles /\ ProcOf[href[h]] = p
      /\ \A c \in Handles \ {h} : ProcOf[c] = p => hpc[c] \in {"none", "done", "dead"}
      /\ UNCHANGED href
  BY DEF Close, MayClose, OnlyOneFree, InitPhases, BaseInv, TypeOK, RefInv, RepoAssumption
<1>2. actor[p] # h
  BY <1>1 DEF BaseInv, ActorInv, InitPhases, RepoAssumption
<1>3. Sure(p) = {} /\ Perhaps(p) = {h}
  BY <1>1, <1>2 DEF Sure, Perhaps, UsingStates, Editing, CommandKinds
<1>4. refs[href[h]] \in 0 .. RefMod - 1 /\ left = IF refs[href[h]] = 0 THEN RefMod - 1 ELSE refs[href[h]] - 1
  BY <1>1, CounterWide, CounterDown DEF BaseInv, TypeOK
<1>5. active[p] # None => active[p] = href[h] /\ refs[href[h]] = 1
  <2> SUFFICES ASSUME active[p] # None PROVE active[p] = href[h] /\ refs[href[h]] = 1
    OBVIOUS
  <2>1. PICK B \in SUBSET {g \in Perhaps(p) : href[g] = active[p]} : refs[active[p]] = Cardinality(Sure(p) \cup B)
    BY <1>1 DEF CountInv, CountOf
  <2>2. refs[active[p]] # 0
    BY <1>1 DEF CountInv, CountOf
  <2>3. B # {}
    BY <1>3, <2>1, <2>2, FS_EmptySet
  <2>4. B = {h} /\ href[h] = active[p]
    BY <1>3, <2>1, <2>3
  <2>5. Cardinality({h}) = 1
    BY FS_Singleton
  <2> QED BY <1>3, <2>1, <2>4, <2>5
<1>6. refs[href[h]] # 0 => active[p] = href[h]
  BY <1>1, <1>3 DEF CountInv, CountOf
<1>7. \A g \in Handles : ProcOf[g] # p => refs'[g] = refs[g]
  BY <1>1 DEF Close, BaseInv, TypeOK
<1>8. ASSUME NEW q \in Procs, q # p, \A g \in Handles \ {h} : hpc'[g] = hpc[g],
             active'[q] = active[q], actor'[q] = actor[q]
      PROVE  CountOf(q)'
  BY <1>1, <1>7, <1>8, OtherCount
<1>9. CASE left > 0
  <2>1. hpc' = [hpc EXCEPT ![h] = "done"] /\ UNCHANGED <<actor, active>>
    BY <1>9 DEF Close, HGoTo, AfterClose
  <2>2. hpc'[h] = "done" /\ \A g \in Handles \ {h} : hpc'[g] = hpc[g]
    BY <2>1 DEF BaseInv, TypeOK
  <2>3. active[p] = None
    <3> SUFFICES ASSUME active[p] # None PROVE FALSE
      OBVIOUS
    <3>1. refs[href[h]] = 1
      BY <1>5
    <3> QED BY <1>4, <1>9, <3>1
  <2>4. Sure(p)' = {} /\ Perhaps(p)' = {}
    BY <1>1, <2>1, <2>2 DEF Sure, Perhaps, UsingStates, Editing, CommandKinds
  <2>5. CountOf(p)'
    BY <2>1, <2>3, <2>4 DEF CountOf
  <2> QED BY <1>6, <1>8, <2>1, <2>2, <2>5 DEF CountInv
<1>10. CASE left = 0
  <2>1. /\ active' = [active EXCEPT ![p] = None] /\ actor' = [actor EXCEPT ![p] = h] /\ UNCHANGED hpc
    BY <1>10 DEF Close, Begin
  <2>2. active'[p] = None /\ actor'[p] = h /\ \A q \in Procs \ {p} : active'[q] = active[q] /\ actor'[q] = actor[q]
    BY <1>1, <2>1 DEF BaseInv, TypeOK
  <2>3. Sure(p)' = {} /\ Perhaps(p)' = {}
    BY <1>1, <2>1, <2>2 DEF Sure, Perhaps, UsingStates, Editing, CommandKinds
  <2>4. CountOf(p)'
    BY <2>2, <2>3 DEF CountOf
  <2> QED BY <1>6, <1>8, <2>1, <2>2, <2>4 DEF CountInv
<1>11. left \in Nat
  BY <1>4, CounterWide
<1> QED BY <1>9, <1>10, <1>11

LEMMA OpenDoneCount ==
  ASSUME RepoAssumption, BaseInv, CountInv, NEW p \in Procs, OpenDone(p)
  PROVE  CountInv'
<1> DEFINE r == actor[p]
<1>1. r \in Handles /\ ProcOf[r] = p /\ hpc[r] = "opening" /\ active[p] = None
  BY DEF OpenDone, BaseInv, ActorInv, OpenPhases, HeldPhases
<1>2. /\ active'[p] = r /\ actor'[p] = None
      /\ \A q \in Procs \ {p} : active'[q] = active[q] /\ actor'[q] = actor[q]
      /\ hpc'[r] = "open" /\ refs'[r] = 1 /\ href'[r] = r
      /\ \A g \in Handles \ {r} : hpc'[g] = hpc[g] /\ refs'[g] = refs[g] /\ href'[g] = href[g]
  BY <1>1 DEF OpenDone, Finish, Begin, HGoTo, BaseInv, TypeOK
<1>3. Sure(p) = {} /\ \A g \in Perhaps(p) : refs[href[g]] = 0 /\ g \in Handles /\ href[g] \in Handles
  BY <1>1 DEF CountInv, CountOf, Perhaps, BaseInv, RefInv, TypeOK
<1>4. Sure(p)' = {r} /\ Perhaps(p)' = Perhaps(p) /\ r \notin Perhaps(p)
  BY <1>1, <1>2, <1>3 DEF Sure, Perhaps, UsingStates, Editing, CommandKinds, RepoAssumption
<1>5. CountOf(p)'
  <2>1. Cardinality(Sure(p)' \cup {}) = 1
    BY <1>4, FS_Singleton
  <2>2. \E C \in SUBSET {g \in Perhaps(p)' : href'[g] = active'[p]} : refs'[r] = Cardinality(Sure(p)' \cup C)
    BY <1>2, <2>1
  <2>3. \A g \in Perhaps(p)' : href'[g] = r \/ refs'[href'[g]] = 0
    BY <1>2, <1>3, <1>4
  <2>4. active'[p] = r /\ r # None /\ refs'[r] > 0 /\ \A g \in Sure(p)' : href'[g] = r
    BY <1>1, <1>2, <1>4 DEF RepoAssumption
  <2> HIDE DEF r
  <2> QED BY <2>2, <2>3, <2>4 DEF CountOf
<1>6. ASSUME NEW q \in Procs, q # p PROVE CountOf(q)'
  BY <1>1, <1>2, <1>6, OtherCount
<1> QED BY <1>5, <1>6 DEF CountInv

LEMMA CloseEndCount ==
  ASSUME RepoAssumption, BaseInv, CountInv, NEW p \in Procs, CloseDatastoreError(p) \/ CloseUnlock(p)
  PROVE  CountInv'
<1> DEFINE h == actor[p]
<1>1. h \in Handles /\ ProcOf[h] = p /\ active[p] = None /\ href[h] # None /\ refs[href[h]] = 0
  BY DEF CloseDatastoreError, CloseUnlock, BaseInv, ActorInv, ClosePhases
<1>2. AfterClose(h) \in {"again", "done"}
  BY DEF AfterClose
<1>3. /\ actor'[p] = None /\ hpc'[h] \in {"again", "done"}
      /\ \A q \in Procs \ {p} : actor'[q] = actor[q]
      /\ \A g \in Handles \ {h} : hpc'[g] = hpc[g]
      /\ UNCHANGED <<active, refs, href>>
  BY <1>1, <1>2 DEF CloseDatastoreError, CloseUnlock, Finish, Begin, HGoTo, BaseInv, TypeOK, refVars
<1>4. Sure(p)' = Sure(p) /\ Perhaps(p)' \subseteq Perhaps(p) \cup {h}
  BY <1>1, <1>3 DEF Sure, Perhaps, UsingStates, Editing, CommandKinds, RepoAssumption
<1>5. CountOf(p)'
  BY <1>1, <1>3, <1>4 DEF CountInv, CountOf
<1>6. ASSUME NEW q \in Procs, q # p PROVE CountOf(q)'
  BY <1>1, <1>3, <1>6, OtherCount
<1> QED BY <1>5, <1>6 DEF CountInv

LEMMA CrashCount ==
  ASSUME RepoAssumption, BaseInv, CountInv, NEW p \in Procs, Crash(p)
  PROVE  CountInv'
<1>1. /\ active'[p] = None
      /\ \A q \in Procs \ {p} : active'[q] = active[q] /\ actor'[q] = actor[q]
      /\ \A g \in Handles : IF ProcOf[g] = p THEN hpc'[g] \in {"none", "done", "dead"} ELSE hpc'[g] = hpc[g]
      /\ UNCHANGED <<refs, href>>
  BY DEF Crash, Begin, BaseInv, TypeOK
<1>2. Sure(p)' = {} /\ Perhaps(p)' = {}
  BY <1>1 DEF Sure, Perhaps, UsingStates, Editing, CommandKinds
<1>3. CountOf(p)'
  BY <1>1, <1>2 DEF CountOf
<1>4. ASSUME NEW q \in Procs, q # p PROVE CountOf(q)'
  BY <1>1, <1>4, OtherCount
<1> QED BY <1>3, <1>4 DEF CountInv

LEMMA CountStep == ASSUME RepoAssumption, ~ SlowCommands, BaseInv, CountInv, [Next]_vars PROVE CountInv'
<1>1. ASSUME NEW h \in Handles, Close(h) PROVE CountInv'
  <2>1. hpc[h] \in {"leave", "again"}
    BY <1>1 DEF Close, MayClose
  <2> QED BY <1>1, <2>1, CloseLeaveCount, CloseAgainCount
<1>2. ASSUME NEW h \in Handles, SetAPIAddr(h) \/ Leave(h) PROVE CountInv'
  BY <1>2, DaemonMoves, MovesCount DEF BaseInv
<1>3. CASE OpenNext
  BY <1>1, <1>2, <1>3, UncountedSteps, OpenSharedCount, DaemonFailsCount, OpenDoneCount, CloseEndCount, CrashCount,
     Zenon DEF OpenNext
<1>4. CASE ConfigNext
  <2>1. PICK h \in Handles : Moves(h)
    BY <1>4, EditMoves DEF ConfigNext, BaseInv
  <2> QED BY <2>1, MovesCount
<1>5. CASE UNCHANGED vars
  <2> SUFFICES ASSUME NEW p \in Procs PROVE CountOf(p)'
    BY DEF CountInv
  <2> QED BY <1>5, OtherCount DEF vars, refVars
<1> QED BY <1>3, <1>4, <1>5 DEF Next

-----------------------------------------------------------------------------
(***************************************************************************)
(* The lock and the datastore.                                             *)
(***************************************************************************)

LEMMA LockInit == ASSUME RepoAssumption, Init PROVE LockInv /\ LeakInv
BY DEF Init, LockInv, LeakInv, HeldPhases, ClosePhases

\* Only the process of the lock's holder opens, has open or closes the repository.
LEMMA OneHolder ==
  ASSUME RepoAssumption, BaseInv, LockInv, NEW p \in Procs,
         active[p] # None \/ ppc[p] \in HeldPhases \cup ClosePhases
  PROVE  lock \in Handles /\ ProcOf[lock] = p
BY DEF BaseInv, TypeOK, ActorInv, RefInv, LockInv, OpenPhases, HeldPhases, ClosePhases, RepoAssumption

LEMMA MovesLock ==
  ASSUME RepoAssumption, BaseInv, LockInv, LeakInv, NEW h \in Handles, Moves(h), faults \subseteq faults'
  PROVE  LockInv' /\ LeakInv'
<1>1. UNCHANGED <<lock, ds, ppc, actor, active, href>>
  BY DEF Moves, openVars, refVars
<1>2. LockInv'
  BY <1>1 DEF LockInv
<1>3. LeakInv'
  BY <1>1 DEF LeakInv
<1> QED BY <1>2, <1>3

LEMMA OpenLockStep ==
  ASSUME RepoAssumption, ~ SlowCommands, BaseInv, CountInv, LockInv, LeakInv, OpenNext
  PROVE  LockInv' /\ LeakInv'
<1> USE DEF InitPhases, OpenPhases, HeldPhases, ClosePhases
<1> DEFINE Locked == LockInv' /\ LeakInv'
<1>0. \A p \in Procs : active[p] # None \/ ppc[p] \in HeldPhases \cup ClosePhases
                       => lock \in Handles /\ ProcOf[lock] = p
  BY OneHolder
<1>1. ASSUME NEW h \in Handles, InitStart(h) PROVE Locked
  <2> USE <1>1 DEF InitStart, HGoTo, Begin, refVars, boundVars
  <2>1. LockInv'
    BY <1>0 DEF BaseInv, TypeOK, ActorInv, LockInv, RepoAssumption
  <2>2. LeakInv'
    BY <1>0 DEF BaseInv, TypeOK, ActorInv, LockInv, LeakInv, RepoAssumption
  <2> QED BY <2>1, <2>2
<1>2. ASSUME NEW h \in Handles, OpenCall(h) PROVE Locked
  <2> USE <1>2 DEF OpenCall, HGoTo, refVars, boundVars
  <2>1. LockInv'
    BY <1>0 DEF BaseInv, TypeOK, ActorInv, LockInv, RepoAssumption
  <2>2. LeakInv'
    BY <1>0 DEF BaseInv, TypeOK, ActorInv, LockInv, LeakInv, RepoAssumption
  <2> QED BY <2>1, <2>2
<1>3. ASSUME NEW h \in Handles, OpenShared(h) PROVE Locked
  <2> USE <1>3 DEF OpenShared, HGoTo, OnlyOneFree, boundVars
  <2>1. LockInv'
    BY <1>0 DEF BaseInv, TypeOK, ActorInv, LockInv, RepoAssumption
  <2>2. LeakInv'
    BY <1>0 DEF BaseInv, TypeOK, ActorInv, LockInv, LeakInv, RepoAssumption
  <2> QED BY <2>1, <2>2
<1>4. ASSUME NEW h \in Handles, OpenFirst(h) PROVE Locked
  <2> USE <1>4 DEF OpenFirst, HGoTo, Begin, refVars, boundVars
  <2>1. LockInv'
    BY <1>0 DEF BaseInv, TypeOK, ActorInv, LockInv, RepoAssumption
  <2>2. LeakInv'
    BY <1>0 DEF BaseInv, TypeOK, ActorInv, LockInv, LeakInv, RepoAssumption
  <2> QED BY <2>1, <2>2
<1>5. ASSUME NEW h \in Handles, DaemonFails(h) PROVE Locked
  <2> USE <1>5 DEF DaemonFails, HGoTo, refVars, boundVars
  <2>1. LockInv'
    BY <1>0 DEF BaseInv, TypeOK, ActorInv, LockInv, RepoAssumption
  <2>2. LeakInv'
    BY <1>0 DEF BaseInv, TypeOK, ActorInv, LockInv, LeakInv, RepoAssumption
  <2> QED BY <2>1, <2>2
<1>6. ASSUME NEW p \in Procs, InitConfig(p) PROVE Locked
  <2> USE <1>6 DEF InitConfig, PGoTo, refVars, boundVars
  <2>1. LockInv'
    BY <1>0 DEF BaseInv, TypeOK, ActorInv, LockInv, RepoAssumption
  <2>2. LeakInv'
    BY <1>0 DEF BaseInv, TypeOK, ActorInv, LockInv, LeakInv, RepoAssumption
  <2> QED BY <2>1, <2>2
<1>7. ASSUME NEW p \in Procs, InitSpec(p) PROVE Locked
  <2> USE <1>7 DEF InitSpec, PGoTo, refVars, boundVars
  <2>1. LockInv'
    BY <1>0 DEF BaseInv, TypeOK, ActorInv, LockInv, RepoAssumption
  <2>2. LeakInv'
    BY <1>0 DEF BaseInv, TypeOK, ActorInv, LockInv, LeakInv, RepoAssumption
  <2> QED BY <2>1, <2>2
<1>8. ASSUME NEW p \in Procs, InitVersion(p) PROVE Locked
  <2> USE <1>8 DEF InitVersion, HGoTo, Begin, Finish, refVars, boundVars
  <2>1. LockInv'
    BY <1>0 DEF BaseInv, TypeOK, ActorInv, LockInv, RepoAssumption
  <2>2. LeakInv'
    BY <1>0 DEF BaseInv, TypeOK, ActorInv, LockInv, LeakInv, RepoAssumption
  <2> QED BY <2>1, <2>2
<1>9. ASSUME NEW p \in Procs, OpenLock(p) PROVE Locked
  <2> USE <1>9 DEF OpenLock, PGoTo, refVars, boundVars
  <2>1. LockInv'
    BY <1>0 DEF BaseInv, TypeOK, ActorInv, LockInv, RepoAssumption
  <2>2. LeakInv'
    BY <1>0 DEF BaseInv, TypeOK, ActorInv, LockInv, LeakInv, RepoAssumption
  <2> QED BY <2>1, <2>2
<1>10. ASSUME NEW p \in Procs, OpenLocked(p) PROVE Locked
  <2> USE <1>10 DEF OpenLocked, HGoTo, Begin, Finish, refVars, boundVars
  <2>1. LockInv'
    BY <1>0 DEF BaseInv, TypeOK, ActorInv, LockInv, RepoAssumption
  <2>2. LeakInv'
    BY <1>0 DEF BaseInv, TypeOK, ActorInv, LockInv, LeakInv, RepoAssumption
  <2> QED BY <2>1, <2>2
<1>11. ASSUME NEW p \in Procs, OpenVersion(p) PROVE Locked
  <2> USE <1>11 DEF OpenVersion, HGoTo, PGoTo, Begin, Finish, OpenError, refVars, boundVars
  <2>1. LockInv'
    BY <1>0 DEF BaseInv, TypeOK, ActorInv, LockInv, RepoAssumption
  <2>2. LeakInv'
    BY <1>0 DEF BaseInv, TypeOK, ActorInv, LockInv, LeakInv, RepoAssumption
  <2> QED BY <2>1, <2>2
<1>12. ASSUME NEW p \in Procs, OpenConfig(p) PROVE Locked
  <2> USE <1>12 DEF OpenConfig, HGoTo, PGoTo, Begin, Finish, OpenError, refVars, boundVars
  <2>1. LockInv'
    BY <1>0 DEF BaseInv, TypeOK, ActorInv, LockInv, RepoAssumption
  <2>2. LeakInv'
    BY <1>0 DEF BaseInv, TypeOK, ActorInv, LockInv, LeakInv, RepoAssumption
  <2> QED BY <2>1, <2>2
<1>13. ASSUME NEW p \in Procs, OpenDatastore(p) PROVE Locked
  <2> USE <1>13 DEF OpenDatastore, HGoTo, PGoTo, Begin, Finish, OpenError, refVars, boundVars
  <2>1. LockInv'
    BY <1>0 DEF BaseInv, TypeOK, ActorInv, LockInv, RepoAssumption
  <2>2. LeakInv'
    BY <1>0 DEF BaseInv, TypeOK, ActorInv, LockInv, LeakInv, RepoAssumption
  <2> QED BY <2>1, <2>2
<1>14. ASSUME NEW p \in Procs, OpenDone(p) PROVE Locked
  <2> USE <1>14 DEF OpenDone, HGoTo, Begin, Finish, boundVars
  <2>1. LockInv'
    BY <1>0 DEF BaseInv, TypeOK, ActorInv, LockInv, RepoAssumption
  <2>2. LeakInv'
    BY <1>0 DEF BaseInv, TypeOK, ActorInv, LockInv, LeakInv, RepoAssumption
  <2> QED BY <2>1, <2>2
<1>15. ASSUME NEW p \in Procs, OpenKeystoreError(p) PROVE Locked
  <2> USE <1>15 DEF OpenKeystoreError, HGoTo, Begin, Finish, OpenError, Fault, refVars, boundVars
  <2>1. LockInv'
    BY <1>0 DEF BaseInv, TypeOK, ActorInv, LockInv, RepoAssumption
  <2>2. LeakInv'
    BY <1>0 DEF BaseInv, TypeOK, ActorInv, LockInv, LeakInv, RepoAssumption
  <2> QED BY <2>1, <2>2
<1>16. ASSUME NEW p \in Procs, CloseRemoveApi(p) PROVE Locked
  <2> USE <1>16 DEF CloseRemoveApi, PGoTo, refVars, boundVars
  <2>1. LockInv'
    BY <1>0 DEF BaseInv, TypeOK, ActorInv, LockInv, RepoAssumption
  <2>2. LeakInv'
    BY <1>0 DEF BaseInv, TypeOK, ActorInv, LockInv, LeakInv, RepoAssumption
  <2> QED BY <2>1, <2>2
<1>17. ASSUME NEW p \in Procs, CloseDatastore(p) PROVE Locked
  <2> USE <1>17 DEF CloseDatastore, PGoTo, refVars, boundVars
  <2>1. LockInv'
    BY <1>0 DEF BaseInv, TypeOK, ActorInv, LockInv, RepoAssumption
  <2>2. LeakInv'
    BY <1>0 DEF BaseInv, TypeOK, ActorInv, LockInv, LeakInv, RepoAssumption
  <2> QED BY <2>1, <2>2
<1>18. ASSUME NEW p \in Procs, CloseDatastoreError(p) PROVE Locked
  <2> USE <1>18 DEF CloseDatastoreError, HGoTo, Begin, Finish, Fault, AfterClose, refVars, boundVars
  <2>1. LockInv'
    BY <1>0 DEF BaseInv, TypeOK, ActorInv, LockInv, RepoAssumption
  <2>2. LeakInv'
    BY <1>0 DEF BaseInv, TypeOK, ActorInv, LockInv, LeakInv, RepoAssumption
  <2> QED BY <2>1, <2>2
<1>19. ASSUME NEW p \in Procs, CloseUnlock(p) PROVE Locked
  <2> USE <1>19 DEF CloseUnlock, HGoTo, Begin, Finish, AfterClose, boundVars
  <2>1. LockInv'
    BY <1>0 DEF BaseInv, TypeOK, ActorInv, LockInv, RepoAssumption
  <2>2. LeakInv'
    BY <1>0 DEF BaseInv, TypeOK, ActorInv, LockInv, LeakInv, RepoAssumption
  <2> QED BY <2>1, <2>2
<1>20. ASSUME NEW p \in Procs, Crash(p) PROVE Locked
  <2> USE <1>20 DEF Crash, Begin, boundVars
  <2>1. LockInv'
    BY <1>0 DEF BaseInv, TypeOK, ActorInv, LockInv, RepoAssumption
  <2>2. LeakInv'
    BY <1>0 DEF BaseInv, TypeOK, ActorInv, LockInv, LeakInv, RepoAssumption
  <2> QED BY <2>1, <2>2
<1>21. ASSUME NEW h \in Handles, Close(h) PROVE Locked
  <2> USE DEF BaseInv
  <2> DEFINE p == ProcOf[h]
  <2>1. /\ p \in Procs /\ href[h] \in Handles /\ hpc[h] \in {"leave", "again"}
        /\ ppc[p] \in {"idle"} \cup InitPhases /\ UNCHANGED <<lock, ds, href, faults>>
    BY <1>21 DEF Close, MayClose, OnlyOneFree, boundVars, TypeOK, RefInv, RepoAssumption
  <2>2. CASE UNCHANGED <<ppc, actor, active>>
    BY <2>1, <2>2 DEF LockInv, LeakInv
  <2>3. CASE ~ UNCHANGED <<ppc, actor, active>>
    <3>1. /\ ~ ((refs[href[h]] - 1) % RefMod > 0) /\ ppc[p] = "idle"
          /\ active' = [active EXCEPT ![p] = None]
          /\ ppc' = [ppc EXCEPT ![p] = "removeApi"] /\ actor' = [actor EXCEPT ![p] = h]
      BY <1>21, <2>3 DEF Close, Begin
    <3>2. refs[href[h]] = 1
      BY <2>1, <3>1, CounterWide, CounterDown DEF TypeOK
    <3>3. href[h] = active[p]
      <4>1. CASE hpc[h] = "again"
        BY <1>21, <3>2, <4>1, CloseAgainCount DEF BaseInv
      <4>2. CASE hpc[h] = "leave"
        <5>1. h \in Sure(p)
          BY <2>1, <3>1, <4>2 DEF Sure, ActorInv, RepoAssumption
        <5> QED BY <2>1, <5>1 DEF CountInv, CountOf
      <4> QED BY <2>1, <4>1, <4>2
    <3>4. /\ active'[p] = None /\ ppc'[p] = "removeApi" /\ actor'[p] = h
          /\ \A q \in Procs \ {p} : active'[q] = active[q] /\ ppc'[q] = ppc[q] /\ actor'[q] = actor[q]
      BY <2>1, <3>1 DEF TypeOK
    <3>5. lock = href[h] /\ ds = href[h] /\ ProcOf[lock] = p
      BY <2>1, <3>3, <1>0 DEF LockInv, RepoAssumption
    <3>6. LockInv'
      BY <2>1, <3>4, <3>5 DEF LockInv
    <3>7. LeakInv'
      BY <2>1, <3>4, <3>5 DEF LeakInv
    <3> QED BY <3>6, <3>7
  <2> QED BY <2>2, <2>3
<1>22. ASSUME NEW h \in Handles, SetAPIAddr(h) \/ Leave(h) PROVE Locked
  BY <1>22, DaemonMoves, MovesLock DEF BaseInv, boundVars
<1> QED BY <1>1, <1>2, <1>3, <1>4, <1>5, <1>6, <1>7, <1>8, <1>9, <1>10, <1>11, <1>12, <1>13, <1>14, <1>15, <1>16, <1>17, <1>18, <1>19, <1>20, <1>21, <1>22, Zenon DEF OpenNext

LEMMA LockStep ==
  ASSUME RepoAssumption, ~ SlowCommands, BaseInv, CountInv, LockInv, LeakInv, [Next]_vars
  PROVE  LockInv' /\ LeakInv'
<1>1. CASE OpenNext
  BY <1>1, OpenLockStep
<1>2. CASE ConfigNext
  <2>1. PICK h \in Handles : Moves(h) /\ faults \subseteq faults'
    BY <1>2, EditMoves DEF ConfigNext, BaseInv
  <2> QED BY <2>1, MovesLock
<1>3. CASE UNCHANGED vars
  BY <1>3 DEF vars, refVars, boundVars, LockInv, LeakInv
<1> QED BY <1>1, <1>2, <1>3 DEF Next

LEMMA UsersHold ==
  ASSUME RepoAssumption, BaseInv, CountInv, LockInv, NEW h \in Handles, hpc[h] \in UsingStates
  PROVE  /\ ProcOf[h] \in Procs /\ active[ProcOf[h]] = href[h] /\ href[h] # None
         /\ lock = href[h] /\ ds = href[h]
<1>1. ProcOf[h] \in Procs
  BY DEF RepoAssumption
<1>2. actor[ProcOf[h]] # h
  BY <1>1 DEF BaseInv, ActorInv, TypeOK, ProcStates, InitPhases, OpenPhases, HeldPhases, ClosePhases,
              UsingStates, Editing, CommandKinds, RepoAssumption
<1>3. h \in Sure(ProcOf[h])
  BY <1>2 DEF Sure
<1> QED BY <1>1, <1>3 DEF CountInv, CountOf, LockInv

\* There is one process that uses the repository.
LEMMA UsersTogether ==
  ASSUME RepoAssumption, BaseInv, CountInv, LockInv,
         NEW g \in Handles, NEW h \in Handles, hpc[g] \in UsingStates, hpc[h] \in UsingStates
  PROVE  href[g] = href[h] /\ ProcOf[g] = ProcOf[h]
<1>1. href[g] = href[h] /\ href[g] # None
  BY UsersHold
<1> QED BY <1>1 DEF BaseInv, RefInv

-----------------------------------------------------------------------------
(***************************************************************************)
(* The api file, and what the commands have reported.                      *)
(***************************************************************************)

LEMMA EditorInit == ASSUME RepoAssumption, Init PROVE EditorInv /\ ApiFileOwn
BY DEF Init, EditorInv, ApiFileOwn, Editing, CommandKinds, ServiceCommands

LEMMA EditEditor ==
  ASSUME RepoAssumption, BaseInv, EditorInv, NEW h \in Handles,
         \/ GetConfig(h) \/ BootTake(h) \/ BootPut(h) \/ CloneConfig(h) \/ AddService(h) \/ RmService(h)
         \/ SetConfig(h) \/ SetConfigError(h)
         \/ SetConfigKey(h) \/ SetConfigKeyRefused(h)
  PROVE  EditorInv' /\ Kind[h] = "command" /\ h \notin acked
<1>1. /\ Moves(h) /\ UNCHANGED seen /\ hpc'[h] \in Editing \cup {"leave"}
      /\ Kind[h] = "command" /\ hpc[h] \in UsingStates
  BY EditMoves DEF BaseInv, EditorInv, Moves
<1>2. \A g \in Handles \ {h} : hpc'[g] = hpc[g]
  BY <1>1 DEF Moves, BaseInv, TypeOK
<1>3. h \notin acked
  BY <1>1 DEF EditorInv, UsingStates, Editing, CommandKinds
<1>4. UNCHANGED acked \/ (acked' = acked \cup {h} /\ hpc' = [hpc EXCEPT ![h] = "leave"])
  BY DEF GetConfig, BootTake, BootPut, CloneConfig, AddService, RmService, SetConfig, SetConfigError,
         SetConfigKey, SetConfigKeyRefused, Report, Fail, HGoTo
<1>5. acked' \ acked \subseteq {h} /\ acked \subseteq acked' /\ (h \in acked' => hpc'[h] = "leave")
  BY <1>3, <1>4 DEF BaseInv, TypeOK
<1>6. acked \subseteq Handles
  BY DEF BaseInv, TypeOK
<1>7. hpc'[h] \in ServiceCommands => hpc'[h] \in Commands[h]
  BY DEF GetConfig, BootTake, BootPut, CloneConfig, AddService, RmService, SetConfig, SetConfigError,
         SetConfigKey, SetConfigKeyRefused, Report, Fail, HGoTo, BaseInv, TypeOK, ServiceCommands
<1> QED BY <1>1, <1>2, <1>3, <1>5, <1>6, <1>7 DEF EditorInv, UsingStates, Editing, CommandKinds

\* A step in which a caller only goes on to close the repository, or to its end.
LEMMA EndEditor ==
  ASSUME RepoAssumption, BaseInv, EditorInv, UNCHANGED <<acked, seen>>,
         \A h \in Handles : \/ hpc'[h] = hpc[h]
                            \/ hpc'[h] \in {"done", "dead"} /\ hpc[h] # "none"
                            \/ hpc'[h] = "again" /\ Kind[h] = "daemon" /\ hpc[h] # "none"
  PROVE  EditorInv'
BY DEF EditorInv, BaseInv, TypeOK, Editing, CommandKinds, ServiceCommands

LEMMA OpenEditor == ASSUME RepoAssumption, BaseInv, EditorInv, OpenNext PROVE EditorInv'
<1> USE DEF BaseInv, TypeOK, ActorInv, EditorInv, InitPhases, OpenPhases, HeldPhases, ClosePhases, Editing, CommandKinds,
            ServiceCommands
<1>1. ASSUME NEW h \in Handles, InitStart(h) PROVE EditorInv'
  <2>1. /\ UNCHANGED <<acked, seen>> /\ hpc[h] = "none"
        /\ \E s \in {"init", "done"} : hpc' = [hpc EXCEPT ![h] = s]
    BY <1>1 DEF InitStart, HGoTo, editVars
  <2> QED BY <2>1
<1>2. ASSUME NEW h \in Handles, OpenCall(h) PROVE EditorInv'
  BY <1>2 DEF OpenCall, HGoTo, editVars
<1>3. ASSUME NEW h \in Handles, OpenShared(h) PROVE EditorInv'
  BY <1>3 DEF OpenShared, HGoTo, editVars
<1>4. ASSUME NEW h \in Handles, OpenFirst(h) PROVE EditorInv'
  BY SMTT(20), <1>4 DEF OpenFirst, HGoTo, Begin, editVars
<1>5. ASSUME NEW h \in Handles, SetAPIAddr(h) PROVE EditorInv'
  BY <1>5 DEF SetAPIAddr, HGoTo, editVars
<1>6. ASSUME NEW h \in Handles, Leave(h) PROVE EditorInv'
  BY <1>6 DEF Leave, HGoTo, editVars
<1>7. ASSUME NEW h \in Handles, DaemonFails(h) PROVE EditorInv'
  BY <1>7 DEF DaemonFails, HGoTo, editVars
<1>8. ASSUME NEW h \in Handles, Close(h) PROVE EditorInv'
  <2>1. hpc[h] # "none" /\ UNCHANGED <<acked, seen>>
    BY <1>8 DEF Close, MayClose, editVars
  <2>2. UNCHANGED hpc \/ hpc' = [hpc EXCEPT ![h] = AfterClose(h)]
    BY <1>8 DEF Close, HGoTo
  <2>3. AfterClose(h) = "done" \/ (AfterClose(h) = "again" /\ Kind[h] = "daemon")
    BY DEF AfterClose
  <2>4. \A g \in Handles : \/ hpc'[g] = hpc[g]
                           \/ hpc'[g] = "done" /\ hpc[g] # "none"
                           \/ hpc'[g] = "again" /\ Kind[g] = "daemon" /\ hpc[g] # "none"
    BY <2>1, <2>2, <2>3
  <2> QED BY <2>1, <2>4, EndEditor
<1>9. ASSUME NEW p \in Procs, InitConfig(p) PROVE EditorInv'
  BY <1>9 DEF InitConfig, PGoTo, editVars
<1>10. ASSUME NEW p \in Procs, InitSpec(p) PROVE EditorInv'
  BY <1>10 DEF InitSpec, PGoTo, editVars
<1>11. ASSUME NEW p \in Procs, InitVersion(p) PROVE EditorInv'
  BY <1>11 DEF InitVersion, HGoTo, Begin, Finish, editVars
<1>12. ASSUME NEW p \in Procs, OpenLock(p) PROVE EditorInv'
  BY <1>12 DEF OpenLock, PGoTo, editVars
<1>13. ASSUME NEW p \in Procs, OpenLocked(p) PROVE EditorInv'
  BY <1>13 DEF OpenLocked, HGoTo, Begin, Finish, editVars
<1>14. ASSUME NEW p \in Procs, OpenVersion(p) PROVE EditorInv'
  <2>1. UNCHANGED <<acked, seen>> /\ (UNCHANGED hpc \/ hpc' = [hpc EXCEPT ![actor[p]] = "done"])
    BY <1>14 DEF OpenVersion, OpenError, Finish, HGoTo, editVars
  <2>2. actor[p] \in Handles /\ hpc[actor[p]] # "none"
    BY <1>14 DEF OpenVersion
  <2>3. \A h \in Handles : hpc'[h] = hpc[h] \/ (hpc'[h] = "done" /\ hpc[h] # "none")
    BY <2>1, <2>2
  <2> QED BY <2>1, <2>3, EndEditor
<1>15. ASSUME NEW p \in Procs, OpenConfig(p) PROVE EditorInv'
  <2>1. UNCHANGED <<acked, seen>> /\ (UNCHANGED hpc \/ hpc' = [hpc EXCEPT ![actor[p]] = "done"])
    BY <1>15 DEF OpenConfig, OpenError, Finish, HGoTo
  <2>2. actor[p] \in Handles /\ hpc[actor[p]] # "none"
    BY <1>15 DEF OpenConfig
  <2>3. \A h \in Handles : hpc'[h] = hpc[h] \/ (hpc'[h] = "done" /\ hpc[h] # "none")
    BY <2>1, <2>2
  <2> QED BY <2>1, <2>3, EndEditor
<1>16. ASSUME NEW p \in Procs, OpenDatastore(p) PROVE EditorInv'
  <2>1. UNCHANGED <<acked, seen>> /\ (UNCHANGED hpc \/ hpc' = [hpc EXCEPT ![actor[p]] = "done"])
    BY <1>16 DEF OpenDatastore, OpenError, Finish, HGoTo, editVars
  <2>2. actor[p] \in Handles /\ hpc[actor[p]] # "none"
    BY <1>16 DEF OpenDatastore
  <2>3. \A h \in Handles : hpc'[h] = hpc[h] \/ (hpc'[h] = "done" /\ hpc[h] # "none")
    BY <2>1, <2>2
  <2> QED BY <2>1, <2>3, EndEditor
<1>17. ASSUME NEW p \in Procs, OpenDone(p) PROVE EditorInv'
  BY <1>17 DEF OpenDone, HGoTo, Begin, Finish, editVars
<1>18. ASSUME NEW p \in Procs, OpenKeystoreError(p) PROVE EditorInv'
  BY <1>18 DEF OpenKeystoreError, HGoTo, Begin, Finish, OpenError, editVars
<1>19. ASSUME NEW p \in Procs, CloseRemoveApi(p) PROVE EditorInv'
  BY <1>19 DEF CloseRemoveApi, PGoTo, editVars
<1>20. ASSUME NEW p \in Procs, CloseDatastore(p) PROVE EditorInv'
  BY <1>20 DEF CloseDatastore, PGoTo, editVars
<1>21. ASSUME NEW p \in Procs, CloseDatastoreError(p) PROVE EditorInv'
  <2>1. UNCHANGED <<acked, seen>> /\ hpc' = [hpc EXCEPT ![actor[p]] = AfterClose(actor[p])]
    BY <1>21 DEF CloseDatastoreError, Finish, HGoTo, editVars
  <2>2. actor[p] \in Handles /\ hpc[actor[p]] # "none"
    BY <1>21 DEF CloseDatastoreError
  <2>3. AfterClose(actor[p]) = "done" \/ (AfterClose(actor[p]) = "again" /\ Kind[actor[p]] = "daemon")
    BY DEF AfterClose
  <2> QED BY <2>1, <2>2, <2>3, EndEditor
<1>22. ASSUME NEW p \in Procs, CloseUnlock(p) PROVE EditorInv'
  <2>1. UNCHANGED <<acked, seen>> /\ hpc' = [hpc EXCEPT ![actor[p]] = AfterClose(actor[p])]
    BY <1>22 DEF CloseUnlock, Finish, HGoTo, editVars
  <2>2. actor[p] \in Handles /\ hpc[actor[p]] # "none"
    BY <1>22 DEF CloseUnlock
  <2>3. AfterClose(actor[p]) = "done" \/ (AfterClose(actor[p]) = "again" /\ Kind[actor[p]] = "daemon")
    BY DEF AfterClose
  <2> QED BY <2>1, <2>2, <2>3, EndEditor
<1>23. ASSUME NEW p \in Procs, Crash(p) PROVE EditorInv'
  <2>1. UNCHANGED <<acked, seen>>
    BY <1>23 DEF Crash, editVars
  <2>2. \A h \in Handles : hpc'[h] = hpc[h] \/ (hpc'[h] = "dead" /\ hpc[h] # "none")
    BY <1>23 DEF Crash
  <2> QED BY <2>1, <2>2, EndEditor
<1> QED BY <1>1, <1>2, <1>3, <1>4, <1>5, <1>6, <1>7, <1>8, <1>9, <1>10, <1>11, <1>12, <1>13, <1>14, <1>15, <1>16, <1>17, <1>18, <1>19, <1>20, <1>21, <1>22, <1>23, Zenon DEF OpenNext

LEMMA EditorStep == ASSUME RepoAssumption, BaseInv, EditorInv, [Next]_vars PROVE EditorInv'
<1>1. CASE OpenNext
  BY <1>1, OpenEditor
<1>2. CASE ConfigNext
  BY <1>2, EditEditor DEF ConfigNext
<1>3. CASE UNCHANGED vars
  BY <1>3 DEF vars, editVars, EditorInv
<1> QED BY <1>1, <1>2, <1>3 DEF Next

LEMMA ApiStep ==
  ASSUME RepoAssumption, BaseInv, CountInv, LockInv, EditorInv, ApiFileOwn, [Next]_vars
  PROVE  ApiFileOwn'
<1>1. ASSUME NEW h \in Handles, SetAPIAddr(h) PROVE ApiFileOwn'
  <2>1. apiFile' = h /\ Kind[h] = "daemon" /\ hpc[h] = "open" /\ hpc' = [hpc EXCEPT ![h] = "serving"]
    BY <1>1 DEF SetAPIAddr, HGoTo
  <2>2. ASSUME NEW d \in Handles, d # h, hpc[d] = "serving" PROVE FALSE
    <3>1. ProcOf[d] = ProcOf[h]
      BY <2>1, <2>2, UsersTogether DEF UsingStates
    <3> QED BY <2>1, <2>2, <3>1 DEF BaseInv, OneDaemon, EditorInv
  <2> QED BY <2>1, <2>2 DEF ApiFileOwn, BaseInv, TypeOK
<1>2. ASSUME NEW p \in Procs, CloseRemoveApi(p) PROVE ApiFileOwn'
  <2>1. active[p] = None /\ lock \in Handles /\ ProcOf[lock] = p /\ UNCHANGED hpc
    BY <1>2, OneHolder DEF CloseRemoveApi, BaseInv, ActorInv, ClosePhases
  <2>2. ASSUME NEW d \in Handles, hpc[d] = "serving" PROVE FALSE
    <3>1. active[ProcOf[d]] = href[d] /\ href[d] # None /\ lock = href[d]
      BY <2>2, UsersHold DEF UsingStates
    <3>2. ProcOf[d] = p
      BY <2>1, <3>1 DEF BaseInv, RefInv
    <3> QED BY <2>1, <3>1, <3>2
  <2> QED BY <2>1, <2>2 DEF ApiFileOwn
<1>3. ASSUME UNCHANGED apiFile, \A h \in Handles : hpc'[h] = "serving" => hpc[h] = "serving"
      PROVE  ApiFileOwn'
  BY <1>3 DEF ApiFileOwn
<1>4. ASSUME NEW h \in Handles, InitStart(h) \/ OpenCall(h) \/ OpenShared(h) \/ OpenFirst(h)
      PROVE  ApiFileOwn'
  BY <1>3, <1>4 DEF InitStart, OpenCall, OpenShared, OpenFirst, AfterClose, HGoTo, PGoTo, Begin, Finish, OpenError, BaseInv, TypeOK
<1>5. ASSUME NEW h \in Handles, Leave(h) \/ DaemonFails(h) \/ Close(h)
      PROVE  ApiFileOwn'
  BY <1>3, <1>5 DEF Leave, DaemonFails, Close, AfterClose, HGoTo, PGoTo, Begin, Finish, OpenError, BaseInv, TypeOK
<1>6. ASSUME NEW p \in Procs, InitConfig(p) \/ InitSpec(p) \/ InitVersion(p) \/ OpenLock(p) \/ OpenLocked(p) \/ OpenVersion(p)
      PROVE  ApiFileOwn'
  BY <1>3, <1>6 DEF InitConfig, InitSpec, InitVersion, OpenLock, OpenLocked, OpenVersion, HGoTo, PGoTo, Begin, Finish, OpenError, BaseInv, TypeOK
<1>7. ASSUME NEW p \in Procs, OpenConfig(p) \/ OpenDatastore(p) \/ OpenDone(p) \/ OpenKeystoreError(p)
      PROVE  ApiFileOwn'
  BY <1>3, <1>7 DEF OpenConfig, OpenDatastore, OpenDone, OpenKeystoreError, HGoTo, PGoTo, Begin, Finish, OpenError, BaseInv, TypeOK
<1>8. ASSUME NEW p \in Procs, CloseDatastore(p) \/ CloseDatastoreError(p) \/ CloseUnlock(p) \/ Crash(p)
      PROVE  ApiFileOwn'
  BY <1>3, <1>8 DEF CloseDatastore, CloseDatastoreError, CloseUnlock, Crash, AfterClose, HGoTo, PGoTo, Begin, Finish, OpenError, BaseInv, TypeOK
<1>9. CASE ConfigNext
  <2>1. PICK h \in Handles : Moves(h) /\ UNCHANGED apiFile /\ hpc'[h] # "serving"
    BY <1>9, EditMoves DEF ConfigNext, BaseInv, Editing, CommandKinds
  <2> QED BY <1>3, <2>1 DEF Moves, BaseInv, TypeOK
<1>10. CASE UNCHANGED vars
  BY <1>10 DEF vars, ApiFileOwn
<1> QED BY <1>1, <1>2, <1>4, <1>5, <1>6, <1>7, <1>8, <1>9, <1>10, Zenon DEF Next, OpenNext

-----------------------------------------------------------------------------
(***************************************************************************)
(* The config in memory and the config on disk.                            *)
(***************************************************************************)

LEMMA MemoryInit == ASSUME RepoAssumption, Init PROVE MemoryInv
<1>1. configFile # Torn
  BY DEF Init, RepoAssumption, FreshConfig, FileConfig
<1> QED BY <1>1 DEF Init, MemoryInv

\* A step that changes neither, and opens nothing new.
LEMMA MemorySame ==
  ASSUME MemoryInv, UNCHANGED <<configFile, cur, heap>>, faults \subseteq faults',
         Idle' => Idle,
         \A p \in Procs :
           /\ active'[p] = active[p] \/ active'[p] = None
           /\ ppc'[p] \in {"datastore", "keystore"} =>
                ppc[p] \in {"datastore", "keystore"} /\ actor'[p] = actor[p]
  PROVE  MemoryInv'
BY DEF MemoryInv, Agrees

LEMMA OpenMemory ==
  ASSUME RepoAssumption, BaseInv, CountInv, LockInv, MemoryInv, OpenNext
  PROVE  MemoryInv'
<1> USE DEF BaseInv, TypeOK
<1>1. ASSUME NEW h \in Handles,
             \/ InitStart(h) \/ OpenCall(h) \/ OpenShared(h) \/ OpenFirst(h)
             \/ SetAPIAddr(h) \/ Leave(h) \/ DaemonFails(h) \/ Close(h)
      PROVE  MemoryInv'
  <2>1. UNCHANGED <<configFile, cur, heap, faults>>
    BY <1>1 DEF InitStart, OpenCall, OpenShared, OpenFirst, SetAPIAddr, Leave, DaemonFails, Close,
                dirVars, editVars, boundVars
  <2>2. Idle' => Idle
    BY <1>1 DEF InitStart, OpenCall, OpenShared, OpenFirst, SetAPIAddr, Leave, DaemonFails, Close, MayClose,
                HGoTo, Idle
  <2>3. \A p \in Procs : ppc'[p] \in {"datastore", "keystore"} =>
                           ppc[p] \in {"datastore", "keystore"} /\ actor'[p] = actor[p]
    BY <1>1 DEF InitStart, OpenCall, OpenShared, OpenFirst, SetAPIAddr, Leave, DaemonFails, Close, Begin, OnlyOneFree
  <2>4. \A p \in Procs : active'[p] = active[p] \/ active'[p] = None
    BY <1>1 DEF InitStart, OpenCall, OpenShared, OpenFirst, SetAPIAddr, Leave, DaemonFails, Close, refVars
  <2> QED BY <2>1, <2>2, <2>3, <2>4, MemorySame
<1>2. ASSUME NEW p \in Procs, InitConfig(p), configFile = None PROVE MemoryInv'
  <2>1. configFile' \in FileConfig /\ UNCHANGED <<active, faults>>
    BY <1>2 DEF InitConfig, FreshConfig, FileConfig, refVars, boundVars
  <2>2. \A q \in Procs : active[q] = None /\ ppc'[q] \notin {"datastore", "keystore"}
    BY <1>2 DEF InitConfig, PGoTo, PresentInv, OpenPhases, HeldPhases
  <2> QED BY <2>1, <2>2 DEF MemoryInv, RepoAssumption
<1>3. ASSUME NEW p \in Procs, OpenConfig(p), configFile # Torn PROVE MemoryInv'
  <2> DEFINE r == actor[p]
  <2>1. /\ ppc[p] = "config" /\ r \in Handles /\ active[p] = None /\ configFile \in FileConfig
        /\ UNCHANGED <<configFile, active, actor, faults>>
    BY <1>3 DEF OpenConfig, PGoTo, ActorInv, PresentInv, OpenPhases, HeldPhases, dirVars, refVars, boundVars
  <2>2. \A q \in Procs \ {p} : active[q] = None /\ ppc[q] \notin {"datastore", "keystore"}
    BY <2>1, OneHolder DEF HeldPhases
  <2>3. \A q \in Procs \ {p} : ppc'[q] = ppc[q]
    BY <1>3 DEF OpenConfig, PGoTo
  <2>4. cur'[r] = <<r, "opened">> /\ heap'[<<r, "opened">>] = FromMap(configFile)
    <3>1. <<r, "opened">> \in Objects
      BY <2>1 DEF Objects
    <3> QED BY <1>3, <2>1, <3>1 DEF OpenConfig
  <2>5. Agrees(r)'
    BY <2>1, <2>4 DEF Agrees, FromMap
  <2>6. configFile # Torn
    BY <1>3
  <2> QED BY <2>1, <2>2, <2>3, <2>5, <2>6 DEF MemoryInv
<1>4. ASSUME NEW p \in Procs, OpenDone(p) PROVE MemoryInv'
  <2>1. ppc[p] = "keystore" /\ UNCHANGED <<configFile, cur, heap, faults>>
    BY <1>4 DEF OpenDone, dirVars, editVars, boundVars
  <2>2. /\ active'[p] = actor[p] /\ ppc'[p] = "idle"
        /\ \A q \in Procs \ {p} : active'[q] = active[q] /\ ppc'[q] = ppc[q] /\ actor'[q] = actor[q]
    BY <1>4 DEF OpenDone, Finish, Begin
  <2>3. Idle' => Idle
    <3>1. hpc' = [hpc EXCEPT ![actor[p]] = "open"] /\ hpc[actor[p]] = "opening"
      BY <1>4, <2>1 DEF OpenDone, Finish, HGoTo, ActorInv, OpenPhases, HeldPhases
    <3> QED BY <3>1 DEF Idle
  <2> QED BY <2>1, <2>2, <2>3 DEF MemoryInv, Agrees
<1>5. ASSUME NEW p \in Procs,
             \/ InitConfig(p) /\ configFile # None
             \/ InitSpec(p) \/ InitVersion(p)
             \/ OpenLock(p) \/ OpenLocked(p) \/ OpenVersion(p)
             \/ OpenConfig(p) /\ configFile = Torn
      PROVE  MemoryInv'
  <2>1. UNCHANGED <<configFile, cur, heap, faults, active>>
    BY <1>5 DEF InitConfig, InitSpec, InitVersion, OpenLock, OpenLocked, OpenVersion, OpenConfig,
                dirVars, editVars, boundVars, refVars
  <2>2. Idle' => Idle
    BY <1>5 DEF InitConfig, InitSpec, InitVersion, OpenLock, OpenLocked, OpenVersion, OpenConfig,
                OpenError, Finish, HGoTo, Idle, ActorInv, InitPhases, OpenPhases, HeldPhases
  <2>3. \A q \in Procs : ppc'[q] \in {"datastore", "keystore"} =>
                           ppc[q] \in {"datastore", "keystore"} /\ actor'[q] = actor[q]
    BY <1>5 DEF InitConfig, InitSpec, InitVersion, OpenLock, OpenLocked, OpenVersion, OpenConfig,
                OpenError, Finish, Begin, PGoTo
  <2> QED BY <2>1, <2>2, <2>3, MemorySame
<1>6. ASSUME NEW p \in Procs,
             \/ OpenDatastore(p) \/ OpenKeystoreError(p)
             \/ CloseRemoveApi(p) \/ CloseDatastore(p) \/ CloseDatastoreError(p) \/ CloseUnlock(p)
      PROVE  MemoryInv'
  <2>1. UNCHANGED <<configFile, cur, heap, active>> /\ faults \subseteq faults'
    BY <1>6 DEF OpenDatastore, OpenKeystoreError, CloseRemoveApi, CloseDatastore, CloseDatastoreError, CloseUnlock,
                Fault, dirVars, editVars, boundVars, refVars
  <2>2. Idle' => Idle
    BY <1>6 DEF OpenDatastore, OpenKeystoreError, CloseRemoveApi, CloseDatastore, CloseDatastoreError, CloseUnlock,
                OpenError, Finish, HGoTo, Idle, ActorInv, OpenPhases, HeldPhases, ClosePhases
  <2>3. \A q \in Procs : ppc'[q] \in {"datastore", "keystore"} =>
                           ppc[q] \in {"datastore", "keystore"} /\ actor'[q] = actor[q]
    BY <1>6 DEF OpenDatastore, OpenKeystoreError, CloseRemoveApi, CloseDatastore, CloseDatastoreError, CloseUnlock,
                OpenError, Finish, Begin, PGoTo
  <2> QED BY <2>1, <2>2, <2>3, MemorySame
<1>7. ASSUME NEW p \in Procs, Crash(p) PROVE MemoryInv'
  <2>1. UNCHANGED <<configFile, cur, heap, faults>>
    BY <1>7 DEF Crash, dirVars, editVars
  <2>2. /\ active'[p] = None /\ ppc'[p] = "idle"
        /\ \A q \in Procs \ {p} : active'[q] = active[q] /\ ppc'[q] = ppc[q] /\ actor'[q] = actor[q]
    BY <1>7 DEF Crash, Begin
  <2>3. ASSUME "write" \notin faults, NEW q \in Procs, active'[q] # None, Idle' PROVE Agrees(active[q])
    <3>1. q # p /\ active[q] # None /\ active[q] = lock /\ ProcOf[lock] = q
      BY <2>2, <2>3, OneHolder DEF LockInv
    <3>2. ASSUME NEW h \in Handles, hpc[h] \in {"put", "set"} PROVE FALSE
      <4>1. hpc[h] \in UsingStates
        BY <3>2 DEF UsingStates, Editing
      <4>2. lock = href[h] /\ href[h] # None
        BY <4>1, UsersHold
      <4>3. ProcOf[h] = q
        BY <3>1, <4>2 DEF RefInv
      <4>4. hpc'[h] = hpc[h]
        BY <1>7, <3>1, <4>3 DEF Crash
      <4> QED BY <2>3, <3>2, <4>4 DEF Idle
    <3> QED BY <2>3, <3>1, <3>2 DEF MemoryInv, Idle
  <2> QED BY <2>1, <2>2, <2>3 DEF MemoryInv, Agrees
<1> QED BY <1>1, <1>2, <1>3, <1>4, <1>5, <1>6, <1>7, Zenon DEF OpenNext

LEMMA EditMemory ==
  ASSUME RepoAssumption, BaseInv, CountInv, LockInv, MemoryInv, NEW h \in Handles,
         \/ GetConfig(h) \/ BootTake(h) \/ BootPut(h) \/ CloneConfig(h) \/ AddService(h) \/ RmService(h)
         \/ SetConfig(h) \/ SetConfigError(h)
         \/ SetConfigKey(h) \/ SetConfigKeyRefused(h)
  PROVE  MemoryInv'
<1> DEFINE r == href[h]
<1> USE DEF BaseInv
<1>1. /\ Moves(h) /\ hpc[h] \in UsingStates /\ faults \subseteq faults'
      /\ UNCHANGED <<ppc, actor, active, href>>
      /\ \A g \in Handles \ {h} : hpc'[g] = hpc[g]
  BY EditMoves DEF Moves, openVars, refVars, TypeOK
<1>2. r \in Handles /\ active[ProcOf[h]] = r /\ lock = r /\ ProcOf[r] = ProcOf[h]
  BY <1>1, UsersHold DEF RefInv, TypeOK
<1>3. \A p \in Procs : /\ ppc[p] \notin {"datastore", "keystore"}
                       /\ active[p] # None => active[p] = r
  <2> SUFFICES ASSUME NEW p \in Procs, active[p] # None \/ ppc[p] \in {"datastore", "keystore"}
               PROVE  active[p] = r /\ ppc[p] \notin {"datastore", "keystore"}
    OBVIOUS
  <2>1. p = ProcOf[h]
    BY <1>2, OneHolder DEF HeldPhases
  <2> QED BY <1>2, <2>1 DEF ActorInv, OpenPhases, HeldPhases, RepoAssumption
<1>4. SUFFICES ASSUME "write" \notin faults'
               PROVE  configFile' # Torn /\ (Idle' => Agrees(r)')
  BY <1>1, <1>3 DEF MemoryInv, Agrees
<1>5. "write" \notin faults /\ configFile # Torn /\ (Idle => Agrees(r))
  <2>1. "write" \notin faults
    BY <1>1, <1>4
  <2> QED BY <1>2, <2>1 DEF MemoryInv, RepoAssumption
<1>6. CASE GetConfig(h) \/ SetConfigKeyRefused(h) \/ (AddService(h) /\ UNCHANGED heap /\ hpc'[h] = "leave")
  <2>1. UNCHANGED <<configFile, cur, heap>>
    BY <1>6 DEF GetConfig, AddService, SetConfigKeyRefused
  <2>2. hpc[h] \notin {"put", "set"}
    BY <1>6 DEF GetConfig, AddService, SetConfigKeyRefused, InSetConfigKey
  <2>3. Idle' => Idle
    BY <1>1, <2>2 DEF Idle
  <2> QED BY <1>1, <1>5, <2>1, <2>3 DEF Agrees
<1>7. CASE BootTake(h) \/ BootPut(h) \/ CloneConfig(h) \/ RmService(h) \/ (AddService(h) /\ hpc'[h] = "set")
  <2>1. UNCHANGED configFile
    BY <1>7 DEF BootTake, BootPut, CloneConfig, RmService, AddService
  <2>2. hpc'[h] \in {"put", "set"}
    BY <1>7 DEF BootTake, BootPut, CloneConfig, RmService, HGoTo, TypeOK
  <2> QED BY <1>5, <2>1, <2>2 DEF Idle
<1>8. CASE AddService(h)
  <2>1. (UNCHANGED heap /\ hpc'[h] = "leave") \/ hpc'[h] = "set"
    BY <1>8 DEF AddService, HGoTo, TypeOK
  <2> QED BY <1>6, <1>7, <1>8, <2>1
<1>9. CASE SetConfig(h)
  <2>1. /\ configFile' = MergedFile(heap[hobj[h]]) /\ UNCHANGED heap
        /\ cur' = [cur EXCEPT ![r] = hobj[h]]
    BY <1>4, <1>9 DEF SetConfig, InSetConfig, WriteConfigFile, WriteConfigFileUnsaved, Fault
  <2>2. configFile \in FileConfig /\ heap[hobj[h]] \in Config
    BY <1>1, <1>5 DEF TypeOK, PresentInv
  <2>3. cur'[r] = hobj[h]
    BY <1>2, <2>1 DEF TypeOK
  <2>4. /\ configFile'.boot = heap[hobj[h]].boot /\ configFile'.keys = heap[hobj[h]].keys
        /\ heap[hobj[h]].service \subseteq configFile'.service
        /\ configFile' \in FileConfig
    BY Zenon, <2>1, <2>2 DEF MergedFile, FileConfig, Config
  <2> QED BY <1>1, <2>1, <2>3, <2>4 DEF Agrees, RepoAssumption
<1>10. CASE SetConfigError(h)
  BY <1>4, <1>5, <1>10 DEF SetConfigError, WriteConfigFileError, Fault
<1>11. CASE SetConfigKey(h)
  <2> DEFINE new == <<h, "made">>
  <2>1. /\ configFile' = [configFile EXCEPT !.keys = @ \cup {h}]
        /\ heap' = [heap EXCEPT ![new] = [FromMap(configFile) EXCEPT !.keys = @ \cup {h}]]
        /\ cur' = [cur EXCEPT ![r] = new]
    BY <1>4, <1>11 DEF SetConfigKey, WriteConfigFile, WriteConfigFileUnsaved, WriteConfigFileError, Fault
  <2>2. configFile \in FileConfig /\ new \in Objects
    BY <1>1, <1>5 DEF TypeOK, PresentInv, Objects
  <2>3. heap'[cur'[r]] = [FromMap(configFile) EXCEPT !.keys = @ \cup {h}]
    BY <1>2, <2>1, <2>2 DEF TypeOK
  <2>4. configFile' \in FileConfig
    BY <2>1, <2>2 DEF FileConfig
  <2>5. /\ heap'[cur'[r]].boot = configFile'.boot /\ heap'[cur'[r]].keys = configFile'.keys
        /\ heap'[cur'[r]].service = configFile'.service
    BY <2>1, <2>2, <2>3 DEF FileConfig, FromMap
  <2> QED BY <1>1, <2>4, <2>5 DEF Agrees, RepoAssumption
<1> QED BY <1>6, <1>7, <1>8, <1>9, <1>10, <1>11

LEMMA MemoryStep ==
  ASSUME RepoAssumption, BaseInv, CountInv, LockInv, MemoryInv, [Next]_vars
  PROVE  MemoryInv'
<1>1. CASE OpenNext
  BY <1>1, OpenMemory
<1>2. CASE ConfigNext
  BY <1>2, EditMemory DEF ConfigNext
<1>3. CASE UNCHANGED vars
  BY <1>3 DEF vars, dirVars, refVars, editVars, boundVars, MemoryInv, Agrees, Idle
<1> QED BY <1>1, <1>2, <1>3 DEF Next

-----------------------------------------------------------------------------
(***************************************************************************)
(* What the commands have changed stays changed.                           *)
(***************************************************************************)

LEMMA KeptInit == ASSUME RepoAssumption, Init PROVE KeptInv
BY DEF Init, KeptInv

\* Overlap is for ever, so a change that is safe was safe before.
LEMMA SafeBefore ==
  ASSUME NEW h \in Handles, hpc[h] # "none", Safe(h)',
         \A g \in Handles : hpc[g] # "none" => hpc'[g] # "none" /\ seen'[g] = seen[g]
  PROVE  Safe(h)
<1> SUFFICES ASSUME MayBeLost(h) PROVE MayBeLost(h)'
  BY DEF Safe
<1>1. PICK g \in Handles, k \in Handles \ seen[h] : Overlap(g, k)
  BY DEF MayBeLost
<1>2. Overlap(g, k)'
  BY <1>1 DEF Overlap
<1>3. k \in Handles \ seen'[h]
  BY <1>1
<1> QED BY <1>1, <1>2, <1>3 DEF MayBeLost

\* Beside a safe change there is one command that has not reported, at most.
LEMMA LoneEditor ==
  ASSUME EditorInv, NEW h \in Handles, Safe(h), NEW g \in Handles \ acked, NEW k \in Handles \ acked,
         Kind[g] = "command", Kind[k] = "command", hpc[g] # "none", hpc[k] # "none"
  PROVE  g = k
<1> SUFFICES ASSUME g # k PROVE FALSE
  OBVIOUS
<1>1. g \notin seen[k] /\ k \notin seen[g] /\ k \notin seen[h]
  BY DEF EditorInv
<1>2. Overlap(g, k)
  BY <1>1 DEF Overlap
<1> QED BY <1>1, <1>2 DEF Safe, MayBeLost

LEMMA OpenFrame ==
  ASSUME RepoAssumption, BaseInv, OpenNext
  PROVE  /\ UNCHANGED <<hobj, taken, acked>> /\ faults \subseteq faults'
         /\ \A g \in Handles : /\ hpc[g] # "none" => hpc'[g] # "none" /\ seen'[g] = seen[g]
                               /\ hpc'[g] \in Editing => hpc'[g] = hpc[g]
<1> USE DEF BaseInv, TypeOK
<1> DEFINE Frame == /\ UNCHANGED <<hobj, taken, acked>> /\ faults \subseteq faults'
                    /\ \A g \in Handles : hpc[g] # "none" => seen'[g] = seen[g]
           Goes == \A g \in Handles : /\ hpc[g] # "none" => hpc'[g] # "none"
                                      /\ hpc'[g] \in Editing => hpc'[g] = hpc[g]
<1>1. ASSUME NEW h \in Handles, InitStart(h) \/ OpenCall(h) \/ OpenShared(h) \/ OpenFirst(h)
      PROVE  Frame /\ Goes
  BY <1>1 DEF InitStart, OpenCall, OpenShared, OpenFirst, HGoTo, editVars, boundVars, Editing, CommandKinds
<1>2. ASSUME NEW h \in Handles, SetAPIAddr(h) \/ Leave(h) \/ DaemonFails(h) \/ Close(h)
      PROVE  Frame /\ Goes
  BY <1>2 DEF SetAPIAddr, Leave, DaemonFails, Close, AfterClose, HGoTo, editVars, boundVars, Editing, CommandKinds
<1>3. ASSUME NEW p \in Procs, InitConfig(p) \/ InitSpec(p) \/ InitVersion(p)
      PROVE  Frame /\ Goes
  BY <1>3 DEF InitConfig, InitSpec, InitVersion, Finish, HGoTo, editVars, boundVars, Editing, CommandKinds
<1>4. ASSUME NEW p \in Procs, OpenLock(p) \/ OpenLocked(p) \/ OpenVersion(p) \/ OpenConfig(p)
      PROVE  Frame /\ Goes
  BY <1>4 DEF OpenLock, OpenLocked, OpenVersion, OpenConfig, OpenError, Finish, HGoTo, editVars, boundVars,
              Editing, CommandKinds
<1>5. ASSUME NEW p \in Procs, OpenDatastore(p) \/ OpenDone(p) \/ OpenKeystoreError(p)
      PROVE  Frame /\ Goes
  BY <1>5 DEF OpenDatastore, OpenDone, OpenKeystoreError, OpenError, Fault, Finish, HGoTo, editVars, boundVars,
              Editing, CommandKinds
<1>6. ASSUME NEW p \in Procs, CloseRemoveApi(p) \/ CloseDatastore(p) \/ CloseDatastoreError(p) \/ CloseUnlock(p)
      PROVE  Frame /\ Goes
  BY <1>6 DEF CloseRemoveApi, CloseDatastore, CloseDatastoreError, CloseUnlock, AfterClose, Fault, Finish, HGoTo,
              editVars, boundVars, Editing, CommandKinds
<1>7. ASSUME NEW p \in Procs, Crash(p) PROVE Frame /\ Goes
  BY <1>7 DEF Crash, editVars, Editing, CommandKinds
<1>8. Frame /\ Goes
  BY <1>1, <1>2, <1>3, <1>4, <1>5, <1>6, <1>7, Zenon DEF OpenNext
<1> QED BY <1>8

LEMMA OpenKept ==
  ASSUME RepoAssumption, BaseInv, CountInv, LockInv, EditorInv, KeptInv, OpenNext
  PROVE  KeptInv'
<1>1. /\ UNCHANGED <<hobj, taken, acked>> /\ faults \subseteq faults'
      /\ \A g \in Handles : /\ hpc[g] # "none" => hpc'[g] # "none" /\ seen'[g] = seen[g]
                            /\ hpc'[g] \in Editing => hpc'[g] = hpc[g]
  BY OpenFrame
<1>2. \A g \in Handles : hpc[g] # "none" /\ Safe(g)' => Safe(g)
  BY <1>1, SafeBefore
<1>3. configFile # None => UNCHANGED configFile
  BY DEF OpenNext, InitStart, OpenCall, OpenShared, OpenFirst, SetAPIAddr, Leave, DaemonFails, Close,
         InitConfig, InitSpec, InitVersion, OpenLock, OpenLocked, OpenVersion, OpenConfig,
         OpenDatastore, OpenDone, OpenKeystoreError, CloseRemoveApi, CloseDatastore, CloseDatastoreError,
         CloseUnlock, Crash, dirVars
<1>4. UNCHANGED heap \/ \E p \in Procs : OpenConfig(p)
  BY DEF OpenNext, InitStart, OpenCall, OpenShared, OpenFirst, SetAPIAddr, Leave, DaemonFails, Close,
         InitConfig, InitSpec, InitVersion, OpenLock, OpenLocked, OpenVersion,
         OpenDatastore, OpenDone, OpenKeystoreError, CloseRemoveApi, CloseDatastore, CloseDatastoreError,
         CloseUnlock, Crash, editVars
<1>5. ASSUME NEW g \in Handles, hpc'[g] \in Editing PROVE heap'[hobj[g]] = heap[hobj[g]]
  <2>1. hpc[g] \in UsingStates
    BY <1>1, <1>5 DEF UsingStates
  <2>2. ASSUME NEW p \in Procs, OpenConfig(p) PROVE FALSE
    <3>1. ppc[p] = "config" /\ active[p] = None
      BY <2>2 DEF OpenConfig, BaseInv, ActorInv, OpenPhases, HeldPhases
    <3>2. ProcOf[lock] = p
      BY <3>1, OneHolder DEF HeldPhases
    <3>3. lock = href[g] /\ active[ProcOf[g]] = href[g] /\ href[g] # None
      BY <2>1, UsersHold
    <3> QED BY <3>1, <3>2, <3>3 DEF BaseInv, RefInv
  <2> QED BY <1>4, <2>2
<1>6. SUFFICES ASSUME "write" \notin faults'
               PROVE  /\ \A h \in acked' : Safe(h)' => KeptFor(h)'
                      /\ \A g \in Handles : hpc'[g] = "set" /\ Safe(g)' => Listed(g, heap[hobj[g]])'
  BY DEF KeptInv
<1>7. /\ \A h \in acked : Safe(h) => KeptFor(h)
      /\ \A g \in Handles : hpc[g] = "set" /\ Safe(g) => Listed(g, heap[hobj[g]])
  BY <1>1, <1>6 DEF KeptInv
<1>8. \A h \in acked : h \in Handles /\ hpc[h] # "none"
  BY DEF EditorInv, BaseInv, TypeOK
<1>9. {"put", "set"} \subseteq Editing
  BY DEF Editing
<1>10. ASSUME NEW h \in acked', Safe(h)' PROVE KeptFor(h)'
  BY <1>1, <1>2, <1>3, <1>5, <1>7, <1>8, <1>9, <1>10 DEF KeptFor, Listed
<1>11. ASSUME NEW g \in Handles, hpc'[g] = "set" /\ Safe(g)' PROVE Listed(g, heap[hobj[g]])'
  BY <1>1, <1>2, <1>5, <1>7, <1>9, <1>11 DEF Listed
<1> QED BY <1>10, <1>11

LEMMA EditKept ==
  ASSUME RepoAssumption, BaseInv, CountInv, LockInv, EditorInv, MemoryInv, KeptInv, NEW e \in Handles,
         \/ GetConfig(e) \/ BootTake(e) \/ BootPut(e) \/ CloneConfig(e) \/ AddService(e) \/ RmService(e)
         \/ SetConfig(e) \/ SetConfigError(e)
         \/ SetConfigKey(e) \/ SetConfigKeyRefused(e)
  PROVE  KeptInv'
<1> USE DEF BaseInv
<1>1. /\ Moves(e) /\ hpc[e] \in UsingStates /\ faults \subseteq faults' /\ UNCHANGED seen
      /\ hpc'[e] \in Editing \cup {"leave"}
      /\ \A g \in Handles \ {e} : hpc'[g] = hpc[g]
  BY EditMoves DEF Moves, TypeOK
<1>2. Kind[e] = "command" /\ e \notin acked /\ hpc[e] # "none" /\ hpc'[e] # "none"
  BY <1>1, EditEditor DEF UsingStates, Editing, CommandKinds
<1>3. acked' \subseteq acked \cup {e} /\ acked \subseteq Handles
  BY DEF GetConfig, BootTake, BootPut, CloneConfig, AddService, RmService, SetConfig, SetConfigError,
         SetConfigKey, SetConfigKeyRefused, Report, Fail, TypeOK
<1>4. \A g \in Handles : hpc[g] # "none" /\ Safe(g)' => Safe(g)
  BY <1>1, <1>2, SafeBefore
<1>5. ASSUME NEW h \in Handles, Safe(h), NEW g \in Handles, hpc[g] \in Editing PROVE g = e
  <2>1. Kind[g] = "command" /\ g \notin acked /\ hpc[g] # "none"
    BY <1>5 DEF EditorInv, Editing, CommandKinds
  <2> QED BY <1>2, <1>5, <2>1, LoneEditor
<1>6. \A h \in acked : hpc[h] # "none"
  BY DEF EditorInv
<1>7. SUFFICES ASSUME "write" \notin faults'
               PROVE  /\ \A h \in acked' : Safe(h)' => KeptFor(h)'
                      /\ \A g \in Handles : hpc'[g] = "set" /\ Safe(g)' => Listed(g, heap[hobj[g]])'
  BY DEF KeptInv
<1>8. /\ \A h \in acked : Safe(h) => KeptFor(h)
      /\ \A g \in Handles : hpc[g] = "set" /\ Safe(g) => Listed(g, heap[hobj[g]])
      /\ configFile \in FileConfig
  BY <1>1, <1>7 DEF KeptInv, MemoryInv, PresentInv, TypeOK
<1>9. hobj[e] \in Objects /\ heap[hobj[e]] \in Config /\ taken[e] \in SUBSET Handles /\ <<e, "made">> \in Objects
  BY DEF TypeOK, Objects
<1> DEFINE Old(h) == h \in acked /\ Safe(h)
           ListedFile(h) == configFile' # None /\ Listed(h, configFile)'
           ListedIn(h) == /\ hpc'[e] \in Editing \ {"put"} => Listed(h, heap[hobj[e]])'
                          /\ hpc'[e] = "put" => Listed(h, heap[hobj[e]])' \/ h \in taken'[e]
\* It is enough to look at the command that takes the step.
<1>10. SUFFICES /\ \A h : Old(h) => ListedFile(h) /\ ListedIn(h)
                /\ e \in acked' /\ Safe(e) => ListedFile(e) /\ hpc'[e] = "leave"
                /\ hpc'[e] = "set" /\ Safe(e) => Listed(e, heap[hobj[e]])'
  <2>1. ASSUME NEW h \in acked', Safe(h)' PROVE KeptFor(h)'
    <3>1. h \in Handles /\ hpc[h] # "none" /\ Safe(h) /\ (h \in acked \/ h = e)
      BY <1>2, <1>3, <1>4, <1>6, <2>1
    <3>2. \A g \in Handles \ {e} : hpc'[g] \notin Editing
      BY <1>1, <1>5, <3>1
    <3>3. ListedFile(h) /\ ListedIn(h)
      BY <1>10, <2>1, <3>1 DEF Editing, CommandKinds
    <3> QED BY <3>2, <3>3 DEF KeptFor, Editing
  <2>2. ASSUME NEW g \in Handles, hpc'[g] = "set", Safe(g)' PROVE Listed(g, heap[hobj[g]])'
    <3>1. hpc[g] # "none" /\ Safe(g)
      BY <1>1, <1>2, <1>4, <2>2
    <3>2. g = e
      BY <1>1, <1>5, <2>2, <3>1 DEF Editing
    <3> QED BY <1>10, <2>2, <3>1, <3>2
  <2> QED BY <2>1, <2>2
<1>11. CASE GetConfig(e)
  <2>1. UNCHANGED <<configFile, cur, heap, acked, taken>> /\ hpc[e] = "open"
    BY <1>11 DEF GetConfig
  <2>2. hpc'[e] = "leave" \/ (hpc'[e] \in CommandKinds \ {"key"} /\ hobj'[e] = cur[href[e]])
    BY <1>11 DEF GetConfig, HGoTo, TypeOK, RepoAssumption
  <2>3. ASSUME NEW h, Old(h), hobj'[e] = cur[href[e]] PROVE Listed(h, heap[hobj[e]])'
    <3>1. Listed(h, configFile)
      BY <1>8, <2>3 DEF KeptFor
    <3>2. Idle
      BY <1>3, <1>5, <2>1, <2>3 DEF Idle, Editing
    <3>3. Agrees(href[e])
      <4>1. "write" \notin faults
        BY <1>1, <1>7
      <4>2. ProcOf[e] \in Procs /\ active[ProcOf[e]] = href[e] /\ href[e] # None
        BY <1>1, UsersHold
      <4> QED BY <3>2, <4>1, <4>2 DEF MemoryInv
    <3> QED BY <2>1, <2>3, <3>1, <3>3 DEF Agrees, Listed
  <2>4. \A h : Old(h) => ListedFile(h)
    BY <1>8, <2>1 DEF KeptFor
  <2> QED BY <1>2, <2>1, <2>2, <2>3, <2>4 DEF CommandKinds, Editing
<1>12. CASE BootTake(e)
  <2>1. /\ hpc[e] = "boot" /\ hpc'[e] = "put" /\ UNCHANGED <<configFile, acked, hobj>>
        /\ taken'[e] = heap[hobj[e]].boot /\ heap'[hobj[e]] = [heap[hobj[e]] EXCEPT !.boot = {}]
    BY <1>9, <1>12 DEF BootTake, HGoTo, TypeOK
  <2> QED BY <1>2, <1>8, <1>9, <2>1 DEF KeptFor, Listed, Editing, CommandKinds, Config
<1>13. CASE BootPut(e)
  <2>1. /\ hpc[e] = "put" /\ hpc'[e] = "set" /\ UNCHANGED <<configFile, acked, hobj>>
        /\ heap'[hobj[e]] = [heap[hobj[e]] EXCEPT !.boot = heap[hobj[e]].boot \cup taken[e] \cup {e}]
    BY <1>9, <1>13 DEF BootPut, HGoTo, TypeOK
  <2> QED BY <1>2, <1>8, <1>9, <2>1 DEF KeptFor, Listed, Editing, CommandKinds, Config
<1>14. CASE CloneConfig(e)
  <2>1. /\ hpc[e] = "profile" /\ hpc'[e] = "set" /\ UNCHANGED <<configFile, acked>>
        /\ hobj'[e] = <<e, "made">>
        /\ heap'[<<e, "made">>] = [heap[hobj[e]] EXCEPT !.keys = heap[hobj[e]].keys \cup {e}]
    BY <1>9, <1>14 DEF CloneConfig, HGoTo, TypeOK
  <2> QED BY <1>2, <1>8, <1>9, <2>1 DEF KeptFor, Listed, Editing, CommandKinds, Config
<1>15. CASE AddService(e) \/ RmService(e)
  <2>1. /\ hpc[e] \in ServiceCommands /\ hpc'[e] \in {"set", "leave"} /\ UNCHANGED <<configFile, acked, hobj>>
        /\ heap'[hobj[e]].boot = heap[hobj[e]].boot /\ heap'[hobj[e]].keys = heap[hobj[e]].keys
    <3>1. \/ UNCHANGED heap
          \/ heap'[hobj[e]] = [heap[hobj[e]] EXCEPT !.service = {e}]
          \/ heap'[hobj[e]] = [heap[hobj[e]] EXCEPT !.service = {}]
      BY <1>9, <1>15 DEF AddService, RmService, TypeOK
    <3>2. hpc[e] \in ServiceCommands /\ hpc'[e] \in {"set", "leave"} /\ UNCHANGED <<configFile, acked, hobj>>
      BY <1>15 DEF AddService, RmService, ServiceCommands, HGoTo, TypeOK
    <3> QED BY <1>9, <3>1, <3>2 DEF Config
  <2>2. ~ Safe(e)
    BY <2>1 DEF EditorInv, Safe
  <2> QED BY <1>2, <1>8, <2>1, <2>2 DEF KeptFor, Listed, Editing, CommandKinds, ServiceCommands
<1>16. CASE SetConfig(e)
  <2>1. /\ hpc[e] = "set" /\ hpc'[e] = "leave" /\ UNCHANGED <<heap, hobj>>
        /\ configFile' = MergedFile(heap[hobj[e]])
    BY <1>7, <1>16 DEF SetConfig, InSetConfig, WriteConfigFile, WriteConfigFileUnsaved, Fault, Report, HGoTo, TypeOK
  <2>2. /\ configFile' \in FileConfig
        /\ configFile'.boot = heap[hobj[e]].boot /\ configFile'.keys = heap[hobj[e]].keys
    BY Zenon, <1>8, <1>9, <2>1 DEF MergedFile, FileConfig, Config
  <2>3. configFile' # None
    BY <2>2 DEF RepoAssumption
  <2> QED BY <1>8, <2>1, <2>2, <2>3 DEF KeptFor, Listed, Editing, CommandKinds
<1>17. CASE SetConfigError(e) \/ SetConfigKeyRefused(e)
  <2>1. hpc'[e] = "leave" /\ UNCHANGED acked
    BY <1>17 DEF SetConfigError, SetConfigKeyRefused, Fail, HGoTo, TypeOK
  <2>2. UNCHANGED configFile
    BY <1>7, <1>17 DEF SetConfigError, WriteConfigFileError, Fault, SetConfigKeyRefused
  <2> QED BY <1>2, <1>8, <2>1, <2>2 DEF KeptFor, Editing, CommandKinds
<1>18. CASE SetConfigKey(e)
  <2>1. hpc'[e] = "leave" /\ configFile' = [configFile EXCEPT !.keys = configFile.keys \cup {e}]
    BY <1>7, <1>18 DEF SetConfigKey, WriteConfigFile, WriteConfigFileUnsaved, WriteConfigFileError, Fault, Report,
                       Fail, HGoTo, TypeOK
  <2>2. /\ configFile' \in FileConfig
        /\ configFile'.boot = configFile.boot /\ configFile'.keys = configFile.keys \cup {e}
    BY <1>8, <2>1 DEF FileConfig
  <2>3. configFile' # None
    BY <2>2 DEF RepoAssumption
  <2> QED BY <1>8, <2>1, <2>2, <2>3 DEF KeptFor, Listed, Editing, CommandKinds
<1> QED BY <1>11, <1>12, <1>13, <1>14, <1>15, <1>16, <1>17, <1>18

LEMMA KeptStep ==
  ASSUME RepoAssumption, BaseInv, CountInv, LockInv, EditorInv, MemoryInv, KeptInv, [Next]_vars
  PROVE  KeptInv'
<1>1. CASE OpenNext
  BY <1>1, OpenKept
<1>2. CASE ConfigNext
  BY <1>2, EditKept DEF ConfigNext
<1>3. CASE UNCHANGED vars
  BY <1>3 DEF vars, dirVars, editVars, boundVars, KeptInv, KeptFor, Listed, Safe, MayBeLost, Overlap
<1> QED BY <1>1, <1>2, <1>3 DEF Next

-----------------------------------------------------------------------------
(***************************************************************************)
(* The theorems.                                                           *)
(***************************************************************************)

IInv == BaseInv /\ CountInv /\ LockInv /\ LeakInv /\ EditorInv /\ ApiFileOwn /\ MemoryInv /\ KeptInv

\* Every variable keeps its type, and every process and reference its owner,
\* however long the commands take (fsrepo.Open, OnlyOne, FSRepo.Close).
THEOREM RepoTypes == Spec => []TypeOK
<1>1. Init => BaseInv
  BY InitBase, RepoAssumption
<1>2. BaseInv /\ [Next]_vars => BaseInv'
  BY BaseStep, RepoAssumption
<1>3. BaseInv => TypeOK
  BY DEF BaseInv
<1> QED BY <1>1, <1>2, <1>3, PTL DEF Spec

\* The inductive invariant, of repositories whose commands end in time.
THEOREM RepoInvariant == ASSUME ~ SlowCommands PROVE Spec => []IInv
<1>1. Init => IInv
  BY RepoAssumption, InitBase, CountInit, LockInit, EditorInit, MemoryInit, KeptInit DEF IInv
<1>2. IInv /\ [Next]_vars => IInv'
  BY RepoAssumption, BaseStep, CountStep, LockStep, EditorStep, ApiStep, MemoryStep, KeptStep DEF IInv
<1> QED BY <1>1, <1>2, PTL DEF Spec

\* Who has the repository open has it locked, with its datastore open, whatever
\* other callers and processes open, close or fail to open (OnlyOne.Open,
\* ref.Close, open's deferred unlock).
THEOREM RepoOpenLocked == ASSUME ~ SlowCommands PROVE Spec => []OpenMeansLocked
<1>1. IInv => OpenMeansLocked
  BY UsersHold, RepoAssumption DEF IInv, OpenMeansLocked, Using, UsingStates
<1> QED BY <1>1, RepoInvariant, PTL

\* No failing open, close or crash leaves the repository locked for nobody, but
\* for a datastore that does not close.
THEOREM RepoLockNotLeaked == ASSUME ~ SlowCommands PROVE Spec => []LockNotLeaked
<1>1. IInv => LockNotLeaked
  BY DEF IInv, LeakInv, LockNotLeaked, HeldPhases, ClosePhases
<1> QED BY <1>1, RepoInvariant, PTL

\* The api file leads to the daemon that serves: neither another daemon's
\* SetAPIAddr nor another FSRepo's Close touches it.
THEOREM RepoApiFile == ASSUME ~ SlowCommands PROVE Spec => []ApiFileOwn
<1>1. IInv => ApiFileOwn
  BY DEF IInv
<1> QED BY <1>1, RepoInvariant, PTL

\* Between the commands, the config an FSRepo gives is the one on disk
\* (SetConfig, SetConfigKey, openConfig).
THEOREM RepoMemory == ASSUME ~ SlowCommands PROVE Spec => []MemoryMatchesDisk
<1>1. IInv => MemoryMatchesDisk
  <2> SUFFICES ASSUME IInv, "write" \notin faults, NEW p \in Procs, active[p] # None,
                      \A h \in Handles : href[h] = active[p] => hpc[h] \notin {"put", "set"}
               PROVE  Agrees(active[p])
    BY DEF MemoryMatchesDisk, Agrees
  <2>1. Idle
    <3> SUFFICES ASSUME NEW h \in Handles, hpc[h] \in {"put", "set"} PROVE href[h] = active[p]
      BY DEF Idle
    <3>1. lock = href[h]
      BY UsersHold, RepoAssumption DEF IInv, UsingStates, Editing
    <3> QED BY <3>1 DEF IInv, LockInv
  <2> QED BY <2>1 DEF IInv, MemoryInv
<1> QED BY <1>1, RepoInvariant, PTL

\* Commands that come one after the other keep each other's changes of lists and
\* keys, across processes and crashes, while no write of the config fails.
THEOREM RepoEditsKept == ASSUME ~ SlowCommands PROVE Spec => []SequentialEditsKept
<1>1. IInv => SequentialEditsKept
  BY DEF IInv, KeptInv, KeptFor, Safe, Listed, SequentialEditsKept
<1> QED BY <1>1, RepoInvariant, PTL
=============================================================================
