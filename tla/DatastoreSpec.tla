---------------------------- MODULE DatastoreSpec ----------------------------
(***************************************************************************)
(* The datastore a repository is opened with (repo/fsrepo/datastores.go    *)
(* and the datastore plugins).  Datastore.Spec of the config is a tree:    *)
(* stores (flatfs, levelds, badgerds, pebbleds, and mem, which keeps       *)
(* nothing on disk), wrappers (log, measure) and mounts that send a key to *)
(* the store of its prefix.  What of it characterises the data, its        *)
(* DiskSpec, is kept in the repository, and a config with another one is   *)
(* refused.                                                                *)
(*                                                                         *)
(* A key is a sequence of names; Mountpoints are in the order the code     *)
(* sorts them in, the greatest string first.  RECURSIVE operators follow   *)
(* the tree, as the code does.                                             *)
(***************************************************************************)
EXTENDS Naturals, Sequences, FiniteSets, TLC

CONSTANTS
  Specs,         \* the trees a user may write
  Mountpoints,   \* all mountpoints, sorted
  DsKeys         \* the keys that are looked at

Leaves == {"flatfs", "levelds", "badgerds", "pebbleds"}
Wrappers == {"log", "measure"}
Unreadable == {"unknown", "missing", "oldstyle"}
ASSUME DatastoreConstants ==
  /\ Mountpoints \in Seq(Seq(STRING)) /\ DsKeys \subseteq Seq(STRING)
  /\ \A s \in Specs : s.type \in Leaves \union Wrappers \union Unreadable \union {"mem", "mount"}

----------------------------------------------------------------------------
(* The parsers: what they refuse.  opts stands for all run-time values,    *)
(* "bad" for one that is not of its type; path or shard "none" is missing. *)
FlatfsConfig(s) == s.path # "none" /\ s.shard # "none" /\ s.opts # "bad"
LeveldsConfig(s) == s.path # "none" /\ s.opts # "bad"
BadgerdsConfig(s) == s.path # "none" /\ s.opts # "bad"
PebbledsConfig(s) == s.path # "none" /\ s.opts # "bad"
WrapperConfig(s) == s.name # "none"

RECURSIVE AnyDatastoreConfig(_)
\* AnyDatastoreConfig: whether the tree can be read.  A mem store takes any parameters.
AnyDatastoreConfig(s) ==
  CASE s.type = "flatfs" -> FlatfsConfig(s)
    [] s.type = "levelds" -> LeveldsConfig(s)
    [] s.type = "badgerds" -> BadgerdsConfig(s)
    [] s.type = "pebbleds" -> PebbledsConfig(s)
    [] s.type \in Wrappers -> AnyDatastoreConfig(s.child) /\ WrapperConfig(s)
    [] s.type = "mount" -> \A i \in 1 .. Len(s.mounts) : AnyDatastoreConfig(s.mounts[i].spec)
    [] s.type = "mem" -> TRUE
    [] OTHER -> FALSE

Rank(at) == CHOOSE i \in 1 .. Len(Mountpoints) : Mountpoints[i] = at

\* MountDatastoreConfig sorts its mounts.
SortedMounts(mounts) == SortSeq(mounts, LAMBDA a, b : Rank(a.at) < Rank(b.at))

\* A store's DiskSpec: type, path and, for flatfs, how it is sharded.
LeafDiskSpec(s) == [type |-> s.type, path |-> s.path, shard |-> IF s.type = "flatfs" THEN s.shard ELSE "any"]

\* A mem store's, which is nil: in a mount only its mountpoint is left.
NilDiskSpec == [type |-> "nil"]

RECURSIVE DiskSpec(_)
\* DiskSpec: wrappers leave no trace in it.
DiskSpec(s) ==
  CASE s.type \in Leaves -> LeafDiskSpec(s)
    [] s.type = "mem" -> NilDiskSpec
    [] s.type \in Wrappers -> DiskSpec(s.child)
    [] s.type = "mount" ->
         LET m == SortedMounts(s.mounts) IN
         [type |-> "mount", mounts |-> [i \in 1 .. Len(m) |-> [at |-> m[i].at, spec |-> DiskSpec(m[i].spec)]]]

RECURSIVE Stores(_)
\* Create's order: the stores of the mounts one after the other.  A mem store is a map.
Stores(s) ==
  CASE s.type \in Leaves -> <<s>>
    [] s.type = "mem" -> <<>>
    [] s.type \in Wrappers -> Stores(s.child)
    [] s.type = "mount" ->
         LET m == SortedMounts(s.mounts)
             upTo[i \in 0 .. Len(m)] == IF i = 0 THEN <<>> ELSE upTo[i - 1] \o Stores(m[i].spec)
         IN upTo[Len(m)]

Nowhere == <<"nowhere">>
HasPrefix(key, at) == Len(at) <= Len(key) /\ SubSeq(key, 1, Len(at)) = at

RECURSIVE StoreOf(_, _)
\* The store a key goes to: a mount takes the first of its mounts whose prefix it has
\* (the mount datastore is external).
StoreOf(s, key) ==
  CASE s.type \in Leaves -> <<s.type, s.path, key>>
    [] s.type = "mem" -> <<"mem", key>>
    [] s.type \in Wrappers -> StoreOf(s.child, key)
    [] s.type = "mount" ->
         LET m == SortedMounts(s.mounts)
             hits == {i \in 1 .. Len(m) : HasPrefix(key, m[i].at)}
         IN IF hits = {} THEN Nowhere
            ELSE LET i == CHOOSE i \in hits : \A j \in hits : i <= j IN
                 StoreOf(m[i].spec, SubSeq(key, Len(m[i].at) + 1, Len(key)))

----------------------------------------------------------------------------
(* Opening and closing it.                                                 *)
VARIABLES
  dsConfig,   \* Datastore.Spec of the config
  diskSpec,   \* the DiskSpec file of the repository
  madeWith,   \* history: the spec the repository was made with
  dsState,    \* "closed", "create", "open", "mismatch" or "failed"
  toCreate,   \* stores that Create has still to open
  openStores, \* paths of stores that are open in this process
  placed      \* where each key is kept; <<>>: nowhere

dsVars == <<dsConfig, diskSpec, madeWith, dsState, toCreate, openStores, placed>>

\* ipfs init: the spec is written to the repository.  One that is there is kept, which
\* leaves what init and an edit of the config would.
DsInit ==
  /\ dsConfig \in {s \in Specs : AnyDatastoreConfig(s)} /\ madeWith = dsConfig
  /\ diskSpec = DiskSpec(dsConfig) /\ dsState = "closed" /\ toCreate = <<>> /\ openStores = {}
  /\ placed = [k \in DsKeys |-> <<>>]

\* The user edits Datastore.Spec.
DsEdit(s) ==
  /\ dsState \in {"closed", "mismatch", "failed"} /\ dsConfig' = s /\ dsState' = "closed"
  /\ UNCHANGED <<diskSpec, madeWith, toCreate, openStores, placed>>

\* Mutant: the DiskSpec on disk is not compared.
DsOpenAny ==
  /\ dsState = "closed" /\ AnyDatastoreConfig(dsConfig)
  /\ dsState' = "create" /\ toCreate' = Stores(dsConfig)
  /\ UNCHANGED <<dsConfig, diskSpec, madeWith, openStores, placed>>

\* openDatastore: the tree is read (or is missing, or of the old style), its DiskSpec compared with the one on disk.
DsOpen ==
  /\ dsState = "closed"
  /\ dsState' = IF ~AnyDatastoreConfig(dsConfig) THEN "failed"
                ELSE IF DiskSpec(dsConfig) # diskSpec THEN "mismatch" ELSE "create"
  /\ toCreate' = IF dsState' = "create" THEN Stores(dsConfig) ELSE <<>>
  /\ UNCHANGED <<dsConfig, diskSpec, madeWith, openStores, placed>>

\* The spec file cannot be read.
DsOpenUnread ==
  /\ dsState = "closed" /\ AnyDatastoreConfig(dsConfig) /\ dsState' = "failed"
  /\ UNCHANGED <<dsConfig, diskSpec, madeWith, toCreate, openStores, placed>>

\* Create opens the next store.  One that is open in this process is locked.
DsCreate ==
  /\ dsState = "create" /\ toCreate # <<>> /\ Head(toCreate).path \notin openStores
  /\ openStores' = openStores \union {Head(toCreate).path} /\ toCreate' = Tail(toCreate)
  /\ UNCHANGED <<dsConfig, diskSpec, madeWith, dsState, placed>>

\* A store cannot be opened: the mount returns, and leaves those before it open.
DsCreateFails ==
  /\ dsState = "create" /\ toCreate # <<>>
  /\ dsState' = "failed" /\ toCreate' = <<>>
  /\ UNCHANGED <<dsConfig, diskSpec, madeWith, openStores, placed>>

DsCreated ==
  /\ dsState = "create" /\ toCreate = <<>> /\ dsState' = "open"
  /\ UNCHANGED <<dsConfig, diskSpec, madeWith, toCreate, openStores, placed>>

\* A key without a mount is refused.
DsPut(k) ==
  /\ dsState = "open" /\ placed[k] = <<>> /\ StoreOf(dsConfig, k) # Nowhere
  /\ placed' = [placed EXCEPT ![k] = StoreOf(dsConfig, k)]
  /\ UNCHANGED <<dsConfig, diskSpec, madeWith, dsState, toCreate, openStores>>

\* Close, or the end of the process, which closes what a failed Create left too and loses
\* what was in memory.
DsClose ==
  /\ dsState \in {"open", "failed"} /\ openStores' = {}
  /\ dsState' = IF dsState = "open" THEN "closed" ELSE dsState
  /\ placed' = [k \in DsKeys |-> IF placed[k] # <<>> /\ Head(placed[k]) = "mem" THEN <<>> ELSE placed[k]]
  /\ UNCHANGED <<dsConfig, diskSpec, madeWith, toCreate>>

DsNext ==
  \/ \E s \in Specs : DsEdit(s)
  \/ DsOpen \/ DsOpenUnread \/ DsCreate \/ DsCreateFails \/ DsCreated \/ DsClose
  \/ \E k \in DsKeys : DsPut(k)

DsSpec == DsInit /\ [][DsNext]_dsVars

----------------------------------------------------------------------------
(* A repository that opens finds every key that was put on disk where it   *)
(* was put, whatever was changed in the config since: equal DiskSpecs are   *)
(* the same datastore (datastores.go:32).  Memory keeps nothing.            *)
KeysFound ==
  dsState = "open" => \A k \in DsKeys : placed[k] # <<>> => StoreOf(dsConfig, k) = placed[k]

RECURSIVE Layout(_, _)
\* What a tree is made of, as a set: every store and mount, below which mountpoints.
Layout(s, below) ==
  CASE s.type = "flatfs" -> {<<below, "flatfs", s.path, s.shard>>}
    [] s.type \in Leaves \ {"flatfs"} -> {<<below, s.type, s.path>>}
    [] s.type \in Wrappers -> Layout(s.child, below)
    [] s.type = "mount" ->
         {<<below, "mount">>} \union
         UNION {Layout(s.mounts[i].spec, Append(below, s.mounts[i].at)) : i \in 1 .. Len(s.mounts)}
    [] s.type = "mem" -> {<<below, "mem">>}

(* Run-time values, wrappers and the order of mounts never make a config    *)
(* another datastore, and nothing else is passed over (datastores.go:32):   *)
(* a config is refused just if it names other stores, shards or mounts.     *)
RefusedIfOther ==
  /\ dsState = "mismatch" => Layout(dsConfig, <<>>) # Layout(madeWith, <<>>)
  /\ dsState \in {"create", "open"} => Layout(dsConfig, <<>>) = Layout(madeWith, <<>>)

\* The DiskSpec tells just the configs apart that are made of other stores or mounts, so
\* what is on disk is found.
DiskSpecExact == KeysFound /\ RefusedIfOther
=============================================================================
