----------------------------- MODULE MCCommands -----------------------------
(***************************************************************************)
(* The callers of the block store under fairness, and the commands and     *)
(* interfaces that read or change what the node keeps, one component at a  *)
(* time: every behaviour is one of NodeStore, FuseFS, KeyStore, AddrLists, *)
(* RefsWalk, ApiFile, ConfigProfiles, ResourceLimits, DatastoreSpec or     *)
(* DriveFS, named by part, beside the others at rest.                      *)
(***************************************************************************)
EXTENDS NodeStore, FuseFS, KeyStore, AddrLists, RefsWalk, ApiFile,
        ConfigProfiles, ResourceLimits, DatastoreSpec, DriveFS

VARIABLE part   \* the component at work

CONSTANTS a1, u1, g1, r1, hDir0, hDir1, hFile, hOther

\* The node store: a directory that is added, and a node that is pinned, unpinned and removed.
V1(h) == [ver |-> 1, codec |-> "dag-pb", hash |-> h]
Raw(h) == [ver |-> 1, codec |-> "raw", hash |-> h]
mcBlock == {hDir0, hDir1, hFile, hOther}
mcCids == {V1(hDir0), V1(hDir1), V1(hOther), Raw(hFile)}
mcLinks == [c \in mcCids |-> IF c.hash \in {hDir1, hOther} THEN {Raw(hFile)} ELSE {}]
mcFiles == [a \in Adders |-> <<Raw(hFile)>>]
mcPartialDir == [a \in Adders |-> <<V1(hDir0), V1(hDir1)>>]
Req(op, c) == [op |-> op, root |-> c, to |-> c, nodes |-> {}, flag |-> TRUE]
mcRequests == {Req("add", V1(hOther)), Req("rm", V1(hOther))}
mcRmArgs == {{V1(hOther)}}
mcProcs == Adders \cup Users \cup Collectors \cup Removers
mcMfs0 == V1(hDir0)

mcFPlaces == {<<"d", "a">>, <<"d", "b">>, <<"e", "a">>}

mcMaskOf == [f \in FilterTexts |-> IF f = "junk" THEN "bad" ELSE "net"]
Boot(addr) == [id |-> "p", addr |-> addr]
mcListArgs ==
  [filtersAdd |-> {<<"t1", "junk">>, <<"t1">>}, filtersRm |-> {<< >>, <<"t1x">>},
   bootAdd |-> {<<Boot("x")>>}, bootRm |-> {<<Boot("none"), Boot("x")>>}]
mcBootDefault == <<Boot("x")>>

\* Every DAG of four nodes in this order, and one with a link that is there twice.
mcRefDags ==
  {[n \in 1 .. 4 |-> SetToSortSeq({m \in 1 .. 4 : <<n, m>> \in E}, <)] :
     E \in SUBSET {e \in (1 .. 4) \X (1 .. 4) : e[1] < e[2]}}
  \union {[n \in 1 .. 4 |-> IF n = 1 THEN <<3, 2, 3>> ELSE IF n = 2 THEN <<4, 3>> ELSE IF n = 3 THEN <<4>> ELSE <<>>]}
mcRefArguments == {<<1>>, <<2, 1>>}
mcRefDepths == {-1, 0, 2}

mcCatSizes == {<<>>, <<2>>, <<2, 3>>, <<1, 0, 2>>, <<2, 1, 3>>}
mcCatOffsets == {-1, 0, 1, 2, 3, 4, 7}
mcCatMaxes == {-1, 0, 1, 2, 3, 5}
mcVersionSize == <<3, 2>>
mcSeekOffsets == {-1, 0, 1, 2}

mcServerFilters == <<"f1", "f2">>
mcDefaultPeers == <<"b1">>
mcInitProfiles == {<<>>, <<"test">>, <<"pebbleds", "server">>, <<"nosuch">>}
mcProfilesApplied ==
  {"server", "local-discovery", "test", "default-networking", "lowpower", "announce-off", "announce-on",
   "randomports", "flatfs", "pebbleds-measure", "default-datastore", "test-cid-v1", "legacy-cid-v0",
   "badgerds", "nosuch"}

\* No file of the user, for small and large memory and marks; a limit for one peer, for
\* peers and of each kind; a manager that is off; and limits that are not checked.
NoOverride == [s \in Scopes |-> [k \in LimitKinds |-> DefaultLimit]]
RmConfig(memory, fds, mark, user) ==
  [mem |-> memory, fd |-> fds, highWater |-> mark, connMgr |-> "basic", allowlist |-> FALSE,
   enabled |-> TRUE, env |-> "unset", user |-> user, peers |-> <<>>]
PlainConfig == RmConfig(16, 8, 1, NoOverride)
WithSystem(k, v) == [PlainConfig EXCEPT !.user["system"][k] = v]
TooLow == WithSystem("Conns", 1)
mcRmConfigs ==
  {RmConfig(m, 1, h, NoOverride) : m \in {2, 16}, h \in {0, 1}}
  \union {[PlainConfig EXCEPT !.peers = [p \in {"p"} |-> 1]]}
  \union {[PlainConfig EXCEPT !.user["peer"]["Conns"] = 1, !.user["transient"]["ConnsInbound"] = UnlimitedLimit]}
  \union {WithSystem(k, v) : k \in {"Conns", "ConnsInbound"}, v \in {BlockAllLimit, 2}}
  \union {WithSystem(k, 1) : k \in LimitKinds}
  \union {[TooLow EXCEPT !.enabled = on, !.env = e] : on \in BOOLEAN, e \in {"unset", "0", "1"}}
  \union {[TooLow EXCEPT !.connMgr = "none"], [TooLow EXCEPT !.allowlist = TRUE]}
mcScaledLimits == [s \in Scopes |-> [k \in LimitKinds |-> 1]]
Endpoint(p, in, fd) == [peer |-> p, inbound |-> in, fd |-> fd]
mcEndpoints ==
  {Endpoint("p", TRUE, TRUE), Endpoint("p", FALSE, FALSE), Endpoint("q", TRUE, FALSE), Endpoint("q", FALSE, TRUE)}

\* Datastore specs: the default layout with other shards, options, orders and wrappers;
\* one store for all, alone and in a mount; stores in memory; and what cannot be read.
Store(type, path, shard, opts) == [type |-> type, path |-> path, shard |-> shard, opts |-> opts]
Flat(shard, opts) == Store("flatfs", "blocks", shard, opts)
Level(opts) == Store("levelds", "datastore", "any", opts)
Wrap(type, spec, name) == [type |-> type, child |-> spec, name |-> name]
MountAs(prefix, spec) == [at |-> prefix, spec |-> spec]
MountOf(m1, m2) == [type |-> "mount", mounts |-> <<m1, m2>>]
RootOf(spec) == [type |-> "mount", mounts |-> <<MountAs(<<>>, spec)>>]
Mem == [type |-> "mem"]
BlocksAt == <<"blocks">>
mcSpecs ==
  {MountOf(MountAs(BlocksAt, Flat(sh, o)), MountAs(<<>>, Level(o))) : sh \in {"s1", "s2"}, o \in {"x", "y", "bad"}}
  \union {MountOf(MountAs(<<>>, Level("x")), MountAs(BlocksAt, Wrap(w, Flat("s1", "x"), n))) : w \in {"log", "measure"}, n \in {"m", "none"}}
  \union {MountOf(MountAs(BlocksAt, Level("x")), MountAs(<<>>, Flat("s1", "x")))}
  \union {Wrap("measure", Store(t, "datastore", "any", "x"), "m") : t \in {"pebbleds", "badgerds", "levelds"}}
  \union {Store("pebbleds", p, "any", o) : p \in {"datastore", "none"}, o \in {"x", "y"}}
  \union {Store("badgerds", "datastore", "any", "x"), Level("x"), RootOf(Level("x"))}
  \union {Mem, Wrap("log", Mem, "m"), RootOf(Mem)}
  \union {MountOf(MountAs(BlocksAt, Mem), MountAs(<<>>, Level("x"))), MountOf(MountAs(<<>>, Mem), MountAs(BlocksAt, Flat("s1", "x")))}
  \union {RootOf(MountOf(MountAs(BlocksAt, Flat("s1", "x")), MountAs(<<>>, Level("x"))))}
  \union {[type |-> "mount", mounts |-> <<MountAs(BlocksAt, Flat("s1", "x"))>>], [type |-> "unknown"], [type |-> "oldstyle"]}
mcMountpoints == <<BlocksAt, <<>>>>
mcDsKeys == {<<"blocks", "k">>, <<"pins">>}

\* An upload and a new folder, with a name the script uses too.
mcDriveRequests ==
  [d1 |-> [kind |-> "file", path |-> <<"Documents">>], d2 |-> [kind |-> "folder", path |-> <<"Documents", "a">>]]
mcDrivePaths == <<<<"Documents", "Projects">>, <<"Documents", "Projects", "demo">>, <<"Documents", "readme">>>>

\* States at rest of components with many initial states.
RefsAtRest ==
  /\ \A n \in DOMAIN dag : dag[n] = <<>>
  /\ ~unique /\ missing = {} /\ maxDepth = 0 /\ allArgs = <<1>>
CatAtRest == cats.sizes = <<>> /\ cats.offset0 = 0 /\ cats.max = -1 /\ cats.out = "busy"
LimitsAtRest == rmCfg = TooLow

commandsVars == <<part, vars, rlVars, rfVars, cats, dsVars, fsKind, fdVars, ffVars, ro, kVars,
                  lVars, afVars, dir, pfVars, drVars>>

\* A step of the component p: the others stay as they are.
On(p, A) ==
  /\ part = p /\ A
  /\ UNCHANGED <<part, fsKind>>
  /\ IF p = "store" THEN TRUE ELSE UNCHANGED vars
  /\ IF p = "limits" THEN TRUE ELSE UNCHANGED rlVars
  /\ IF p = "refs" THEN TRUE ELSE UNCHANGED rfVars
  /\ IF p = "cat" THEN TRUE ELSE UNCHANGED cats
  /\ IF p = "datastore" THEN TRUE ELSE UNCHANGED dsVars
  /\ IF p = "fusedir" THEN TRUE ELSE UNCHANGED fdVars
  /\ IF p = "fusefile" THEN TRUE ELSE UNCHANGED ffVars
  /\ IF p = "fusero" THEN TRUE ELSE UNCHANGED ro
  /\ IF p = "keys" THEN TRUE ELSE UNCHANGED kVars
  /\ IF p = "lists" THEN TRUE ELSE UNCHANGED lVars
  /\ IF p = "file" THEN TRUE ELSE UNCHANGED afVars
  /\ IF p = "dir" THEN TRUE ELSE UNCHANGED dir
  /\ IF p = "profiles" THEN TRUE ELSE UNCHANGED pfVars
  /\ IF p = "drive" THEN TRUE ELSE UNCHANGED drVars

\* One component works in a behaviour; the others are in one state of their Init.
CommandsInit ==
  /\ part \in {"store", "limits", "refs", "cat", "datastore", "fusedir",
             "fusefile", "fusero", "keys", "lists", "file", "dir", "profiles",
             "drive"}
  /\ Init
  /\ LimitsInit /\ (part = "limits" \/ LimitsAtRest)
  /\ RefsInit /\ (part = "refs" \/ RefsAtRest)
  /\ CatInit /\ (part = "cat" \/ CatAtRest)
  /\ DsInit /\ (part = "datastore" \/ dsConfig = Store("pebbleds", "datastore", "any", "x"))
  /\ fsKind \in {"mfs", "ipns"} /\ (part \in {"fusedir", "fusefile"} \/ fsKind = "mfs") /\ FuseDirInit
  /\ FuseFileInit
  /\ RoInit
  /\ KeyInit
  /\ ListInit
  /\ AfInit
  /\ DirInit /\ (part = "dir" \/ dir.entries = 0)
  /\ ProfilesInit
  /\ DriveInit

CommandsNext ==
  \/ On("store", Next)
  \/ On("limits", LimitsNext)
  \/ On("refs", RefsNext)
  \/ On("cat", CatNext)
  \/ On("datastore", DsNext)
  \/ On("fusedir", FuseDirNext)
  \/ On("fusefile", FuseFileNext)
  \/ On("fusero", RoNext)
  \/ On("keys", KeyNext)
  \/ On("lists", ListNext)
  \/ On("file", AfNext)
  \/ On("dir", DirNext)
  \/ On("profiles", ProfilesNext)
  \/ On("drive", DriveNext)

\* The fairness of NodeStore; the others promise nothing that needs any.
CommandsFairness ==
  /\ \A p \in Writers : SF_commandsVars(On("store", Announce(p)))
  /\ \A g \in Collectors :
       /\ WF_commandsVars(On("store", GCStep(g) /\ UNCHANGED <<adderVars, userVars, rmVars, filesVars>>))
       /\ WF_commandsVars(On("store", SweepDone(g) /\ UNCHANGED <<adderVars, userVars, rmVars, filesVars>>))
  /\ \A a \in Adders : WF_commandsVars(On("store", AdderStep(a) /\ UNCHANGED <<gcVars, userVars, rmVars, filesVars>>))
  /\ \A u \in Users : WF_commandsVars(On("store", UserStep(u) /\ UNCHANGED <<gcVars, adderVars, rmVars, filesVars>>))
  /\ \A r \in Removers : WF_commandsVars(On("store", RmStep(r) /\ UNCHANGED <<gcVars, adderVars, userVars, filesVars>>))

CommandsSpec == CommandsInit /\ [][CommandsNext]_commandsVars /\ CommandsFairness
=============================================================================
