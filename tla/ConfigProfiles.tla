--------------------------- MODULE ConfigProfiles ---------------------------
(***************************************************************************)
(* Config profiles (config/profile.go): transformations of the config that *)
(* `ipfs init --profile` applies to the default config and `ipfs config    *)
(* profile apply` to the one of a repository, after a backup.  A config is *)
(* written by merging it into the file's map, from which nothing that JSON *)
(* omits is ever removed.  Settings that a profile sets together are one   *)
(* field here.                                                             *)
(***************************************************************************)
EXTENDS Naturals, Sequences, FiniteSets

CONSTANTS
  ServerFilters,    \* defaultServerFilters: a sequence
  DefaultPeers,     \* the default bootstrap peers: a sequence
  InitProfiles,     \* lists given to init --profile
  ProfilesApplied,  \* the profiles `profile apply` is called with
  MaxEdits          \* bound: commands that change the config

ASSUME ProfileConstants ==
  /\ ServerFilters \in Seq(STRING) /\ DefaultPeers \in Seq(STRING)
  /\ \A names \in InitProfiles : names \in Seq(STRING)
  /\ MaxEdits \in Nat

VARIABLES
  cfgFile,     \* the config file; NoFile before init
  cfgMem,      \* the config object of the daemon, NoFile without one
  specOnDisk,  \* the DiskSpec file of the repository
  apply,       \* the `profile apply` at work: [pc, name, dry, new]
  backups,     \* copies of the config file
  applied      \* history: the profiles applied one after the other, with the file before each

pfVars == <<cfgFile, cfgMem, specOnDisk, apply, backups, applied>>

Elements(s) == {s[i] : i \in 1 .. Len(s)}

\* appendSingle: every entry of a, then of b, once.
AppendSingle(a, b) ==
  LET all == a \o b
      once[i \in 0 .. Len(all)] ==
        IF i = 0 THEN <<>>
        ELSE IF all[i] \in Elements(once[i - 1]) THEN once[i - 1] ELSE Append(once[i - 1], all[i])
  IN once[Len(all)]

\* deleteEntries: the keys of a map, in any order.
DeleteEntries(arr, del) ==
  LET left == Elements(arr) \ Elements(del) IN
  {s \in [1 .. Cardinality(left) -> left] : Elements(s) = left}

\* InitWithIdentity; fields JSON omits when they have their default are "unset".
DefaultConfig ==
  [api |-> "default", swarm |-> "default", noAnnounce |-> <<>>, filters |-> <<>>,
   bootstrap |-> DefaultPeers, mdns |-> TRUE, natPortMap |-> TRUE, spec |-> "flatfs",
   loopback |-> "unset", autoTLS |-> "unset", power |-> "unset",
   provider |-> "unset", reprovide |-> "unset", import |-> "unset"]
OmitEmpty == {"loopback", "autoTLS", "power", "provider", "reprovide"}
NoCfgFile == [spec |-> "none"]

----------------------------------------------------------------------------
(* The profiles: the configs a transformation may give.                    *)
Server(c) ==
  {[c EXCEPT !.noAnnounce = AppendSingle(@, ServerFilters), !.filters = AppendSingle(@, ServerFilters),
             !.mdns = FALSE, !.natPortMap = FALSE]}

\* Mutant: only what the node announces is put back.
LocalDiscoveryAnnounce(c) ==
  {[c EXCEPT !.noAnnounce = a, !.mdns = TRUE, !.natPortMap = TRUE] : a \in DeleteEntries(c.noAnnounce, ServerFilters)}

LocalDiscovery(c) ==
  {[c EXCEPT !.noAnnounce = left[1], !.filters = left[2], !.mdns = TRUE, !.natPortMap = TRUE] :
     left \in DeleteEntries(c.noAnnounce, ServerFilters) \X DeleteEntries(c.filters, ServerFilters)}

Test(c) ==
  {[c EXCEPT !.api = "test", !.swarm = "test", !.natPortMap = FALSE, !.loopback = "true",
             !.bootstrap = <<>>, !.mdns = FALSE, !.autoTLS = "false"]}

\* All addresses are set anew, those not to be announced with them.
DefaultNetworking(c) ==
  {[c EXCEPT !.api = "default", !.swarm = "default", !.noAnnounce = <<>>,
             !.bootstrap = AppendSingle(@, DefaultPeers), !.natPortMap = TRUE, !.mdns = TRUE, !.autoTLS = "unset"]}

Lowpower(c) == {[c EXCEPT !.power = "low"]}
AnnounceOff(c) == {[c EXCEPT !.provider = "false", !.reprovide = "0"]}
AnnounceOn(c) == {[c EXCEPT !.provider = "true", !.reprovide = "22h"]}
Randomports(c) == {[c EXCEPT !.swarm = "random"]}
Datastore(c, spec) == {[c EXCEPT !.spec = spec]}
Import(c, kind) == {[c EXCEPT !.import = kind]}

Datastores == {"flatfs", "flatfs-measure", "pebbleds", "pebbleds-measure", "badgerds", "badgerds-measure"}
Imports == {"legacy-cid-v0", "test-cid-v1", "test-cid-v1-wide"}

\* Profiles[name].Transform; {} for a name that is not a profile.
Transform(name, c) ==
  CASE name = "server" -> Server(c)
    [] name = "local-discovery" -> LocalDiscovery(c)
    [] name = "test" -> Test(c)
    [] name = "default-networking" -> DefaultNetworking(c)
    [] name = "lowpower" -> Lowpower(c)
    [] name = "announce-off" -> AnnounceOff(c)
    [] name = "announce-on" -> AnnounceOn(c)
    [] name = "randomports" -> Randomports(c)
    [] name = "default-datastore" -> Datastore(c, "flatfs")
    [] name \in Datastores -> Datastore(c, name)
    [] name \in Imports -> Import(c, name)
    [] OTHER -> {}

\* applyProfiles: one after the other.
ApplyProfiles(names) ==
  LET upTo[i \in 0 .. Len(names)] ==
        IF i = 0 THEN {DefaultConfig} ELSE UNION {Transform(names[i], c) : c \in upTo[i - 1]}
  IN upTo[Len(names)]

\* The DiskSpec of a datastore is the same with measurements and without.
StoreDiskSpec(spec) ==
  CASE spec \in {"flatfs", "flatfs-measure"} -> "flatfs"
    [] spec \in {"pebbleds", "pebbleds-measure"} -> "pebbleds"
    [] spec \in {"badgerds", "badgerds-measure"} -> "badgerds"

----------------------------------------------------------------------------
NoApply == [pc |-> "none", name |-> "none", dry |-> FALSE, new |-> NoCfgFile]

ProfilesInit ==
  /\ cfgFile = NoCfgFile /\ cfgMem = NoCfgFile /\ specOnDisk = "none" /\ apply = NoApply
  /\ backups = <<>> /\ applied = <<>>

\* doInit: the profiles, the config file, the DiskSpec; a wrong name, and nothing is made.
DoInit(names) ==
  /\ cfgFile = NoCfgFile /\ cfgFile' \in ApplyProfiles(names)
  /\ specOnDisk' = StoreDiskSpec(cfgFile'.spec)
  /\ UNCHANGED <<cfgMem, apply, backups, applied>>

\* A repository opens with the datastore it was made for only.
Opens == cfgFile # NoCfgFile /\ StoreDiskSpec(cfgFile.spec) = specOnDisk

StartDaemon ==
  /\ cfgMem = NoCfgFile /\ apply.pc = "none" /\ Opens /\ cfgMem' = cfgFile
  /\ UNCHANGED <<cfgFile, specOnDisk, apply, backups, applied>>

StopDaemon ==
  /\ cfgMem # NoCfgFile /\ apply.pc = "none" /\ cfgMem' = NoCfgFile
  /\ UNCHANGED <<cfgFile, specOnDisk, apply, backups, applied>>

\* The user edits the file: an address filter of his own, or one of the defaults.
UserFilter(f) ==
  /\ cfgMem = NoCfgFile /\ apply.pc = "none" /\ cfgFile # NoCfgFile
  /\ Len(applied) < MaxEdits /\ f \notin Elements(cfgFile.filters)
  /\ cfgFile' = [cfgFile EXCEPT !.filters = Append(@, f)]
  /\ applied' = Append(applied, [name |-> "user", before |-> cfgFile])
  /\ UNCHANGED <<cfgMem, specOnDisk, apply, backups>>

\* transformConfig works on a clone of the config object.
CloneConfig(c) == UNCHANGED cfgMem

\* config profile apply: the repository is opened (in a daemon it is), the profile
\* applied to a clone.  InitOnly is not looked at.
ApplyStart(name, dry) ==
  /\ apply.pc = "none" /\ Len(applied) < MaxEdits
  /\ cfgMem # NoCfgFile \/ Opens
  /\ \E c \in Transform(name, IF cfgMem = NoCfgFile THEN cfgFile ELSE cfgMem) :
       apply' = [pc |-> IF dry THEN "done" ELSE "backup", name |-> name, dry |-> dry, new |-> c] /\ CloneConfig(c)
  /\ UNCHANGED <<cfgFile, specOnDisk, backups, applied>>

\* BackupConfig.
ApplyBackup ==
  /\ apply.pc = "backup"
  /\ \/ backups' = Append(backups, cfgFile) /\ apply' = [apply EXCEPT !.pc = "set"]
     \/ apply' = NoApply /\ UNCHANGED backups
  /\ UNCHANGED <<cfgFile, cfgMem, specOnDisk, applied>>

\* ToMap and MapMergeDeep: what JSON omits keeps its value in the file.
MergedConfig(old, new) ==
  [k \in DOMAIN old |-> IF k \in OmitEmpty /\ new[k] = "unset" THEN old[k] ELSE new[k]]

\* SetConfig.
ApplySet ==
  /\ apply.pc = "set"
  /\ \/ /\ cfgFile' = MergedConfig(cfgFile, apply.new) /\ apply' = NoApply
        /\ cfgMem' = IF cfgMem = NoCfgFile THEN NoCfgFile ELSE apply.new
        /\ applied' = Append(applied, [name |-> apply.name, before |-> cfgFile])
     \/ apply' = NoApply /\ UNCHANGED <<cfgFile, cfgMem, applied>>
  /\ UNCHANGED <<specOnDisk, backups>>

\* A dry run shows the two configs and is done.
ApplyDry ==
  /\ apply.pc = "done" /\ apply' = NoApply
  /\ UNCHANGED <<cfgFile, cfgMem, specOnDisk, backups, applied>>

ProfilesNext ==
  \/ \E names \in InitProfiles : DoInit(names)
  \/ StartDaemon \/ StopDaemon
  \/ \E f \in {"mine"} \union Elements(ServerFilters) : UserFilter(f)
  \/ \E name \in ProfilesApplied, dry \in BOOLEAN : Len(backups) < MaxEdits /\ ApplyStart(name, dry)
  \/ ApplyBackup \/ ApplySet \/ ApplyDry

ProfilesSpec == ProfilesInit /\ [][ProfilesNext]_pfVars

----------------------------------------------------------------------------
(* What a config means: lists without their order, defaults spelled out.   *)
Effective(c, k, default) == IF c[k] = "unset" THEN default ELSE c[k]
Meaning(c) ==
  [c EXCEPT !.noAnnounce = Elements(@), !.filters = Elements(@), !.bootstrap = Elements(@),
            !.loopback = Effective(c, "loopback", "false"), !.autoTLS = Effective(c, "autoTLS", "true"),
            !.provider = Effective(c, "provider", "true"), !.reprovide = Effective(c, "reprovide", "22h")]

\* The last two profiles were p and q, and q had nothing to do before p.
Reverted(p, q) ==
  LET n == Len(applied) IN
  /\ n >= 2 /\ applied[n - 1].name = p /\ applied[n].name = q
  /\ \A c \in Transform(q, applied[n - 1].before) : Meaning(c) = Meaning(applied[n - 1].before)

RevertedTo == Meaning(applied[Len(applied) - 1].before)

(* local-discovery takes back what server did, and announce-on what         *)
(* announce-off did, whatever filters the user has of his own, in a daemon  *)
(* or without one (profile.go:62, 288).                                     *)
RevertRestores ==
  \A pair \in {<<"server", "local-discovery">>, <<"announce-off", "announce-on">>} :
    Reverted(pair[1], pair[2]) => Meaning(cfgFile) = RevertedTo

(* Every profile that was applied left a backup of just the file it met,    *)
(* whatever was applied or written since (config.go:476).                   *)
BackupBefore ==
  \A i \in 1 .. Len(applied) :
    applied[i].name # "user" => applied[i].before \in Elements(backups)

(* A dry run, and an apply that fails, leave the daemon's config and the    *)
(* file as they were: both still say the same, where JSON can say it        *)
(* (config.go:464).                                                         *)
MemoryFollowsFile ==
  cfgMem # NoCfgFile => \A k \in DOMAIN cfgMem \ OmitEmpty : cfgMem[k] = cfgFile[k]

\* A profile can be taken back: by its counterpart, by the backup, and one that was
\* not applied has changed nothing.
ProfilesReversible == RevertRestores /\ BackupBefore /\ MemoryFollowsFile
=============================================================================
