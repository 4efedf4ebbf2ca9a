# A TLA+ model of the BockIPFS node

This directory holds TLA+ modules for the Kubo node in `kubo-master/`, TLC
configurations that check them on small instances, and TLAPS proofs of the
central results. Paths below are relative to `kubo-master/` unless they start
with another top-level directory.

## 1. The system and its parts

The repository has three programs: the IPFS node `kubo-master/` (Go), and two
small Next.js programs, `DecentralisedDrive/` and an earlier copy of it,
`frontend/`, that keep a user's file tree in a JSON file and hand file contents
to the node. The node's block store formats, pinner, MFS, bitswap, namesys and
gateway are libraries (boxo, libp2p); the repository holds the logic that uses
them: who may delete what and when, how the repository directory is shared, the
command handlers and the daemon's own loops.

| Component | State it keeps | Operations | What makes it correct |
|---|---|---|---|
| GC lock (boxo `GCLocker`, created in `core/node/storage.go`) | readers, waiting readers, one writer, pending GC requests | `PinLock`, `GCLock`, `GCRequested`, unlock | exclusion, and nobody waits for ever |
| Garbage collector (`gc/gc.go`, `core/corerepo/gc.go`) | the marked set, the walk's frontier, the error flag, the listing of the store | mark recursive pins, best-effort roots, direct pins; sweep; cancel | never deletes what a pin protects; stops when it cannot see all of it |
| Adder (`core/coreunix/add.go`) and `ipfs add` (`core/commands/add.go`) | the tree built so far, the pin lock; an event channel | add a file or directory, pause for GC, pin the root; report and print | nothing it has written is lost while it pauses; success means everything was added and told |
| Pin, block and dag API (`core/coreapi/pin.go`, `block.go`, `dag.go`, `core/commands/dag`) | the request in progress; an import's batches; an export's pipe | pin add, rm, update; block put; dag put, import, export | a recursive pin is complete when it is recorded; a truncated export is an error |
| Block removal (`blocks/blockstoreutil/remove.go`) | the CIDs still to be removed | filter pinned, delete | never removes a pinned block |
| MFS commands (`core/commands/files.go`) | the MFS root, the tree in memory and flushed | cp, write, mkdir, mv, rm, chcid, flush | the tree they leave is kept by the collector; a move that is interrupted loses no file |
| Result channels (`gc/gc.go`, `core/commands`, `core/coreapi`, `client/rpc`) | a channel, its producer and consumer, the caller's context | send, read, cancel, report | success means complete; nobody is left waiting |
| p2p forwarding (`p2p/*.go`) | two maps of listeners, sockets, a registry of streams with counts and tags per peer | forward, listen, close, accept, copy, stream close | every socket has an owner; counts equal streams; no stream stays behind |
| Daemon (`cmd/ipfs/kubo/daemon.go`) and plugin loader (`plugin/loader`) | the main goroutine, servers, the node's process tree, loader state, started plugins | start in order, serve, interrupt, `ipfs shutdown`, stop | whatever fails, what was started is closed; it ends when told |
| Remote pinning of the MFS root (`cmd/ipfs/kubo/pinmfs.go`) | a timer, the last pin per service | poll, pin all services, collect | every service follows the root, not more often than configured |
| Remote pin commands (`core/commands/pin/remotepin.go`) | requests of a remote service | add and poll, rm, service ls | a removal takes only what it was asked for |
| Repository (`repo/fsrepo/fsrepo.go`, `repo/onlyone.go`) | the directory's files, `repo.lock`, references per process, the api file | init, open, close, crash | whoever has it open has it locked, and the lock is given back |
| Datastore spec (`repo/fsrepo/datastores.go`) | the nested spec, the DiskSpec on disk | parse, create, open | equal DiskSpecs are the same data |
| Migrations (`repo/fsrepo/migrations`) | repository version, fetched programs, a temporary node | fetch with retries, run in order | runs the series from where the repo is, or reports where it stopped |
| Configuration commands (`core/commands/config.go`, `bootstrap.go`, `swarm.go`, `pin/remotepin.go`) and profiles (`config/profile.go`) | shared config objects, the config file, backups | bootstrap and filter lists, profile apply, config key, service add and rm | changes that follow each other are kept; a profile can be taken back |
| Key store (`core/coreapi/key.go`, `core/commands/keystore.go`) | key files, the identity | generate, rename, remove, import, rotate, publish | no key is lost; the daemon signs as itself |
| Swarm commands and peering (`core/commands/swarm.go`, `core/node/peering.go`) | resolvers, connections, peered peers | connect, disconnect, peering add and rm | a command acts on all of its addresses or on none |
| Resource limits (`core/node/libp2p/rcmgr*.go`) | limits, connections, refusals | compute, override, check, refuse, log, list | what the check passes does not refuse before the connection manager trims |
| Routing and providing (`routing/`, `core/node/libp2p/routing*.go`, `core/commands/routing.go`) | routers by name; records; announced addresses | parse, provide, announce | exactly the configs that can be built are built, once |
| FUSE (`fuse/`) | mounts, their servers, open files, directories | mount, unmount, create, rename, write, flush, read | nothing stays mounted; what was flushed lasts, whatever fails in a rename |
| RPC client (`client/rpc`) and content commands (`cat`, `get`, `refs`) | a position and a stream; a walk and what it has seen | read, seek, list; walk | the bytes and references asked for, no others |
| Pubsub (`core/commands/pubsub.go`, `client/rpc/pubsub.go`) | a subscription on both sides | subscribe, next, close | messages of the topic, in order; no subscription left behind |
| Peer log (`plugin/plugins/peerlog`), request log (`commands/reqlog.go`) | a bounded queue; entries | log, drop, report; add, finish, clean | every event is logged or counted; no active entry is dropped |
| Node construction, gateway, formatting commands | none between requests | construct, forward, format | - |
| Drive (`DecentralisedDrive/`) | `data/virtualFs.json` | add file, add folder, the script | an acknowledged upload stays in the tree |

`PROJECT.json` lists each of them with its status.

**How they interact.** The first six share one block store, one pinner and one
GC lock. Adds and pin calls take the lock's read side, collections and block
removals its write side, MFS commands none. Commands hand their results to the
response through channels and pipes, some while they hold the lock. Every command
and the daemon reach the store through one `FSRepo` per process, shared by `OnlyOne`
and protected from other processes by `repo.lock`; they share its config object
as well. The daemon starts plugins, servers, mounts and loops, and waits for their
error channels. The drive calls `add` of a running daemon.

**What is hard.** An add gives its lock up in the middle. A collection uses an MFS
root that was read before it had the lock. Block removal uses a filtered list.
Each of many block reads and writes may fail. A producer and a consumer each may
fail, be cancelled or go away first. The unsigned reference counter of `OnlyOne` is
decremented by callers that close twice. Processes crash between two files of the
repository and between two migrations. Config objects are changed in place while
others read them. Two copiers and a command close one stream. A remote service may
act on a request whose answer is lost. A mount may complete after its command gave
up. The hazards in `PROJECT.json` give each place and the properties that watch it.

## 2. Modules

Each component is one module; every definition that stands for code is in the
`map` of `PROJECT.json` with its lines. Names are those of the code.

**The store.** `NodeStore` composes the five parts that follow `NodeState` by
interleaving, over its variables.

- `NodeState` - the lock, the block store, pins, MFS root. The lock (external code,
  modelled from how `src/` uses it and from Go's `sync.RWMutex`): a `GCLock` is
  requested (`gcreq`, what `GCRequested` reports), announced (from then on new
  `PinLock`s wait), and acquired when the readers have left. A CID is a record of
  block, version and codec; `Links` is a constant graph, `Reach` its closure; the
  store is a set of blocks, as it is keyed by multihash. The pinner's operations
  (external).
- `GarbageCollector` - `gc.GC`, `ColoredSet`, `Descendants` and the callers in
  corerepo. One step per visited CID and per deleted block; a link may be
  unreadable at any step, as may the listing of the store; the error returns before the
  sweep are one step (`AbortMark`).
- `Adder` - `AddAllAndPin` with `maybePauseForGC`; a file is the sequence of the
  CIDs it becomes and a directory the sequence of its partial roots.
- `PinAPI` - the calls that pin, unpin and write blocks; a fetch brings one block
  per step and may fail.
- `BlockRm` - `RmBlocks`. `FilesClient` - what MFS commands are to the store: writers of
  blocks, then of the root, without a lock. What each of them does to the tree is in
  `FuseFS`.
- `PinnedStore` - the abstract specification: pins and deletions take turns, and no
  deletion touches what a pin protects. It knows no lock, no walk and no client.
  `NodeStore` implements it with `Below <- Reach` and `alone <- (GCOwners # {})`:
  the store is held alone from the return of a `GCLock` to its `Unlock`.
- `NodeStoreProofs` and `PinnedStoreProofs` - the TLAPS proofs about `NodeStore`.

**Results on their way.** The parts of each are a producer, a consumer and a
context.

- `ResultStreams` - its first part: eighteen functions that send results over a channel. They
  differ in a few decisions (does the producer look at the context when it sends,
  is the error taken before or after the results, is it lost), which are the record
  `Disciplines` of each function.
- `RepoGC` - the collection's output: the channel, `CollectResult`, `repo gc`, the
  caller's context; of the collection only its order and what it sends.
- `AddCmd` - `ipfs add` on the node (options, the adder's goroutine, the event
  channel, `--to-files`) and on the client (`PostRun` and its progress goroutine).
- `DagCar` - `dag import` with its parallel batches, roots and pin lock, `dag export`
  with its pipe. The second part of `ResultStreams` has the pipes of `dag export` and
  `get` against a client that goes away. (`DagCar` has the blocks of the DAG, that
  part the pipe's buffer.)
- `SwarmConns` - address resolution, connect, disconnect, the peering service.
- `Routing` - `routing provide`, the autorelay feeder, announced addresses and custom
  routers. `PubSub` - subscriptions. `EventLogs` - the peer log's queue and the request
  log.

**Services.** `Daemon`, which has the plugin loader's states too, follows `daemonFunc`
from the repo's opening to the last error channel, one action per step that can fail or
start something, beside the node's process tree, servers, GC loop and requests.
`RemotePins` has two parts. The first models `pinMFSOnChange` and `pinAllMFS`; time is
what the code compares: the timer has fired or not, a service's RepinInterval has passed
(`due`) or not. The second has the clients of one service. `Migrations`: fetchers with
retries and fallbacks, the temporary node, programs that move the repo one version.
`FuseMount`: mount commands, serving goroutines, the kernel's stack of mounts per path,
teardown.

**The repository.** `RepoOpen` models `initFSRepo`, `open`, `OnlyOne`, `FSRepo.Close`,
the api file and crashes. A handle is one caller of `fsrepo.Open`: a daemon, `ipfs
init` or a command, in a given process. A process does one open or close at a time
(`ppc`, with `actor`, stands for `packageLock` and the mutex of `OnlyOne`). An
`FSRepo` is named after the handle that opened it; `refs` is its counter modulo
`RefMod`. The daemon closes its reference twice, in the node's stop hook and in
the deferred call of `daemonFunc`; if `SlowCommands`, a command may still be running
then, as the API server waits for it for a bounded time only. `RepoConfig` adds what
commands do with the open repository: config objects are on a `heap`, `cur` is the
one an `FSRepo` hands out; `bootstrap` and `service` commands change it in place,
`profile apply` clones it, `SetConfig` merges it into the file, and `SetConfigKey`
rereads the file. A write may fail with the file unchanged, with a torn file, or
unnoticed.

**What the node keeps.** `KeyStore` (one step per access to the key directory),
`AddrLists` (filters and bootstrap peers, in memory, in the running swarm and on
disk), `ConfigProfiles` (every profile as a transformation, and the merge into the
file), `DatastoreSpec` (specs as trees, with RECURSIVE operators: only TLC's runs use
it; a `mem` store has no DiskSpec and keeps nothing), `ResourceLimits` (limits of the System,
Transient and peer scopes, computed and the user's, and connections that are opened,
secured and given memory, each step of which may be refused), `FuseFS` (three independent
parts: the directories of `/mfs` and `/ipns`, an open file, the read-only tree),
`RefsWalk` (the walk's stack and `seen`, against a count of the
ways that lead to a node), `ApiFile` (`cat` ranges, the client's files and
directories), `DriveFS` (the drive's JSON file as the sequence of its nodes, written
in two steps, with requests, the script, failing writes and crashes).

The tree of `/mfs` is the one that the `files` commands change, so `FuseFS` has them too:
a name's file in memory (`tree`) and in the flushed root (`root`, which outlives the
daemon), with a step for each flush of a command, any of which may fail or, with
`--flush=false`, not come. A FUSE request or a command runs at a time.

**Proofs.** `NodeStoreProofs`, `PinnedStoreProofs`, `P2PForwardProofs`, `RepoProofs`,
`StreamProofs` (the modules of "Results on their way"), `ServiceProofs` (remote pins,
migrations, daemon, mounts, the drive) and `CommandProofs` (the other modules of "What the
node keeps"), see section 4. `Induction` has what they need to reason about recursive
functions.

**Instances.** `MCAdd`, `MCPins` and `MCRepo` instantiate one system each; `P2PForward`
is checked as it is, with `MCP2P.cfg`.
`MCStreams`, `MCServices` and `MCCommands` put several components that do not touch
each other into one instance: `part`, chosen in `Init`, names the component whose
steps a behaviour takes, and the others stay in one initial state. A behaviour of the
instance is therefore a behaviour of one component, the state spaces add up instead of
multiplying, and one TLC run answers the same question for all. `On(p, A)` is a step
`A` of the component `p`.

## 3. Runs

| Run | Instance | What it shows |
|---|---|---|
| `add` | a pinning adder of a directory of two files, an unpinned adder, a files command, a collector | `AddedBlocksKept`: files an adder has finished stay whole through every pause, and so does the root it returns; `UntouchedTreeKept`: nobody's unlocked writes make a collection take an MFS tree that was there |
| `pins` | two users with all requests, a collector, a removal, blocks named by CIDs of two versions and codecs | `SweepSparesPins`, `IncompletePinStopsSweep`, `RmSparesPins`, `NewPinsComplete`, `LockExclusion`, and `ImplementsPinnedStore`: every step is one of the abstract store or a stutter |
| `p2p` | two forwards of one address, a close, two connections of one peer | `SocketsOwned`, `RegistryCounts`, `OpenStreamsListed`, `StreamsEnd` |
| `repo` | daemon and two commands in one process, init and a service command in two others, one crash, one failure | `OpenMeansLocked`, `LockNotLeaked`, `ApiFileOwn`, `MemoryMatchesDisk`, `SequentialEditsKept` |
| `streams` | fifteen parts of the eight modules above | `DeliveredWhole`, `NothingLeftWaiting`, `LocksReleased`, `ImportKeepsRoots`, `ResolutionWhole`, `RoutingAsConfigured`, `LogsAccounted` |
| `services` | daemon, MFS pinning, migrations, mounts, remote pins | `NothingLeftBehind`, `ServicesEnd`, `InterruptExits`, `SeriesWhole`, `RequestsKept`, `PinsFollowMFS` |
| `commands` | the store's callers under fairness; thirteen parts of nine modules | `StoreCallsEnd`: adds, pins and collections all return; `KeysKept`, `ListsKept`, `ProfilesReversible`, `LimitsSound`, `DiskSpecExact`, `FuseTellsTruth` (FUSE requests and `files` commands), `RefsTrue`, `ReadsExact`, `DriveKept` |
| `files_respected` | one MFS client, one collector | **violation**, see Findings |
| `pinmfs_config` | one service, one unreadable config | **violation**, see Findings |
| `repo_twice` | the daemon and a command that outlives the shutdown | **violation**, see Findings |
| `repo_service` | service add, then service rm | **violation**, see Findings |
| `daemon_shutdown` | the daemon with `--enable-gc` and `ipfs shutdown` | **violation**, see Findings |

**Properties with parts.** Where several components must answer one question, the
run checks one property that is the conjunction of theirs, each stated and explained
in its own module. `DeliveredWhole`: `SuccessIsComplete` (result channels; the
functions that lose an error or end a cancelled stream like a complete one are named
in `LosesErrors` and `SilentWhenCancelled`), `SuccessIsWhole` (pipes), `AddSuccessWhole`,
`AllPrinted` and `MetadataFits` (add), `ExportWhole`, `ErrorsReported` (repo gc), `ProvidedAll`,
`GotOnTopic`. `NothingLeftWaiting`: the thirteen leads-to properties of the same
components. `LocksReleased`: `AddFreesPinLock`, `ImportReturns`, `LockReleased`.
`RoutingAsConfigured`: `ParseExact` (accepted if and only if buildable, a definition
over the config's graph), `BuiltOnce`, `CallsNamed`, `HostNoAnnounce`.
`NothingLeftBehind`: `ReturnCleansUp` and `PluginsClosedAtExit` (daemon), `TempNodeGone`
(migrations), `FailedLeavesNone` and `NoMountLeft` (mounts). `ServicesEnd`:
`Begun(n)` leads to `Over(n)`, for migrations, mount commands, remote adds that wait and
the daemon's node; as only one component moves in a behaviour, it is one leads-to per
actor. The others are conjunctions within one module.

**Exceptions are part of the statement.** Where the code does not keep a promise
that it does not make either, the property names the case it leaves out: functions
that send without looking at the context (`SendsBare`), a client that goes away
during `add` (`AddFreesPinLock`), a drive request that ran beside the script
(`beside`), lists changed by overlapping commands (`lasting`). Section 5 describes
these cases.

**Bounds.** A content graph with a shared leaf, a block under two CIDs and a root with a
child of its own is the smallest in which the visited set, the CID forms and a missing
descendant matter. Two users, a collector and a removal are needed for a pin between
another's check and use. Channels have room for one or two results: they can be full and
not empty. In `repo` the counter's modulus is 8 for 2^32: it is larger than the handles
plus the one wrapped step, which is what the code relies on (`RepoAssumption`). Two
roots and config changes make a service see old, new and old again. Four repository
versions give series of up to two programs and a version that is too new; two tries per
download, two runs. Two mount commands of two file systems overlap, with one command's
mount on another's path. Three keys and two names are needed for a rename onto a name
that another command takes. `refs` runs over every DAG of four ordered nodes (64) and
one with a doubled link, for three depths. `cat` has files of 0 to 3 bytes and offsets
and lengths around every boundary. Routers: three names with chains, cycles, shared and
missing ones. Limits: two connections at a time to two peers, memory of 2 and 16 units
with 4 to the MB, marks of 0 and 1, so that usage can be below, at and above a mark and
each limit can be the one that refuses; one refusal is remembered in a behaviour and one
counted. Two directories and two names in them, three of the four places in use, and two
files: enough for a target that exists, and for moves inside a directory and between
two. Specs: one store under several wrappers and run-time values, mounts in both orders,
nested ones, one with a `mem` store, a root mount of one store and that store alone.
Profiles: two applications or user edits after each of four initial profiles, of fifteen
profiles. One failure of each kind is enough for every error path; `repo` allows one
failure per behaviour and one crash, which keeps its three million states in reach;
combinations of two failures are not covered. `CHECK_DEADLOCK` is off where the system
stops by itself: commands return, handles of `repo` end, the daemon exits.

**Fairness.** Weak fairness of each goroutine's steps: Go schedules every runnable
goroutine. Strong fairness of `Announce`, a writer's turn at the lock: Go's mutex hands
itself to a waiter after 1 ms (starvation mode), and a waiting writer stops new readers;
and of `GCStop` and `SubLoopEnds`, branches of a Go `select` whose channel stays ready:
`select` chooses among ready branches at random. `SweepDone` is fair by itself because a
sweep lists a finite store. A fetch ends, with a block or an error; the code gives a
fetch no deadline of its own, so a pin of content that nobody has holds a collection up
for as long as its caller waits. `P2PForward` makes only the workers of a stream fair,
not the peers. The loop of `RemotePins` makes timers and answering services fair; a
hanging service (`Hanging`) is not, and none hangs in the runs. A mount's wait is
bounded by `MountTimeout`, a migration's downloads by the number of retries. What users,
clients, peers, kernels and failures do is never fair. In the instances with `part` one
conjunct holds the fairness of the first goroutine of every component, another that of
the second, and so on: only one component moves in a behaviour.

## 4. Proofs

`NodeStoreProofs` holds for every content graph, every set of requests and any
number of adders, users, collectors, removers and MFS clients. It uses the
assumptions of the modules it extends: `Links` is a function on CIDs, versions
of a CID have the same links (`CidAssumption`), the initial store and pins have
their types, requests are of the known kinds, the clients are disjoint sets
(`ProcsAssumption`), an adder's partial directories fit its files
(`AdderAssumption`). The argument is the inductive invariant `IInv`:

- `TypeOK` and `PhaseInv` - an adder in a phase that writes a file has one left, and
  only callers that lock get into the phases under the lock;
- `LockInv` - whoever is past its `GCLock` is the lock's writer with no request
  pending, whoever is past its `PinLock` is a reader, and a writer excludes readers.
  `LockExclusion` says nothing about the lock's own variables and is not inductive;
- `MarkInv` - the tri-colour invariant of the collector. While the strict walk has
  met no error, every recursive root is marked or in the frontier, and so is every
  link of a marked node, and marked nodes are present (`WalkInv`). An empty frontier
  then makes the marked set closed under links, so it contains `Reach` of every
  root (`WalkCloses`, from the minimality of `Reach`), and the later phases only add
  to it (`PinsMarked`). In the sweep the raw CID of every pinned block is marked;
- `FilterInv` - what a removal still has to delete is not pinned.

The steps of other clients keep `MarkInv` because under the lock they change no
pin and delete no block (`MarkFrame`, `OwnerAlone`). From `IInv` follow `TypeCorrect`,
`Exclusion`, `SweepSafe`, `SweepNeedsCompletePins` and `RmSafe`.

`P2PForwardProofs` holds for any number of addresses, peers, connections and calls.
`SocketInv` says that the calls that own a socket are disjoint, `IdInv` that a stream
id is never used again, which makes the lookup in `Deregister` a test of the stream
itself, and `WorkerInv` that a worker past a close has closed that end. With
`RegistryCounts`, which counts with `Cardinality`, they are inductive; `TypeCorrect`,
`SocketsSafe`, `RegistrySafe` and `StreamsListed` follow. That the counts are natural
numbers is part of it: no second `Deregister` makes one negative.

`PinnedStoreProofs` continues with `NodeStore`. It adds three invariants to `IInv`.

- `HeldInv` - what a caller has written or fetched under its pin lock is in the store
  until it unlocks: whoever deletes is alone. With it every step of `NodeStore` is a
  step of `PinnedStore` or a stutter (`Refinement`): a deletion is one of a set that no
  pin protects, from `MarkInv` and `FilterInv`, and happens while the store is held
  alone, from `LockInv`. `PinsComplete` follows as well.
- `AddedInv` - at each phase of an adder either its own lock or a pin covers what it has
  finished: `curRootNode` is pinned from the pause's pin to the next time it has the
  lock. `AddedSafe` follows. It holds for a node with `AdderPinsLeftAlone`: no request
  unpins the adder's roots, and no `block rm` names one of their blocks by another CID
  (an observation of section 5). Without either the property is false, whatever the
  adder does.
- `TreeInv` - the tri-colour invariant of the best-effort walk over the first MFS tree:
  it may skip a missing block, but that tree has none. `TreeKept` holds for a node with
  `FirstTreeLeftAlone` (the tree is there at the start, no files command puts it back,
  `block rm` is not given its blocks). `MCAdd` assumes both conditions, so that TLC
  checks that its instance satisfies them.

`RepoProofs` holds for any processes, handles, commands, crashes and failures, if commands
end before the API server's shutdown timeout (`~SlowCommands`): the run `repo_twice`
shows that it fails otherwise. `RepoTypes` needs no such condition. `CountInv` says that
an open FSRepo's counter is the number of handles that will still close it; a daemon at
its second `Close` is one of them only if its node could not close the repo (`Perhaps`).
A second `Close` of a counter at zero wraps it, and the modulus is larger than the number
of handles, so it does nothing. `LockInv` and `LeakInv` tie `repo.lock` to the phase of the
process that opens or closes. `MemoryInv` and `KeptInv` follow a config change
through memory, the object a command has in hand (with the peers it took out) and the
file. The proof attempt showed that `SequentialEditsKept` as it was stated first is
false with three bootstrap commands, two of which overlap and write back a list that was
shared with the third; TLC found the behaviour when given that instance, and
`MayBeLost` now names these commands.

`CommandProofs` has seven components.

- Key store: `KeyCountInv`. A rename writes the new name before it deletes the old
  one, and the old name may have another key by then, so a count is needed: a key that
  nobody dropped has at least as many names as renames that will still delete one of
  them, and one more, unless the config has it. For any names and commands.
- Lists: `AloneInv` (commands that overlap know it, and nothing is promised then) and
  `LastingInv` (what lasts is in memory and on disk and denied by the swarm, but for the
  list in the hands of a command). For any entries, masks and commands.
- Resource limits: `LimitsFit`. For any memory, overrides and high water mark a running
  manager has no limit left to a default, in any scope, and none of those that the check
  looks at conflicts with the mark. So the System scope refuses a connection for its number
  only above the mark (`ReachedAbove`). The computed limits pass the check
  (`ComputedMakeSense`) and none of them is on outbound connections (`OutboundHasRoom`).
- FUSE and `files`: `FlushedInv` says that a flushed file has a place that is the same
  in memory and in the root (`Placed`), or is being moved by a command that has not
  flushed yet and has its old place in the root (`Moving`), unless it went astray by a
  failed or missing flush or by a FUSE rename to another directory (`astray`, section
  5). `RenameInv` says where a rename or a move in progress has its file; it is why the
  destination's directory must be flushed before the source's. `FileInv` orders what is
  acknowledged, durable and written. For any directories, names, readers and offsets.
- `cat` and the client's files: of the files that `cat` has passed, what its readers give is
  what lies behind the offset (`CatReading`), or the maximum is used up (`CatFull`), for
  files of any number and length. A client's stream is of the version whose size was
  asked, and stands at the file's position or at its end (`StreamSound`), whatever was
  sought and moved; of a directory, what was given and what the decoder has is the
  directory (`DirListInv`).
- Config profiles: the daemon's config agrees with the file in what JSON writes
  (`MemoryAgrees`), what is about to be written is the profile's transformation of a
  config that agrees with the file (`Applying`), so each recorded edit is what its profile
  makes of the file before it (`HistoryOf`), and a backup of that file was
  made (`BackedUp`). That local-discovery takes back `server` (`LanTwice`) and announce-on
  takes back announce-off (`AnnounceTwice`) are then lemmas about the transformations; the
  lists of filters they change are sequences of any length, so the first rests on
  lemmas about the functions that append to them and delete from them (`AppendSingle`,
  `DeleteEntries`).
- `refs`, for any arguments, depths and missing blocks in any DAG, its nodes numbered so
  that links lead to greater ones. Without `--unique` the invariant is an account
  (`CountInv`): what was emitted of a CID and what the calls on the stack still have
  before them is the number of ways to it from the arguments so far. With `--unique`
  (`UniqueInv`) of every CID met at a depth above the limit all links were met at most
  one deeper, or a call that is no deeper has them before it (`Covered`); a CID met
  again at a smaller depth keeps that true because it is walked again (`SeenStays`).
  When the walk is over nothing has a call any more, and by induction on their number
  all that some links lead to was met (`AllMet`).

`ServiceProofs` has five.

- Remote pins: what a client has deleted and what it will delete (`Mine`, `Doomed`) are
  requests for the content it asked about and, without `--force`, at most one
  together; neither set alone gives that, as the list moves from one to the other.
- Migrations: what is left to run is the series from the version of the repo to the
  target (`Series`), whatever stopped before, and all programs of it are at hand
  or among the downloads. `TempInv`: where the code holds no temporary node, it is closed.
- Daemon: `PluginInv` says whose hands will close the plugins that run (the loader, the
  node's process, or nobody when the process was closing before the loader became
  its child), and that the process is not closed before its child; `DeferInv` relates the
  deferred calls to how far `daemonFunc` got. `ReturnCleansUp` alone is not inductive:
  it speaks of the last state only.
- Mounts: `KernelInv` - per path the kernel has no more mounts than there are mount
  processes open, which needs a count, as an unmount by path takes the latest mount there,
  whosever it is; `OneMountInv` - a mount belongs to its command until that has
  succeeded; `NodeInv` - what a closed node closed. `ServicesInv` composes these three for
  the instance `MCServices`: `NothingLeftBehind`.
- The drive: `OneAtATime` (one request changes the file at a time, and one beside the
  script is known), `AllKept` (whatever a request or the script holds and will write has
  everything that was answered with success), `BrokenKnown`. The tree only grows, and a
  path that is in a tree stays in all that extend it (`InTreeStays`): a recursive function
  that walks a path and adds what is missing adds nothing the second time. For any
  requests, paths and faults.

`StreamProofs` holds for `MCStreams`, so for any of its parts, with any number of results,
any channel size and any of the inputs its constants allow.

- `DeliveredWhole`: one invariant per producer and consumer (`DeliveryInv` is all of them),
  each an account of where what was produced is. `HonestInv`: of the functions that lose no
  error, what was sent was read, and a producer that ended without an error had sent all,
  or the consumer will see that the context has ended. `TransferInv`: every chunk
  is at the client or in the buffer, and the pipe ends well only behind the last
  one or behind an error. `LinksInv` and `EventsInv`: the events of the file at hand are
  passed on, in the channel or to come. `ExportInv`, `ErrorsInv`, `ProvideInv` likewise;
  `SubInv`: caller, client, wire and queue hold messages of the topic, in the order of
  publishing, each before those further back.
- `ResolutionWhole` (`SwarmInv`): of an argument that was passed, what it gave is found,
  sent or still to be sent, until the command acts on it.
- `ImportKeepsRoots` (`ImportInv`): `ImportPlace` counts the blocks that were read as the
  cardinality of the set of their places, `ImportBlocks` has each of them in the
  store, in the open batch or in a commit, `ImportRoots` says what has become of the roots.
- `LogsAccounted`: `PeerLogInv` puts every event in one place and the places in order;
  `ReqLogInv` needs a lemma about the loop of `cleanup` (`CleanupKeeps`: a cleaned log keeps
  its order and every entry that may not go).
- `RoutingAsConfigured` (`ParseInv`): the calls of `parse` that have begun are of
  different routers, each needed by the one before, and whatever a begun router needs
  is built, to come, or the next call. That `parse` refuses only what cannot be built uses
  that a path of needs which meets a router again is a cycle, and that `Cardinality` many
  levels of needs are all of them (a pigeonhole argument); that it accepts only
  what can be built, that built routers need built ones and never themselves.

`Induction` replaces predicates by sets: the library's induction theorems take an
operator as a parameter, which none of the provers can instantiate, but a subset of `Nat`
that has 0 and is closed under successor is `Nat` (`NatSetInduction`, from the least
element of a set of numbers), and a set comprehension is as good as a predicate. From it
follow that recursive functions satisfy their equations (`NatRecursion`,
`BoundedRecursion`) and what the community modules' `FlattenSeq`, a fold, returns (the bytes
that the readers of `cat` give).

All proofs use the named assumptions on the constants, which TLC evaluates in the runs.
Some of them were completed for the proofs: finite sets of commands and entries,
disjoint sentinels, and the kinds of requests; the paths and names of the drive and of
profiles are sequences and strings, and the arguments of `refs` sequences of nodes. The
reference of `RefsTrue` counts ways link by link, so that it is a recursive function and
its sums are over sequences.

**Only model-checked.** All liveness properties (`StoreCallsEnd`, `StreamsEnd`,
`NothingLeftWaiting`, `LocksReleased`, `ServicesEnd`, `InterruptExits`, `PinsFollowMFS`),
as the prover has no rules for fairness and `ENABLED`. `DiskSpecExact`: `DatastoreSpec`
walks specs, which are trees of any depth, with RECURSIVE operators, which the prover's
main backend cannot be used beside. Its `RefusedIfOther` compares specs by `Layout`, the set
of stores and mounts with the mountpoints that lead to them, which is defined
without `DiskSpec`: a config is refused if and only if its layout is not that of the spec the
repository was made with.

## 5. Findings

- **A collection does not respect a file that was just written**
  (`files_respected`). `GarbageCollect` reads the MFS root before `gc.GC` has the lock
  (`core/corerepo/gc.go:87`) and `files` commands take no lock, so a command that
  returns in between has its new blocks swept. `core/commands/files.go:50-51` says
  that all files within MFS are respected.
- **One unreadable config stops remote MFS pinning** (`pinmfs_config`). The loop
  continues past `tmo.Reset` (`cmd/ipfs/kubo/pinmfs.go:95`).
- **Closing the repository twice can hurt** (`repo_twice`). The daemon's second `Close`
  takes the reference of a command that is still running
  (`cmd/ipfs/kubo/daemon.go:368`), whose comment says it cannot. With no such command
  the unsigned counter wraps and the second `Close` does nothing, which is why `repo`
  passes.
- **A removed pinning service stays in the config file** (`repo_service`). `SetConfig`
  merges the struct into the file's map, where an entry that is missing in the
  struct is kept (`repo/fsrepo/fsrepo.go:661`).
- **`ipfs shutdown` does not end a daemon with `--enable-gc`** (`daemon_shutdown`). The
  GC loop waits for the request's context (`cmd/ipfs/kubo/daemon.go:1130`), which an
  interrupt cancels and the shutdown command does not; `daemonFunc` waits for the
  loop. `InterruptExits` holds in `services`.

Observations without a run of their own, as nothing in the repository promises
otherwise, or the promise does not cover the case.

*Store and collection*

- `files cp` copies lazily; local blocks below a missing one are not marked by the
  best-effort walk (`gc/gc.go:242`) and are swept.
- `CheckIfPinned` looks up the exact CID while a delete works by multihash
  (`blocks/blockstoreutil/remove.go:80`): a block pinned under another CID can be
  removed. `RmSparesPins` is stated for the exact CID.
- When the MFS root cannot be read, `GarbageCollectAsync` sends the error on an
  unbuffered channel before it returns the channel (`core/corerepo/gc.go:153-154`), and
  blocks for ever.
- `PinRoot` unpins a temporary root only in a branch that its callers never reach
  (`core/coreunix/add.go:202-208`). `files write` refuses a negative count only after it
  has truncated or created the file; `files rm` without `-r` checks and removes in two
  steps.

*Results on their way*

- `lsFromLinks` and `pinVerify` send without looking at the context, `ExternalBinary`
  sends its error on an unbuffered channel: a consumer that returned leaves them
  waiting. `findprovs`, the client's `ls` and `name.Search` lose errors;
  `core/coreiface/unixfs.go:83-85` describes an order of results and errors that
  `core/coreapi/unixfs.go:310-323` keeps only while nobody cancels. The client's `pin ls`
  panics when the server answers with an error.
- A failing `Emit` in `ipfs add` leaves the adder at a full channel with the pin lock
  (`core/commands/add.go:390-506`). `add -Q` prints the last hash even after an error.
- An import that failed may leave batch commits behind that write after its lock is
  gone. `dag export` takes no lock.
- A malformed later argument of `swarm connect` leaves resolvers of earlier ones
  blocked. `provideKeysRec` of the API does not return after a successful walk.
- HTTP routers announce addresses of `NoAnnounce` (`docs/config.md:360`,
  `core/node/libp2p/routingopt.go:178-203`); `HostNoAnnounce` is about the host.
  Custom routers are never closed.
- The request log cleans up only when a request finishes and the log's length is a
  multiple of ten. The peer log never closes its subscription. The client's pubsub
  `Close` does not end its goroutine while a message waits.

*Services*

- One service that hangs holds remote MFS pinning up for all; after a lost answer a
  service may keep a root until the next change. A RepinInterval below a minute is
  used as it is, while `docs/config.md:1577` says it is ignored.
- `handleStream` does not close its local connection when it cannot report the peer
  (`p2p/remote.go:58`), and a stream whose listener went away between match and handler
  (`p2p/listener.go:54`) is not reset.
- `Migration.Keep` "pin" (`docs/config.md:1448`) is refused, "keep" accepted and unused;
  `repo migrate --allow-downgrade` has no effect; HTTP downloads are not added when
  the IPFS fetcher was not used.
- `NewMount`'s `Unmount` after a timeout does nothing, an unmount by path takes the
  latest mount there, and a mount is marked active after its server may have ended.
- `service ls --stat` and a remote `rm` count requests that others change meanwhile.

*What the node keeps*

- A command that overlaps another one may write over its change of the config;
  `SequentialEditsKept` and `ListsKept` exclude that. `fsrepo.go:572-573` asks callers not
  to modify the config they get, and `bootstrap.go:319` does.
- `SetConfigKey` changes the memory before a write that may fail
  (`repo/fsrepo/fsrepo.go:732`), and the deferred `Close` of the atomic file renames a
  torn file over the config or drops its error.
- A crash between the files that `ipfs init` writes leaves a directory that can be
  neither opened nor initialized (`fsrepo.go:312`). A keystore that does not open leaves
  the datastore open (`fsrepo.go:209`); a datastore that does not close keeps the lock
  (`fsrepo.go:556`); a mount whose second child fails leaves the first open
  (`datastores.go:150`).
- `key rename`'s last step deletes the old name whatever key has it by then.
- `InitOnly` of a profile is not enforced, `default-networking` is not the inverse of
  `test` as `config/profile.go:94-95` suggests, `BackupConfig` returns the original's name,
  removing filters loses their order.
- `ensureConnMgrMakeSenseVsResourceMgr` compares four limits of the System scope with
  the high water mark (`core/node/libp2p/rcmgr.go:468-499`). Others refuse connections
  below the mark: System's `FD` and `Memory`, Transient's `ConnsInbound` (a quarter of
  the number before it was raised, so it may be below the mark in a default config), a
  limit of the user for a peer or for all peers, libp2p's default limits for peers and
  for a subnet. `docs/libp2p-resource-management.md` says only that some of the hard
  limits are checked; `TrimBeforeRefuse` is about those. Its usage counts connections
  that are being set up, which the connection manager does not know yet.
- Only what `OpenConnection` refuses is counted and logged (`rcmgr_logging.go:116`): a
  refusal by the peer's scope or of memory comes from the scope that the wrapper returned
  unwrapped.
- A memory limit below 1 MB computes no inbound connections for System, and one below 4 MB
  none for Transient, which `Build` reads as "default".
- A root mount with one store and that store alone hold the same data under the same keys, but
  their DiskSpecs differ, so a config that drops such a mount is refused. Data in a `mem`
  store is gone with the process; its DiskSpec is nil, which in a mount leaves the mountpoint.
- FUSE: a rename in `/ipns` that fails half-way loses the file; `/mfs` `Mkdir` and the
  target of a rename between directories are not flushed (`files mv` flushes the
  destination first, `core/commands/files.go:863`, and has the file in the root all
  along); a create or remove whose flush fails is reported as failed although it is done
  in memory; reads of `/ipns` share one offset; an empty read-only directory is reported
  as missing, and a lookup of a node without a block panics.
- `refs` keeps `seen` after an argument that failed. A failed `Seek` of the client's
  file makes the next `Read` panic; a directory's second `Entries()` shares the first
  one's decoder.
- The drive: script and server overwrite each other's changes; a torn file is never
  repaired; a folder beside a file of its name cannot be reached by `findNode`, and a
  file whose folder is missing is not added, both without an error; an upload that
  did not reach the tree is answered with success and a warning that the page ignores.

## 6. What is not modelled

`PROJECT.json` has the full list. Contents of blocks, chunking, layouts and encodings
are data the properties do not look at. Libraries (boxo, libp2p, bitswap, DHT, namesys,
datastores) are outside the repository; where the code relies on one, its operation is a
definition marked external. Node construction chooses constructors once, before anything
runs; the gateway and the HTTP servers configure boxo and `net/http`; `cid`, `version`,
`stat` and other formatting commands, tracing and the command line have no state to
check; `thirdparty/notifier` is used by nobody. Within the modelled parts: streams and
allowlisted addresses at the resource manager; `--parents`, `stat`, `ls`, `read`,
`chmod` and `touch` of `files`, and two changes of the tree at once; pin names, the
periodic trigger of a collection (a collection starts at any time), the operations of
boxo's MFS inside one call, the gateway file (written and removed like the api file),
the second open of `ipfs init` (it repeats the first), `config replace` and `edit`, two
`init` calls at once, IPNS records.

## 7. Plan

Done, in this order: the store (`NodeState`, `GarbageCollector`, `Adder`, `PinAPI`,
`BlockRm`, `FilesClient`, composed in `NodeStore`); `RepoGC`; `P2PForward`; the remote
pinning loop; `RepoOpen` and `RepoConfig`; the abstract `PinnedStore` and its refinement;
the daemon and its plugins, migrations, mounts and remote pins; the result streams; the key
store, lists, profiles, specs and limits; the drive. Proofs of the store, its refinement and
its other properties, of forwarding, the repository, the key store, lists, limits, FUSE,
remote pins, migrations, daemon, mounts, the drive, profiles, readers, and of the streams,
import, logs, routers and `refs`.

What is left, in this order:

1. `DiskSpecExact` with specs as finite functions of nodes, so that the walk is a
   recursive function.
2. Liveness by hand: leads-to chains whose steps are the invariants above.
