----------------------------- MODULE NodeState -----------------------------
(***************************************************************************)
(* The state the node's operations share: the block store, the pinner's    *)
(* two sets of roots, and the root of MFS (the `ipfs files` tree).         *)
(*                                                                         *)
(* A CID is [ver, codec, hash].  Blocks are stored by multihash alone, so  *)
(* several CIDs may name one block; links and pins hold CIDs.  Everything  *)
(* the operations ask of the content is which CIDs it links to.            *)
(***************************************************************************)
EXTENDS Integers, Sequences, FiniteSets

-----------------------------------------------------------------------------
(***************************************************************************)
(* The garbage-collection lock of the block store (boxo's                  *)
(* blockstore.GCLocker, created in core/node/storage.go).  It is a Go      *)
(* sync.RWMutex plus the counter behind GCRequested:                       *)
(*   - PinLock is the read side: adds and pins share it;                   *)
(*   - GCLock is the write side: a collection or a block removal owns it;  *)
(*   - GCRequested says that a GCLock call has not got the lock yet.       *)
(* As in Go, a writer that has announced itself stops new readers, and the *)
(* writer's Unlock lets in every reader that was waiting before the next   *)
(* writer can announce itself.                                             *)
(***************************************************************************)
CONSTANTS Procs,     \* every goroutine that uses the lock
          None       \* "no process"

VARIABLES readers,   \* holders of a PinLock
          rwait,     \* callers of PinLock blocked by a writer
          writer,    \* the announced writer, waiting for readers or holding
          gcreq      \* callers of GCLock that do not hold it yet

lockVars == <<readers, rwait, writer, gcreq>>

LockInit ==
  /\ readers = {}
  /\ rwait = {}
  /\ writer = None
  /\ gcreq = {}

\* GCRequested: some GCLock call is pending.
GCRequested == gcreq # {}

\* Call PinLock: granted at once unless a writer is announced.  The caller
\* owns the lock when it is in readers.
PinLock(p) ==
  /\ IF writer = None
     THEN readers' = readers \cup {p} /\ UNCHANGED rwait
     ELSE rwait' = rwait \cup {p} /\ UNCHANGED readers
  /\ UNCHANGED <<writer, gcreq>>

\* Unlock of a PinLock.
PinUnlock(p) ==
  /\ readers' = readers \ {p}
  /\ UNCHANGED <<rwait, writer, gcreq>>

\* First part of GCLock: the request is counted.
GCLockRequest(p) ==
  /\ gcreq' = gcreq \cup {p}
  /\ UNCHANGED <<readers, rwait, writer>>

\* The next writer announces itself; from now on PinLock blocks.
GCLockAnnounce(p) ==
  /\ p \in gcreq
  /\ writer = None
  /\ writer' = p
  /\ UNCHANGED <<readers, rwait, gcreq>>

\* The readers have drained: the lock is held and the request is over.
GCLockAcquire(p) ==
  /\ writer = p
  /\ p \in gcreq
  /\ readers = {}
  /\ gcreq' = gcreq \ {p}
  /\ UNCHANGED <<readers, rwait, writer>>

\* Unlock of a GCLock: the waiting readers enter.
GCUnlock(p) ==
  /\ writer' = None
  /\ readers' = rwait
  /\ rwait' = {}
  /\ UNCHANGED gcreq

-----------------------------------------------------------------------------
CONSTANTS Block,       \* multihashes
          Cids,        \* the CIDs in use
          Links,       \* Links[c]: the CIDs the block of c links to
          Store0,      \* initial state: blocks,
          RPins0,      \*   recursive pins,
          DPins0,      \*   direct pins
          Mfs0         \*   and the MFS root

Codecs == {"dag-pb", "raw"}
AllCids == [ver : {0, 1}, codec : Codecs, hash : Block]

\* The CIDv1 form of a CID: same codec, same hash.
toCidV1(c) == [c EXCEPT !.ver = 1]

\* What the block store reports for a block: a CIDv1 of the raw codec.
RawCid(h) == [ver |-> 1, codec |-> "raw", hash |-> h]
\* Mutant: the codecs are kept.
toRawCidsKeepCodec(set) == set

toRawCids(set) == {RawCid(c.hash) : c \in set}

LinkClosed(S) == \A c \in S : Links[c] \subseteq S

\* Everything below a CID, itself included: the least link-closed set.
Reach == [c \in Cids |->
            {d \in Cids : \A S \in SUBSET Cids :
                             c \in S /\ LinkClosed(S) => d \in S}]

ASSUME CidAssumption ==
  /\ Cids \subseteq AllCids
  /\ Links \in [Cids -> SUBSET Cids]
  /\ \A c \in Cids : toCidV1(c) \in Cids /\ Links[toCidV1(c)] = Links[c]

ASSUME InitAssumption ==
  /\ Store0 \subseteq Block
  /\ RPins0 \subseteq Cids
  /\ DPins0 \subseteq Cids
  /\ Mfs0 \in Cids

VARIABLES store,       \* the multihashes present in the block store
          rpins,       \* recursive pins
          dpins,       \* direct pins
          filesRoot    \* the current MFS root

dataVars == <<store, rpins, dpins, filesRoot>>

DataInit ==
  /\ store = Store0
  /\ rpins = RPins0
  /\ dpins = DPins0
  /\ filesRoot = Mfs0

DataTypeOK ==
  /\ store \subseteq Block
  /\ rpins \subseteq Cids
  /\ dpins \subseteq Cids
  /\ filesRoot \in Cids

HashesOf(set) == {c.hash : c \in set}
Present(c) == c.hash \in store
Complete(c) == HashesOf(Reach[c]) \subseteq store

\* Every CID the pinner protects: direct, recursive or indirect.
PinnedCids == dpins \cup UNION {Reach[c] : c \in rpins}

-----------------------------------------------------------------------------
(***************************************************************************)
(* The pinner (external: boxo's pinning/pinner), as the callers use it.    *)
(***************************************************************************)

\* PinWithMode(c, Recursive): a recursive pin replaces a direct one.
PinRecursive(cs) ==
  /\ rpins' = rpins \cup cs
  /\ dpins' = dpins \ cs

\* A direct pin is refused when the CID is pinned recursively.
PinDirect(c) ==
  /\ dpins' = IF c \in rpins THEN dpins ELSE dpins \cup {c}
  /\ UNCHANGED rpins

\* Unpin: a recursive pin is only removed when asked for recursively.
Unpin(c, recursive) ==
  /\ rpins' = IF recursive THEN rpins \ {c} ELSE rpins
  /\ dpins' = IF c \in rpins THEN dpins ELSE dpins \ {c}
=============================================================================
