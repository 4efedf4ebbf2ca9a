----------------------------- MODULE NodeStore -----------------------------
(***************************************************************************)
(* The node's writers and its collector together: adders, pin and block    *)
(* calls, block removals, MFS commands and garbage collections interleave  *)
(* over one block store, one pinner and one GC lock.                       *)
(***************************************************************************)
EXTENDS GarbageCollector, Adder, PinAPI, BlockRm, FilesClient

Writers == Collectors \cup Removers

ASSUME ProcsAssumption ==
  /\ Procs = Adders \cup Users \cup Collectors \cup Removers
  /\ Adders \cap (Users \cup Collectors \cup Removers) = {}
  /\ Users \cap (Collectors \cup Removers) = {}
  /\ Collectors \cap Removers = {}
  /\ None \notin Procs

vars == <<dataVars, lockVars, gcVars, adderVars, userVars, rmVars, filesVars>>

Init ==
  /\ DataInit
  /\ LockInit
  /\ GCInit
  /\ AdderInit
  /\ UserInit
  /\ RmInit
  /\ FilesInit

\* A GCLock call gets to the front of the queue of writers.
Announce(p) ==
  /\ GCLockAnnounce(p)
  /\ UNCHANGED <<dataVars, gcVars, adderVars, userVars, rmVars, filesVars>>

Next ==
  \/ \E p \in Writers : Announce(p)
  \/ GCNext /\ UNCHANGED <<adderVars, userVars, rmVars, filesVars>>
  \/ AdderNext /\ UNCHANGED <<gcVars, userVars, rmVars, filesVars>>
  \/ UserNext /\ UNCHANGED <<gcVars, adderVars, rmVars, filesVars>>
  \/ RmNext /\ UNCHANGED <<gcVars, adderVars, userVars, filesVars>>
  \/ FilesNext /\ UNCHANGED <<gcVars, adderVars, userVars, rmVars>>

Spec == Init /\ [][Next]_vars

(***************************************************************************)
(* Fairness.  Every goroutine that can go on does; Go's mutex hands the    *)
(* lock to a writer that has waited long enough, which is the strong       *)
(* fairness of its announcement.  A fetch that never answers and never     *)
(* times out is excluded: UserStep includes the fetch and its failure.     *)
(***************************************************************************)
Fairness ==
  /\ \A p \in Writers : SF_vars(Announce(p))
  /\ \A g \in Collectors :
       /\ WF_vars(GCStep(g) /\ UNCHANGED <<adderVars, userVars, rmVars, filesVars>>)
       /\ WF_vars(SweepDone(g) /\ UNCHANGED <<adderVars, userVars, rmVars, filesVars>>)
  /\ \A a \in Adders : WF_vars(AdderStep(a) /\ UNCHANGED <<gcVars, userVars, rmVars, filesVars>>)
  /\ \A u \in Users : WF_vars(UserStep(u) /\ UNCHANGED <<gcVars, adderVars, rmVars, filesVars>>)
  /\ \A r \in Removers : WF_vars(RmStep(r) /\ UNCHANGED <<gcVars, adderVars, userVars, filesVars>>)

FairSpec == Spec /\ Fairness
-----------------------------------------------------------------------------
(***************************************************************************)
(* Safety.                                                                 *)
(***************************************************************************)

LockTypeOK ==
  /\ readers \subseteq Procs
  /\ rwait \subseteq Procs
  /\ writer \in Procs \cup {None}
  /\ gcreq \subseteq Procs

\* Every variable of the store, the lock and the five kinds of clients stays
\* in its type.
TypeOK ==
  /\ DataTypeOK
  /\ LockTypeOK
  /\ GCTypeOK
  /\ AdderTypeOK
  /\ UserTypeOK
  /\ RmTypeOK
  /\ FilesTypeOK

GCOwners == {g \in Collectors : GCHolding(g)} \cup {r \in Removers : RmHolding(r)}
PinOwners == {a \in Adders : AdderHolding(a)} \cup {u \in Users : UserHolding(u)}

\* Between GCLock's return and its Unlock, a collection or a removal is alone:
\* no other one is past its GCLock, and no add or pin call is past its PinLock.
LockExclusion ==
  \A p \in GCOwners : GCOwners = {p} /\ PinOwners = {}

\* The sweep (gc.go, the loop over keychan) never deletes a block that some
\* pin protects at that moment, under whatever CID version or codec the pin or
\* the link names it.
SweepSparesPins ==
  [][(\E g \in Collectors : gpc[g] = "sweep") =>
        (store \ store') \cap HashesOf(PinnedCids) = {}]_vars

\* While a block is missing below a recursive pin the sweep deletes nothing:
\* the strict walk of ColoredSet must have noticed and aborted the collection.
IncompletePinStopsSweep ==
  [][(\E g \in Collectors : gpc[g] = "sweep") /\ store' # store /\ store' \subseteq store =>
        \A c \in rpins : Complete(c)]_vars

\* RmBlocks never deletes the block of a CID that is pinned at that moment,
\* although the pins were checked in an earlier step (FilterPinned).
RmSparesPins ==
  [][\A r \in Removers : \A c \in stillOkay[r] \ stillOkay'[r] :
        rmpc[r] = "delete" /\ c.hash \in store \ store' => c \notin PinnedCids]_vars

\* The pins that a put records do not claim that their graph is complete, and
\* an update only claims it if the old root's graph was.
ClaimsComplete(c) ==
  /\ \A u \in Users : upc[u] = "pin" /\ ureq[u].op = "put" => c \notin uwrite[u]
  /\ \A u \in Users : upc[u] = "pin" /\ ureq[u].op = "update" => Complete(ureq[u].root)

\* Whenever an adder, a pin add, an import or an update records a recursive
\* pin, every block below it is in the store at that moment, whatever
\* collections and removals ran since the call began.
NewPinsComplete ==
  [][\A c \in rpins' \ rpins : ClaimsComplete(c) => HashesOf(Reach[c]) \subseteq store']_vars

\* The CIDs an adder with Pin may hold its work by: the file or the directory
\* that maybePauseForGC and AddAllAndPin pin.
AdderPins == UNION {{Files[a][k] : k \in 1 .. Len(Files[a])} \cup
                    {PartialDir[a][n] : n \in 1 .. Len(PartialDir[a])} : a \in PinAdders}

\* What an adder has to rely on: no call takes its pins away, and no block rm
\* names a block below them by a CID that is not the one they reach.
AdderPinsLeftAlone ==
  /\ \A r \in Requests : r.op \in {"rm", "update"} /\ r.flag => r.root \notin AdderPins
  /\ \A c \in UNION RmArgs : \A p \in AdderPins : \A d \in Reach[p] :
       d.hash = c.hash => d = c

\* Files whose blocks an adder with Pin has finished writing (addFileNode
\* returned) stay whole until the adder gives up its last lock, and the root
\* it returns stays whole after that; collections may run at every pause.  It
\* is what TestAddGCLive asserts.  (For a node with AdderPinsLeftAlone.)
AddedBlocksKept ==
  \A a \in PinAdders :
    /\ apc[a] # "failed" => \A k \in 1 .. added[a] : Complete(Files[a][k])
    /\ apc[a] = "done" => FinalRoot(a) \in rpins /\ Complete(FinalRoot(a))

\* What `ipfs files --help` says: content in MFS is not deleted by collections.
\* A tree that was whole when its command returned stays whole.
FilesRespected == Complete(filesRoot)

\* The first tree is whole at the start, no files command puts it back, and no
\* block rm is given a block of it: RmBlocks looks at the pins only.
FirstTreeLeftAlone ==
  /\ HashesOf(Reach[Mfs0]) \subseteq Store0
  /\ \A op \in FilesOps : op.root # Mfs0
  /\ HashesOf(UNION RmArgs) \cap HashesOf(Reach[Mfs0]) = {}

\* A tree that no files command has replaced yet is kept by every collection,
\* although an unpinned add and files commands write beside it.  (For a node
\* with FirstTreeLeftAlone.)
UntouchedTreeKept == filesRoot = Mfs0 => Complete(Mfs0)

-----------------------------------------------------------------------------
(***************************************************************************)
(* Refinement: the store is held alone from the return of a GCLock to its  *)
(* Unlock.                                                                 *)
(***************************************************************************)
Promised == INSTANCE PinnedStore WITH Below <- Reach, alone <- (GCOwners # {})

\* Adders, pin calls, collections and removals, with the GC lock between
\* them, implement a store in which pins and deletions take turns, no block
\* that a pin protects is collected, and no pin is taken on a block that is
\* not there.
ImplementsPinnedStore == Promised!Spec

-----------------------------------------------------------------------------
(***************************************************************************)
(* Liveness, under FairSpec.                                               *)
(***************************************************************************)

\* A collection that has been started ends, however many adders and pin calls
\* keep taking the pin lock: a waiting GCLock stops new PinLocks.
CollectionEnds == \A g \in Collectors : gpc[g] = "call" ~> gpc[g] = "idle"

\* An add returns although every entry may pause for a collection, and
\* collections and removals keep coming.
AddEnds == \A a \in Adders : apc[a] = "lock" ~> apc[a] \in {"done", "failed"}

\* A pin call that was made returns.
CallsEnd == \A u \in Users : upc[u] = "lock" ~> upc[u] = "idle"

\* Nobody waits for the lock for ever: collections, adds and pin calls all return.
StoreCallsEnd == CollectionEnds /\ AddEnds /\ CallsEnd
=============================================================================
