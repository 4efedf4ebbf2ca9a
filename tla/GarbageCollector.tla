-------------------------- MODULE GarbageCollector --------------------------
(***************************************************************************)
(* Mark and sweep over the block store (gc/gc.go), started by              *)
(* corerepo.GarbageCollect or GarbageCollectAsync (core/corerepo/gc.go).   *)
(*                                                                         *)
(*   idle -> call -> lock -> recursive -> bestEffort -> direct             *)
(*                                             -> sweep -> unlock -> idle  *)
(*                                                                         *)
(* The MFS root is read in the first step, before the GC lock is asked     *)
(* for; the pins are read under the lock.  dag.Walk is concurrent, so the  *)
(* frontier of a walk is a set and any member may be visited next.         *)
(***************************************************************************)
EXTENDS NodeState

CONSTANT Collectors

VARIABLES gpc,         \* where each collection is
          gcRoots,     \* bestEffortRoots, as read before the lock
          gtodo,       \* frontier of the current walk
          gcs,         \* the marked set
          gerrors,     \* the `errors` flag of ColoredSet and of the sweep
          keychan      \* block store keys still to be looked at

gcVars == <<gpc, gcRoots, gtodo, gcs, gerrors, keychan>>

WalkPhases == {"recursive", "bestEffort"}
GCPhases == {"idle", "call", "lock", "direct", "sweep", "unlock"} \cup WalkPhases
GCHolding(g) == gpc[g] \in WalkPhases \cup {"direct", "sweep", "unlock"}

GCInit ==
  /\ gpc = [g \in Collectors |-> "idle"]
  /\ gcRoots = [g \in Collectors |-> {}]
  /\ gtodo = [g \in Collectors |-> {}]
  /\ gcs = [g \in Collectors |-> {}]
  /\ gerrors = [g \in Collectors |-> FALSE]
  /\ keychan = [g \in Collectors |-> {}]

GCTypeOK ==
  /\ gpc \in [Collectors -> GCPhases]
  /\ gcRoots \in [Collectors -> SUBSET Cids]
  /\ gtodo \in [Collectors -> SUBSET Cids]
  /\ gcs \in [Collectors -> SUBSET AllCids]
  /\ gerrors \in [Collectors -> BOOLEAN]
  /\ keychan \in [Collectors -> SUBSET Block]

GoTo(g, phase) == gpc' = [gpc EXCEPT ![g] = phase]

\* GarbageCollect: read the MFS root...
BestEffortRoots(g) ==
  /\ gpc[g] = "idle"
  /\ gcRoots' = [gcRoots EXCEPT ![g] = {filesRoot}]
  /\ GoTo(g, "call")
  /\ UNCHANGED <<gtodo, gcs, gerrors, keychan, dataVars, lockVars>>

\* ... then call gc.GC, which asks for the GC lock.
GCCall(g) ==
  /\ gpc[g] = "call"
  /\ GCLockRequest(g)
  /\ GoTo(g, "lock")
  /\ UNCHANGED <<gcRoots, gtodo, gcs, gerrors, keychan, dataVars>>

\* The lock is granted; the walk over the recursive pins starts.
GCLocked(g) ==
  /\ gpc[g] = "lock"
  /\ GCLockAcquire(g)
  /\ gtodo' = [gtodo EXCEPT ![g] = rpins]
  /\ GoTo(g, "recursive")
  /\ UNCHANGED <<gcRoots, gcs, gerrors, keychan, dataVars>>

\* set.Visit(toCidV1(c)): has the walk seen this CID?
Seen(g, c) == toCidV1(c) \in gcs[g]

\* Mutant: a missing block ends the branch in the strict walk too.
VisitLenient(g, c) ==
  /\ gpc[g] \in WalkPhases
  /\ c \in gtodo[g]
  /\ gcs' = [gcs EXCEPT ![g] = @ \cup {toCidV1(c)}]
  /\ gtodo' = [gtodo EXCEPT ![g] =
                 (@ \ {c}) \cup (IF ~Seen(g, c) /\ Present(c) THEN Links[c] ELSE {})]
  /\ UNCHANGED <<gpc, gcRoots, gerrors, keychan, dataVars, lockVars>>

\* One node of dag.Walk.  A node is marked when first met, then its links are
\* read from the local store; a missing block is an error for the strict walk
\* and the end of the branch for the best-effort one.
Visit(g, c) ==
  /\ gpc[g] \in WalkPhases
  /\ c \in gtodo[g]
  /\ gcs' = [gcs EXCEPT ![g] = @ \cup {toCidV1(c)}]
  /\ gtodo' = [gtodo EXCEPT ![g] =
                 (@ \ {c}) \cup (IF ~Seen(g, c) /\ Present(c) THEN Links[c] ELSE {})]
  /\ gerrors' = [gerrors EXCEPT ![g] =
                   @ \/ (gpc[g] = "recursive" /\ ~Seen(g, c) /\ ~Present(c))]
  /\ UNCHANGED <<gpc, gcRoots, keychan, dataVars, lockVars>>

\* getLinks fails for another reason (unreadable or corrupt block): the error
\* is recorded and the walk goes on without the links.
LinkError(g, c) ==
  /\ gpc[g] \in WalkPhases
  /\ c \in gtodo[g]
  /\ ~Seen(g, c)
  /\ gcs' = [gcs EXCEPT ![g] = @ \cup {toCidV1(c)}]
  /\ gtodo' = [gtodo EXCEPT ![g] = @ \ {c}]
  /\ gerrors' = [gerrors EXCEPT ![g] = TRUE]
  /\ UNCHANGED <<gpc, gcRoots, keychan, dataVars, lockVars>>

\* Descendants returns early (the pin stream fails, a CID is not allowed):
\* the rest of this walk is lost, ColoredSet notes it and goes on.
WalkError(g) ==
  /\ gpc[g] \in WalkPhases
  /\ gtodo[g] # {}
  /\ gtodo' = [gtodo EXCEPT ![g] = {}]
  /\ gerrors' = [gerrors EXCEPT ![g] = TRUE]
  /\ UNCHANGED <<gpc, gcRoots, gcs, keychan, dataVars, lockVars>>

\* Mutant: the best-effort roots are forgotten.
StartBestEffortNoRoots(g) ==
  /\ gpc[g] = "recursive"
  /\ gtodo[g] = {}
  /\ GoTo(g, "bestEffort")
  /\ UNCHANGED <<gcRoots, gtodo, gcs, gerrors, keychan, dataVars, lockVars>>

\* The recursive pins are done; the best-effort walk shares the marked set.
StartBestEffort(g) ==
  /\ gpc[g] = "recursive"
  /\ gtodo[g] = {}
  /\ gtodo' = [gtodo EXCEPT ![g] = gcRoots[g]]
  /\ GoTo(g, "bestEffort")
  /\ UNCHANGED <<gcRoots, gcs, gerrors, keychan, dataVars, lockVars>>

\* The direct pins are marked without their links.  (The pinner keeps no
\* internal pins in the block store, so the fourth source is empty.)
MarkDirect(g) ==
  /\ gpc[g] = "bestEffort"
  /\ gtodo[g] = {}
  /\ gcs' = [gcs EXCEPT ![g] = @ \cup {toCidV1(c) : c \in dpins}]
  /\ GoTo(g, "direct")
  /\ UNCHANGED <<gcRoots, gtodo, gerrors, keychan, dataVars, lockVars>>

\* ColoredSet returned a set: drop the codecs and list the store.
StartSweep(g) ==
  /\ gpc[g] = "direct"
  /\ ~gerrors[g]
  /\ gcs' = [gcs EXCEPT ![g] = toRawCids(@)]
  /\ keychan' = [keychan EXCEPT ![g] = store]
  /\ GoTo(g, "sweep")
  /\ UNCHANGED <<gcRoots, gtodo, gerrors, dataVars, lockVars>>

\* ColoredSet failed (ErrCannotFetchAllLinks, or the direct pins could not be
\* listed), or the store cannot be listed: nothing is swept.
AbortMark(g) ==
  /\ gpc[g] = "direct"
  /\ GoTo(g, "unlock")
  /\ UNCHANGED <<gcRoots, gtodo, gcs, gerrors, keychan, dataVars, lockVars>>

\* One key.  The listing may also report blocks written since it began.  A
\* delete that fails is noted and the sweep goes on.
Sweep(g, h) ==
  /\ gpc[g] = "sweep"
  /\ h \in keychan[g] \cup store
  /\ keychan' = [keychan EXCEPT ![g] = @ \ {h}]
  /\ \/ RawCid(h) \in gcs[g] /\ UNCHANGED <<store, gerrors>>
     \/ /\ RawCid(h) \notin gcs[g]
        /\ \/ store' = store \ {h} /\ UNCHANGED gerrors
           \/ gerrors' = [gerrors EXCEPT ![g] = TRUE] /\ UNCHANGED store
  /\ UNCHANGED <<gpc, gcRoots, gtodo, gcs, rpins, dpins, filesRoot, lockVars>>

SweepDone(g) ==
  /\ gpc[g] = "sweep"
  /\ keychan[g] = {}
  /\ GoTo(g, "unlock")
  /\ UNCHANGED <<gcRoots, gtodo, gcs, gerrors, keychan, dataVars, lockVars>>

\* The caller's context ends: the collection stops where it is.
GCCancel(g) ==
  /\ gpc[g] \in WalkPhases \cup {"sweep"}
  /\ GoTo(g, "unlock")
  /\ UNCHANGED <<gcRoots, gtodo, gcs, gerrors, keychan, dataVars, lockVars>>

\* The deferred unlock; what the collection kept in memory is dropped.
GCReturn(g) ==
  /\ gpc[g] = "unlock"
  /\ GCUnlock(g)
  /\ GoTo(g, "idle")
  /\ gcRoots' = [gcRoots EXCEPT ![g] = {}]
  /\ gtodo' = [gtodo EXCEPT ![g] = {}]
  /\ gcs' = [gcs EXCEPT ![g] = {}]
  /\ gerrors' = [gerrors EXCEPT ![g] = FALSE]
  /\ keychan' = [keychan EXCEPT ![g] = {}]
  /\ UNCHANGED dataVars

\* The steps of a collection that its own goroutine takes once started.
GCStep(g) ==
  \/ GCCall(g) \/ GCLocked(g)
  \/ \E c \in gtodo[g] : Visit(g, c) \/ LinkError(g, c)
  \/ WalkError(g) \/ StartBestEffort(g) \/ MarkDirect(g)
  \/ StartSweep(g) \/ AbortMark(g)
  \/ \E h \in keychan[g] \cup store : Sweep(g, h)
  \/ SweepDone(g) \/ GCCancel(g) \/ GCReturn(g)

GCNext == \E g \in Collectors : BestEffortRoots(g) \/ GCStep(g)
=============================================================================
