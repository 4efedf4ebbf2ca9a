------------------------------ MODULE BlockRm ------------------------------
(***************************************************************************)
(* `ipfs block rm` (blocks/blockstoreutil/remove.go, called by             *)
(* BlockAPI.Rm and the block rm command): under the GC lock, drop the      *)
(* pinned CIDs from the list, then delete the blocks of the others.        *)
(***************************************************************************)
EXTENDS NodeState

CONSTANTS Removers,
          RmArgs       \* the sets of CIDs a call may be given

ASSUME RmAssumption == RmArgs \subseteq SUBSET Cids

VARIABLES rmpc,        \* where each removal is
          stillOkay    \* the CIDs still to be dealt with

rmVars == <<rmpc, stillOkay>>

RmPhases == {"idle", "lock", "filter", "delete", "unlock"}
RmHolding(r) == rmpc[r] \in {"filter", "delete", "unlock"}

RmInit ==
  /\ rmpc = [r \in Removers |-> "idle"]
  /\ stillOkay = [r \in Removers |-> {}]

RmTypeOK ==
  /\ rmpc \in [Removers -> RmPhases]
  /\ stillOkay \in [Removers -> SUBSET Cids]

RGoTo(r, phase) == rmpc' = [rmpc EXCEPT ![r] = phase]

RmBlocks(r, cids) ==
  /\ rmpc[r] = "idle"
  /\ GCLockRequest(r)
  /\ stillOkay' = [stillOkay EXCEPT ![r] = cids]
  /\ RGoTo(r, "lock")
  /\ UNCHANGED dataVars

\* Mutant: the removal does not wait for the lock.
RmLockedEarly(r) ==
  /\ rmpc[r] = "lock"
  /\ RGoTo(r, "filter")
  /\ UNCHANGED <<stillOkay, dataVars, lockVars>>

\* GCLock returns.
RmLocked(r) ==
  /\ rmpc[r] = "lock"
  /\ GCLockAcquire(r)
  /\ RGoTo(r, "filter")
  /\ UNCHANGED <<stillOkay, dataVars>>

\* Mutant: indirect pins are not looked at.
FilterPinnedDirect(r) ==
  /\ rmpc[r] = "filter"
  /\ stillOkay' = [stillOkay EXCEPT ![r] = @ \ (rpins \cup dpins)]
  /\ RGoTo(r, "delete")
  /\ UNCHANGED <<dataVars, lockVars>>

\* CheckIfPinned looks each CID up, as it is, among the pins of every kind; if
\* the check itself fails nothing is left to remove.
FilterPinned(r) ==
  /\ rmpc[r] = "filter"
  /\ \/ stillOkay' = [stillOkay EXCEPT ![r] = @ \ PinnedCids]
     \/ stillOkay' = [stillOkay EXCEPT ![r] = {}]
  /\ RGoTo(r, "delete")
  /\ UNCHANGED <<dataVars, lockVars>>

\* One CID: a block that is missing or cannot be deleted is reported and
\* skipped.
DeleteBlock(r, c) ==
  /\ rmpc[r] = "delete"
  /\ c \in stillOkay[r]
  /\ store' = store \/ store' = store \ {c.hash}
  /\ stillOkay' = [stillOkay EXCEPT ![r] = @ \ {c}]
  /\ UNCHANGED <<rmpc, rpins, dpins, filesRoot, lockVars>>

DeletesDone(r) ==
  /\ rmpc[r] = "delete"
  /\ stillOkay[r] = {}
  /\ RGoTo(r, "unlock")
  /\ UNCHANGED <<stillOkay, dataVars, lockVars>>

RmReturn(r) ==
  /\ rmpc[r] = "unlock"
  /\ GCUnlock(r)
  /\ RGoTo(r, "idle")
  /\ UNCHANGED <<stillOkay, dataVars>>

RmStep(r) ==
  \/ RmLocked(r) \/ FilterPinned(r)
  \/ \E c \in stillOkay[r] : DeleteBlock(r, c)
  \/ DeletesDone(r) \/ RmReturn(r)

RmNext == \E r \in Removers : (\E cids \in RmArgs : RmBlocks(r, cids)) \/ RmStep(r)
=============================================================================
