-------------------------- MODULE NodeStoreProofs --------------------------
(***************************************************************************)
(* Proofs about NodeStore, for every set of processes and every content    *)
(* graph: type correctness, exclusion by the GC lock, and the safety of    *)
(* the two operations that delete blocks.                                  *)
(*                                                                         *)
(* The inductive invariant IInv has four parts besides TypeOK:             *)
(*   PhaseInv   which phases imply that the pin lock is in play;           *)
(*   LockInv    who owns the lock, told from the program counters;         *)
(*   MarkInv    what the marked set of a collection covers in each phase   *)
(*              (the tri-colour invariant of the walk, then the closure    *)
(*              under links, then the set of raw CIDs of the sweep);       *)
(*   FilterInv  what a removal is about to delete is not pinned.           *)
(***************************************************************************)
EXTENDS NodeStore, TLAPS

-----------------------------------------------------------------------------
(***************************************************************************)
(* CIDs and reachability.                                                  *)
(***************************************************************************)

\* toCidV1 keeps the hash and the links and is idempotent (gc.go, toCidV1).
LEMMA ToCidV1 ==
  ASSUME NEW c \in Cids
  PROVE  /\ toCidV1(c) \in Cids
         /\ toCidV1(c) \in AllCids
         /\ toCidV1(c).hash = c.hash
         /\ toCidV1(toCidV1(c)) = toCidV1(c)
         /\ Links[toCidV1(c)] = Links[c]
         /\ c.hash \in Block
         /\ Links[c] \subseteq Cids
  BY CidAssumption DEF toCidV1, AllCids

\* Everything below a root lies in every link-closed set that holds the root.
LEMMA ReachLeast ==
  ASSUME NEW c \in Cids, NEW S \in SUBSET Cids, c \in S, LinkClosed(S)
  PROVE  Reach[c] \subseteq S
  BY DEF Reach

\* What is below a CID is made of CIDs.
LEMMA ReachType ==
  ASSUME NEW c \in Cids
  PROVE  Reach[c] \in SUBSET Cids
  BY DEF Reach

-----------------------------------------------------------------------------
(***************************************************************************)
(* Type correctness.                                                       *)
(***************************************************************************)

\* No operation of the lock leaves its type (the GCLocker calls).
LEMMA LockTypes ==
  ASSUME LockTypeOK, NEW p \in Procs,
         \/ PinLock(p) \/ PinUnlock(p) \/ GCLockRequest(p)
         \/ GCLockAnnounce(p) \/ GCLockAcquire(p) \/ GCUnlock(p)
         \/ UNCHANGED lockVars
  PROVE  LockTypeOK'
  BY DEF LockTypeOK, PinLock, PinUnlock, GCLockRequest, GCLockAnnounce,
         GCLockAcquire, GCUnlock, lockVars

\* A collection keeps its own variables, the lock and the data in type.
LEMMA GCTypes ==
  ASSUME TypeOK, NEW g \in Collectors, BestEffortRoots(g) \/ GCStep(g)
  PROVE  GCTypeOK' /\ DataTypeOK' /\ LockTypeOK'
<1> USE DEF TypeOK, GCTypeOK, DataTypeOK, GoTo, GCPhases, WalkPhases, gcVars, dataVars
<1>p. g \in Procs
  BY ProcsAssumption
<1>1. CASE BestEffortRoots(g)
  <2>1. GCTypeOK' /\ DataTypeOK'
    BY <1>1 DEF BestEffortRoots
  <2>2. LockTypeOK'
    BY <1>p, <1>1, LockTypes DEF BestEffortRoots
  <2> QED BY <2>1, <2>2
<1>2. CASE GCCall(g)
  <2>1. GCTypeOK' /\ DataTypeOK'
    BY <1>2 DEF GCCall
  <2>2. LockTypeOK'
    BY <1>p, <1>2, LockTypes DEF GCCall
  <2> QED BY <2>1, <2>2
<1>3. CASE GCLocked(g)
  <2>1. GCTypeOK' /\ DataTypeOK'
    BY <1>3 DEF GCLocked
  <2>2. LockTypeOK'
    BY <1>p, <1>3, LockTypes DEF GCLocked
  <2> QED BY <2>1, <2>2
<1>4. ASSUME NEW c \in gtodo[g], Visit(g, c) \/ LinkError(g, c)
      PROVE  GCTypeOK' /\ DataTypeOK' /\ LockTypeOK'
  <2>1. c \in Cids
    OBVIOUS
  <2>2. toCidV1(c) \in AllCids /\ Links[c] \subseteq Cids
    BY <2>1, ToCidV1
  <2>3. GCTypeOK' /\ DataTypeOK'
    <3>1. CASE Visit(g, c)
      <4>1. (gtodo[g] \ {c}) \cup (IF ~Seen(g, c) /\ Present(c) THEN Links[c] ELSE {})
              \in SUBSET Cids
        BY <2>2
      <4>2. gtodo' \in [Collectors -> SUBSET Cids]
        BY <3>1, <4>1 DEF Visit
      <4>3. gcs' \in [Collectors -> SUBSET AllCids]
        BY <3>1, <2>2 DEF Visit
      <4>4. gerrors' \in [Collectors -> BOOLEAN]
        BY <3>1, Zenon DEF Visit
      <4>5. gpc' = gpc /\ gcRoots' = gcRoots /\ keychan' = keychan /\ UNCHANGED dataVars
        BY <3>1 DEF Visit
      <4> QED BY <4>2, <4>3, <4>4, <4>5
    <3>2. CASE LinkError(g, c)
      BY <3>2, <2>2 DEF LinkError
    <3> QED BY <1>4, <3>1, <3>2
  <2>4. LockTypeOK'
    BY <1>p, <1>4, LockTypes DEF Visit, LinkError
  <2> QED BY <2>3, <2>4
<1>5. CASE WalkError(g) \/ StartBestEffort(g) \/ AbortMark(g) \/ SweepDone(g) \/ GCCancel(g)
  <2>1. GCTypeOK' /\ DataTypeOK'
    BY Zenon, <1>5 DEF WalkError, StartBestEffort, AbortMark, SweepDone, GCCancel
  <2>2. LockTypeOK'
    BY <1>p, <1>5, LockTypes DEF WalkError, StartBestEffort, AbortMark, SweepDone, GCCancel
  <2> QED BY <2>1, <2>2
<1>6. CASE MarkDirect(g)
  <2>1. {toCidV1(c) : c \in dpins} \subseteq AllCids
    BY ToCidV1
  <2>2. GCTypeOK' /\ DataTypeOK'
    BY <1>6, <2>1 DEF MarkDirect
  <2>3. LockTypeOK'
    BY <1>p, <1>6, LockTypes DEF MarkDirect
  <2> QED BY <2>2, <2>3
<1>7. CASE StartSweep(g)
  <2>1. toRawCids(gcs[g]) \subseteq AllCids
    BY DEF toRawCids, RawCid, AllCids, Codecs
  <2>2. GCTypeOK' /\ DataTypeOK'
    BY <1>7, <2>1 DEF StartSweep
  <2>3. LockTypeOK'
    BY <1>p, <1>7, LockTypes DEF StartSweep
  <2> QED BY <2>2, <2>3
<1>8. ASSUME NEW h \in keychan[g] \cup store, Sweep(g, h)
      PROVE  GCTypeOK' /\ DataTypeOK' /\ LockTypeOK'
  <2>1. GCTypeOK' /\ DataTypeOK'
    BY <1>8 DEF Sweep
  <2>2. LockTypeOK'
    BY <1>p, <1>8, LockTypes DEF Sweep
  <2> QED BY <2>1, <2>2
<1>9. CASE GCReturn(g)
  <2>1. GCTypeOK' /\ DataTypeOK'
    BY <1>9 DEF GCReturn
  <2>2. LockTypeOK'
    BY <1>p, <1>9, LockTypes DEF GCReturn
  <2> QED BY <2>1, <2>2
<1> QED
  BY <1>1, <1>2, <1>3, <1>4, <1>5, <1>6, <1>7, <1>8, <1>9 DEF GCStep

-----------------------------------------------------------------------------
(***************************************************************************)
(* The adder's phases: it is never past its last file when it writes one,  *)
(* and only an adder with Pin gets into the phases around the lock.        *)
(***************************************************************************)
BeforeFile == {"idle", "lock", "node", "pausePin", "pauseUnlock", "relock",
               "repinlock", "enter"}
PinPhases == {"lock", "pausePin", "pauseUnlock", "relock", "repinlock", "pin",
              "unlock", "failUnlock"}

AdderInv(a) ==
  /\ added[a] <= Len(Files[a])
  /\ apc[a] \in BeforeFile =>
       added[a] < Len(Files[a]) \/ (a \in AddsDirectory /\ ~indir[a])
  /\ apc[a] = "file" => added[a] < Len(Files[a]) /\ (a \in AddsDirectory => indir[a])
  /\ a \in AddsDirectory /\ ~indir[a] => added[a] = 0
  /\ apc[a] \in PinPhases => a \in PinAdders

UserInv(u) == upc[u] \in {"lock", "fetch", "pin", "unlock"} => Locks(ureq[u])

PhaseInv ==
  /\ \A a \in Adders : AdderInv(a)
  /\ \A u \in Users : UserInv(u)

\* The hash of a CID is a block.
LEMMA HashType ==
  ASSUME NEW S \in SUBSET Cids
  PROVE  HashesOf(S) \subseteq Block
  BY ToCidV1 DEF HashesOf

\* The directory, the current root and the final root of an adder are CIDs.
LEMMA AdderRoots ==
  ASSUME TypeOK, NEW a \in Adders, AdderInv(a)
  PROVE  /\ AdderDir(a) \in Cids
         /\ curRootNode(a) \in Cids
         /\ a \notin AddsDirectory \/ AdderDir(a) = FinalRoot(a)
         /\ FinalRoot(a) \in Cids
         /\ added[a] < Len(Files[a]) =>
              Files[a][added[a] + 1] \in Cids
<1> USE DEF TypeOK, AdderTypeOK
<1>1. /\ Files[a] \in Seq(Cids) /\ PartialDir[a] \in Seq(Cids)
      /\ Len(PartialDir[a]) = Len(Files[a]) + 1
      /\ a \in AddsDirectory \/ Len(Files[a]) = 1
  BY AdderAssumption
<1>2. added[a] \in Nat /\ added[a] <= Len(Files[a]) /\ Len(Files[a]) \in Nat
  BY <1>1 DEF AdderInv
<1>3. AdderDir(a) \in Cids
  BY <1>1, <1>2 DEF AdderDir
<1>4. added[a] < Len(Files[a]) => Files[a][added[a] + 1] \in Cids
  BY <1>1, <1>2
<1>5. curRootNode(a) \in Cids
  BY <1>1, <1>2, <1>3 DEF curRootNode
<1>6. FinalRoot(a) \in Cids
  BY <1>1, <1>2, <1>3 DEF FinalRoot
<1>7. a \notin AddsDirectory \/ AdderDir(a) = FinalRoot(a)
  BY DEF FinalRoot
<1> QED BY <1>3, <1>4, <1>5, <1>6, <1>7

\* An adder keeps its own variables, the lock and the data in type.
LEMMA AdderTypes ==
  ASSUME TypeOK, PhaseInv, NEW a \in Adders, AddAllAndPin(a) \/ AdderStep(a)
  PROVE  AdderTypeOK' /\ DataTypeOK' /\ LockTypeOK'
<1> USE DEF TypeOK, AdderTypeOK, DataTypeOK, AGoTo, AdderPhases, dataVars
<1>p. a \in Procs
  BY ProcsAssumption
<1>i. AdderInv(a)
  BY DEF PhaseInv
<1>r. /\ AdderDir(a) \in Cids /\ curRootNode(a) \in Cids /\ FinalRoot(a) \in Cids
      /\ AdderDir(a).hash \in Block /\ curRootNode(a).hash \in Block
      /\ FinalRoot(a).hash \in Block
  BY <1>i, AdderRoots, ToCidV1
<1>1. CASE AddAllAndPin(a)
  <2>1. AdderTypeOK' /\ DataTypeOK'
    BY <1>1 DEF AddAllAndPin
  <2>2. LockTypeOK'
    BY <1>p, <1>1, LockTypes DEF AddAllAndPin
  <2> QED BY <2>1, <2>2
<1>2. CASE AddLocked(a) \/ NoPause(a)
  <2>1. AdderTypeOK' /\ DataTypeOK'
    BY <1>2 DEF AddLocked, NoPause
  <2>2. LockTypeOK'
    BY <1>p, <1>2, LockTypes DEF AddLocked, NoPause
  <2> QED BY <2>1, <2>2
<1>3. CASE AddFileNode(a)
  <2>1. AdderTypeOK' /\ DataTypeOK'
    <3>1. CASE a \in AddsDirectory /\ ~indir[a]
      BY <1>3, <3>1, <1>r DEF AddFileNode
    <3>2. CASE ~(a \in AddsDirectory /\ ~indir[a])
      <4>1. Files[a][added[a] + 1] \in Cids
        BY <1>3, <3>2, <1>i, AdderRoots DEF AddFileNode, AdderInv, BeforeFile
      <4>2. HashesOf(Reach[Files[a][added[a] + 1]]) \subseteq Block
        BY <4>1, ReachType, HashType
      <4> QED BY <1>3, <3>2, <4>2, <1>r DEF AddFileNode
    <3> QED BY <3>1, <3>2
  <2>2. LockTypeOK'
    BY <1>p, <1>3, LockTypes DEF AddFileNode
  <2> QED BY <2>1, <2>2
<1>4. CASE PauseRoot(a) \/ PausePinRoot(a) \/ AddFlush(a) \/ PinRoot(a)
  <2>1. AdderTypeOK' /\ DataTypeOK'
    BY <1>4, <1>r DEF PauseRoot, PausePinRoot, AddFlush, PinRoot, PinRecursive
  <2>2. LockTypeOK'
    BY <1>p, <1>4, LockTypes DEF PauseRoot, PausePinRoot, AddFlush, PinRoot
  <2> QED BY <2>1, <2>2
<1>5. CASE PauseUnlock(a) \/ PauseRelock(a) \/ AddReturn(a)
  <2>1. AdderTypeOK' /\ DataTypeOK'
    BY <1>5 DEF PauseUnlock, PauseRelock, AddReturn
  <2>2. LockTypeOK'
    BY <1>p, <1>5, LockTypes DEF PauseUnlock, PauseRelock, AddReturn
  <2> QED BY <2>1, <2>2
<1>6. ASSUME NEW h \in awrite[a], AddBlock(a, h)
      PROVE  AdderTypeOK' /\ DataTypeOK' /\ LockTypeOK'
  <2>1. AdderTypeOK' /\ DataTypeOK'
    BY <1>6 DEF AddBlock
  <2>2. LockTypeOK'
    BY <1>p, <1>6, LockTypes DEF AddBlock
  <2> QED BY <2>1, <2>2
<1>7. CASE AddNode(a)
  <2>1. added[a] + 1 \in Nat
    OBVIOUS
  <2>2. added' \in [Adders -> Nat]
    BY <1>7, <2>1 DEF AddNode
  <2>3. AdderTypeOK' /\ DataTypeOK'
    BY <1>7, <2>2 DEF AddNode
  <2>4. LockTypeOK'
    BY <1>p, <1>7, LockTypes DEF AddNode
  <2> QED BY <2>3, <2>4
<1>8. CASE AddFail(a)
  <2>1. AdderTypeOK' /\ DataTypeOK'
    BY <1>8 DEF AddFail
  <2>2. LockTypeOK'
    BY <1>p, <1>8, LockTypes DEF AddFail
  <2> QED BY <2>1, <2>2
<1> QED
  BY <1>1, <1>2, <1>3, <1>4, <1>5, <1>6, <1>7, <1>8 DEF AdderStep

\* A user's call keeps its own variables, the lock and the data in type.
LEMMA UserTypes ==
  ASSUME TypeOK, NEW u \in Users,
         (\E r \in Requests : UserCall(u, r)) \/ UserStep(u)
  PROVE  UserTypeOK' /\ DataTypeOK' /\ LockTypeOK'
<1> USE DEF TypeOK, UserTypeOK, DataTypeOK, UGoTo, UserPhases, dataVars
<1>p. u \in Procs
  BY ProcsAssumption
<1>n. NoRequest.root \in Cids /\ NoRequest.to \in Cids /\ NoRequest.nodes \in SUBSET Cids
  BY InitAssumption DEF NoRequest
<1>r. /\ ureq[u].root \in Cids /\ ureq[u].to \in Cids /\ ureq[u].nodes \in SUBSET Cids
      /\ ureq[u].root.hash \in Block
  <2>1. ureq[u] \in AllRequests \cup {NoRequest}
    OBVIOUS
  <2>2. ureq[u].root \in Cids /\ ureq[u].to \in Cids /\ ureq[u].nodes \in SUBSET Cids
    BY <2>1, <1>n DEF AllRequests
  <2> QED BY <2>2, ToCidV1
<1>1. ASSUME NEW r \in Requests, UserCall(u, r)
      PROVE  UserTypeOK' /\ DataTypeOK' /\ LockTypeOK'
  <2>1. r \in AllRequests
    BY RequestAssumption
  <2>2. r.root \in Cids /\ r.root.hash \in Block /\ r.nodes \in SUBSET Cids
    BY <2>1, ToCidV1 DEF AllRequests
  <2>3. UserTypeOK' /\ DataTypeOK'
    BY <1>1, <2>1, <2>2 DEF UserCall
  <2>4. LockTypeOK'
    BY <1>p, <1>1, LockTypes DEF UserCall
  <2> QED BY <2>3, <2>4
<1>2. CASE UserLocked(u)
  <2>1. UserTypeOK' /\ DataTypeOK'
    BY <1>2, <1>r DEF UserLocked, FirstPhase
  <2>2. LockTypeOK'
    BY <1>p, <1>2, LockTypes DEF UserLocked
  <2> QED BY <2>1, <2>2
<1>3. ASSUME NEW c \in uwrite[u], WriteNode(u, c) \/ PinWritten(u, c)
      PROVE  UserTypeOK' /\ DataTypeOK' /\ LockTypeOK'
  <2>1. c \in Cids /\ c.hash \in Block
    BY ToCidV1
  <2>2. UserTypeOK' /\ DataTypeOK'
    BY <1>3, <2>1 DEF WriteNode, PinWritten, PinRecursive
  <2>3. LockTypeOK'
    BY <1>p, <1>3, LockTypes DEF WriteNode, PinWritten
  <2> QED BY <2>2, <2>3
<1>4. CASE WritesDone(u) \/ FetchDone(u) \/ UserFail(u) \/ UserReturn(u)
  <2>1. UserTypeOK' /\ DataTypeOK'
    BY <1>4, <1>r DEF WritesDone, FetchDone, UserFail, UserReturn
  <2>2. LockTypeOK'
    BY <1>p, <1>4, LockTypes DEF WritesDone, FetchDone, UserFail, UserReturn
  <2> QED BY <2>1, <2>2
<1>5. ASSUME NEW c \in Wanted(ureq[u]), Fetch(u, c)
      PROVE  UserTypeOK' /\ DataTypeOK' /\ LockTypeOK'
  <2>1. c \in Cids
    BY <1>r, ReachType DEF Wanted
  <2>2. c.hash \in Block
    BY <2>1, ToCidV1
  <2>3. UserTypeOK' /\ DataTypeOK'
    BY <1>5, <2>2 DEF Fetch
  <2>4. LockTypeOK'
    BY <1>p, <1>5, LockTypes DEF Fetch
  <2> QED BY <2>3, <2>4
<1>6. CASE PinDone(u)
  <2>1. rpins' \subseteq Cids /\ dpins' \subseteq Cids
    BY <1>6, <1>r DEF PinDone, ChangePins, PinRecursive, PinDirect, Unpin
  <2>2. UserTypeOK' /\ DataTypeOK'
    BY <1>6, <2>1 DEF PinDone
  <2>3. LockTypeOK'
    BY <1>p, <1>6, LockTypes DEF PinDone
  <2> QED BY <2>2, <2>3
<1> QED
  BY <1>1, <1>2, <1>3, <1>4, <1>5, <1>6 DEF UserStep

\* A removal keeps its own variables, the lock and the data in type.
LEMMA RmTypes ==
  ASSUME TypeOK, NEW r \in Removers,
         (\E cids \in RmArgs : RmBlocks(r, cids)) \/ RmStep(r)
  PROVE  RmTypeOK' /\ DataTypeOK' /\ LockTypeOK'
<1> USE DEF TypeOK, RmTypeOK, DataTypeOK, RGoTo, RmPhases, dataVars
<1>p. r \in Procs
  BY ProcsAssumption
<1>1. ASSUME NEW cids \in RmArgs, RmBlocks(r, cids)
      PROVE  RmTypeOK' /\ DataTypeOK' /\ LockTypeOK'
  <2>1. RmTypeOK' /\ DataTypeOK'
    BY <1>1, RmAssumption DEF RmBlocks
  <2>2. LockTypeOK'
    BY <1>p, <1>1, LockTypes DEF RmBlocks
  <2> QED BY <2>1, <2>2
<1>2. CASE RmLocked(r) \/ FilterPinned(r) \/ DeletesDone(r) \/ RmReturn(r)
  <2>1. RmTypeOK' /\ DataTypeOK'
    BY <1>2 DEF RmLocked, FilterPinned, DeletesDone, RmReturn
  <2>2. LockTypeOK'
    BY <1>p, <1>2, LockTypes DEF RmLocked, FilterPinned, DeletesDone, RmReturn
  <2> QED BY <2>1, <2>2
<1>3. ASSUME NEW c \in stillOkay[r], DeleteBlock(r, c)
      PROVE  RmTypeOK' /\ DataTypeOK' /\ LockTypeOK'
  <2>1. RmTypeOK' /\ DataTypeOK'
    BY <1>3 DEF DeleteBlock
  <2>2. LockTypeOK'
    BY <1>p, <1>3, LockTypes DEF DeleteBlock
  <2> QED BY <2>1, <2>2
<1> QED
  BY <1>1, <1>2, <1>3 DEF RmStep

\* An MFS command keeps its own variables and the data in type, and it does
\* not touch the lock or the pins, nor delete a block.
LEMMA FilesTypes ==
  ASSUME TypeOK, NEW f \in FilesClients,
         (\E op \in FilesOps : FilesCall(f, op)) \/ FilesStep(f)
  PROVE  /\ FilesTypeOK' /\ DataTypeOK'
         /\ UNCHANGED <<rpins, dpins>> /\ UNCHANGED lockVars
         /\ store \subseteq store'
<1> USE DEF TypeOK, FilesTypeOK, DataTypeOK, FilesPhases, dataVars
<1>1. ASSUME NEW op \in FilesOps, FilesCall(f, op)
      PROVE  /\ FilesTypeOK' /\ DataTypeOK'
             /\ UNCHANGED <<rpins, dpins>> /\ UNCHANGED lockVars
             /\ store \subseteq store'
  BY <1>1, FilesAssumption DEF FilesCall
<1>2. ASSUME NEW c \in fwrite[f], FilesWrite(f, c)
      PROVE  /\ FilesTypeOK' /\ DataTypeOK'
             /\ UNCHANGED <<rpins, dpins>> /\ UNCHANGED lockVars
             /\ store \subseteq store'
  <2>1. c.hash \in Block
    BY ToCidV1
  <2> QED BY <1>2, <2>1 DEF FilesWrite
<1>3. CASE FilesDone(f) \/ FilesFail(f)
  BY <1>3, InitAssumption DEF FilesDone, FilesFail
<1> QED
  BY <1>1, <1>2, <1>3 DEF FilesStep

-----------------------------------------------------------------------------
(***************************************************************************)
(* Phases and the lock.                                                    *)
(***************************************************************************)

\* A step of one adder keeps the phase invariant of all of them.
LEMMA AdderPhaseStep ==
  ASSUME TypeOK, PhaseInv, NEW a \in Adders, AddAllAndPin(a) \/ AdderStep(a)
  PROVE  \A b \in Adders : AdderInv(b)'
<1> USE DEF TypeOK, AdderTypeOK, AGoTo
<1>i. AdderInv(a)
  BY DEF PhaseInv
<1>l. Len(Files[a]) \in Nat /\ added[a] \in Nat /\ (Files[a] = << >> <=> Len(Files[a]) = 0)
  BY AdderAssumption
<1>1. AdderInv(a)'
  <2>1. CASE AddAllAndPin(a) \/ AddLocked(a) \/ NoPause(a) \/ AddFlush(a) \/ AddFail(a)
    BY <2>1, <1>i, <1>l
    DEF AddAllAndPin, AddLocked, NoPause, AddFlush, AddFail, AdderInv, BeforeFile, PinPhases
  <2>2. CASE AddFileNode(a)
    BY <2>2, <1>i, <1>l DEF AddFileNode, AdderInv, BeforeFile, PinPhases
  <2>3. CASE PauseRoot(a) \/ PausePinRoot(a) \/ PauseUnlock(a) \/ PauseRelock(a)
    BY <2>3, <1>i, <1>l
    DEF PauseRoot, PausePinRoot, PauseUnlock, PauseRelock, AdderInv, BeforeFile, PinPhases
  <2>4. ASSUME NEW h \in awrite[a], AddBlock(a, h)
        PROVE  AdderInv(a)'
    BY <2>4, <1>i DEF AddBlock, AdderInv
  <2>5. CASE AddNode(a)
    BY <2>5, <1>i, <1>l DEF AddNode, AdderInv, BeforeFile, PinPhases
  <2>6. CASE PinRoot(a) \/ AddReturn(a)
    BY <2>6, <1>i, <1>l DEF PinRoot, AddReturn, AdderInv, BeforeFile, PinPhases
  <2> QED BY <2>1, <2>2, <2>3, <2>4, <2>5, <2>6 DEF AdderStep
<1>2. ASSUME NEW b \in Adders, b # a
      PROVE  apc'[b] = apc[b] /\ indir'[b] = indir[b] /\ added'[b] = added[b]
  <2>1. CASE AddAllAndPin(a) \/ AddLocked(a) \/ NoPause(a) \/ AddFileNode(a)
    BY <1>2, <2>1 DEF AddAllAndPin, AddLocked, NoPause, AddFileNode
  <2>2. CASE PauseRoot(a) \/ PausePinRoot(a) \/ PauseUnlock(a) \/ PauseRelock(a)
    BY <1>2, <2>2 DEF PauseRoot, PausePinRoot, PauseUnlock, PauseRelock
  <2>3. CASE (\E h \in awrite[a] : AddBlock(a, h)) \/ AddNode(a) \/ AddFlush(a)
    BY <1>2, <2>3 DEF AddBlock, AddNode, AddFlush
  <2>4. CASE PinRoot(a) \/ AddFail(a) \/ AddReturn(a)
    BY <1>2, <2>4 DEF PinRoot, AddFail, AddReturn
  <2> QED BY <2>1, <2>2, <2>3, <2>4 DEF AdderStep
<1> QED
  BY <1>1, <1>2 DEF PhaseInv, AdderInv

\* A step of one user keeps the phase invariant of all of them.
LEMMA UserPhaseStep ==
  ASSUME TypeOK, PhaseInv, NEW u \in Users,
         (\E r \in Requests : UserCall(u, r)) \/ UserStep(u)
  PROVE  \A v \in Users : UserInv(v)'
<1> USE DEF TypeOK, UserTypeOK, UGoTo
<1>i. UserInv(u)
  BY DEF PhaseInv
<1>1. UserInv(u)'
  <2>1. ASSUME NEW r \in Requests, UserCall(u, r)
        PROVE  UserInv(u)'
    <3>1. upc'[u] = "lock" => Locks(r)
      BY <2>1 DEF UserCall
    <3>2. ureq'[u] = r /\ upc'[u] \in {"lock", "write"}
      BY <2>1 DEF UserCall
    <3> QED BY <3>1, <3>2 DEF UserInv
  <2>2. CASE UserLocked(u)
    BY <2>2, <1>i DEF UserLocked, UserInv
  <2>3. CASE WritesDone(u)
    BY <2>3, <1>i DEF WritesDone, UserInv, Locks
  <2>4. CASE FetchDone(u) \/ PinDone(u)
    BY <2>4, <1>i DEF FetchDone, PinDone, UserInv
  <2>5. CASE UserFail(u) \/ UserReturn(u)
    BY <2>5, <1>i DEF UserFail, UserReturn, UserInv
  <2>6. ASSUME NEW c, WriteNode(u, c) \/ PinWritten(u, c) \/ Fetch(u, c)
        PROVE  UserInv(u)'
    BY <2>6, <1>i DEF WriteNode, PinWritten, Fetch, UserInv
  <2> QED BY <2>1, <2>2, <2>3, <2>4, <2>5, <2>6 DEF UserStep
<1>2. ASSUME NEW v \in Users, v # u
      PROVE  upc'[v] = upc[v] /\ ureq'[v] = ureq[v]
  <2>1. CASE (\E r \in Requests : UserCall(u, r)) \/ UserLocked(u) \/ WritesDone(u)
    BY <1>2, <2>1 DEF UserCall, UserLocked, WritesDone
  <2>2. CASE FetchDone(u) \/ PinDone(u) \/ UserFail(u) \/ UserReturn(u)
    BY <1>2, <2>2 DEF FetchDone, PinDone, UserFail, UserReturn
  <2>3. CASE \E c : WriteNode(u, c) \/ PinWritten(u, c) \/ Fetch(u, c)
    BY <1>2, <2>3 DEF WriteNode, PinWritten, Fetch
  <2> QED BY <2>1, <2>2, <2>3 DEF UserStep
<1> QED
  BY <1>1, <1>2 DEF PhaseInv, UserInv

\* Who owns the lock, told from the program counters; and the exclusion that
\* the lock itself gives.
LockInv ==
  /\ writer # None /\ writer \notin gcreq => readers = {}
  /\ \A g \in Collectors : GCHolding(g) => writer = g /\ g \notin gcreq
  /\ \A r \in Removers : RmHolding(r) => writer = r /\ r \notin gcreq
  /\ \A a \in Adders : AdderHolding(a) => a \in readers
  /\ \A u \in Users : UserHolding(u) => u \in readers

\* The lock still excludes, and no process but p has lost what it owned.
LockKept(p) ==
  /\ writer' # None /\ writer' \notin gcreq' => readers' = {}
  /\ \A q \in Procs \ {p} :
       /\ writer = q /\ q \notin gcreq => writer' = q /\ q \notin gcreq'
       /\ q \in readers => q \in readers'

\* Nothing of collection k has changed.
SameCollection(k) ==
  /\ gpc'[k] = gpc[k] /\ gcRoots'[k] = gcRoots[k] /\ gtodo'[k] = gtodo[k]
  /\ gcs'[k] = gcs[k] /\ gerrors'[k] = gerrors[k] /\ keychan'[k] = keychan[k]

\* An operation of the lock by p (an unlock only by its owner) keeps the
\* lock's exclusion and takes nothing from the other processes.
LEMMA LockStep ==
  ASSUME LockTypeOK, LockInv, NEW p \in Procs,
         \/ PinLock(p) \/ PinUnlock(p) \/ GCLockRequest(p)
         \/ GCLockAnnounce(p) \/ GCLockAcquire(p) \/ UNCHANGED lockVars
         \/ writer = p /\ p \notin gcreq /\ GCUnlock(p)
  PROVE  LockKept(p)
<1> USE DEF LockKept
<1>1. None \notin Procs
  BY ProcsAssumption
<1>2. CASE PinLock(p) \/ PinUnlock(p)
  BY <1>1, <1>2 DEF LockTypeOK, LockInv, PinLock, PinUnlock
<1>3. CASE GCLockRequest(p) \/ GCLockAnnounce(p) \/ GCLockAcquire(p)
  BY <1>1, <1>3 DEF LockTypeOK, LockInv, GCLockRequest, GCLockAnnounce, GCLockAcquire
<1>4. CASE writer = p /\ p \notin gcreq /\ GCUnlock(p)
  BY <1>1, <1>4 DEF LockTypeOK, LockInv, GCUnlock
<1>5. CASE UNCHANGED lockVars
  BY <1>5 DEF LockInv, lockVars
<1> QED BY <1>2, <1>3, <1>4, <1>5

\* What a step does to the lock and to the data, for a collection that is not
\* alone in the system.
LEMMA GCLockStep ==
  ASSUME TypeOK, LockInv, NEW g \in Collectors, BestEffortRoots(g) \/ GCStep(g)
  PROVE  /\ GCHolding(g)' => writer' = g /\ g \notin gcreq'
         /\ LockKept(g)
         /\ \A k \in Collectors \ {g} : SameCollection(k)
         /\ UNCHANGED <<rpins, dpins>>
         /\ ~GCHolding(g) => UNCHANGED store
         /\ store' \subseteq store
<1> USE DEF TypeOK, GCTypeOK, GoTo, WalkPhases, GCHolding, SameCollection
<1>p. g \in Procs
  BY ProcsAssumption
<1>h. LockTypeOK /\ (GCHolding(g) => writer = g /\ g \notin gcreq)
  BY DEF LockInv
<1>1. CASE BestEffortRoots(g)
  <2>1. UNCHANGED lockVars /\ UNCHANGED dataVars /\ gpc'[g] = "call"
    BY <1>1 DEF BestEffortRoots
  <2>2. \A k \in Collectors \ {g} : SameCollection(k)
    BY <1>1 DEF BestEffortRoots
  <2> QED BY <1>p, <1>h, <2>1, <2>2, LockStep DEF dataVars
<1>2. CASE GCCall(g)
  <2>1. GCLockRequest(g) /\ UNCHANGED dataVars /\ gpc'[g] = "lock"
    BY <1>2 DEF GCCall
  <2>2. \A k \in Collectors \ {g} : SameCollection(k)
    BY <1>2 DEF GCCall
  <2> QED BY <1>p, <1>h, <2>1, <2>2, LockStep DEF dataVars
<1>3. CASE GCLocked(g)
  <2>1. GCLockAcquire(g) /\ UNCHANGED dataVars
    BY <1>3 DEF GCLocked
  <2>2. writer' = g /\ g \notin gcreq'
    BY <2>1 DEF GCLockAcquire
  <2>3. \A k \in Collectors \ {g} : SameCollection(k)
    BY <1>3 DEF GCLocked
  <2> QED BY <1>p, <1>h, <2>1, <2>2, <2>3, LockStep DEF dataVars
<1>4. CASE GCReturn(g)
  <2>1. GCUnlock(g) /\ writer = g /\ g \notin gcreq /\ UNCHANGED dataVars /\ gpc'[g] = "idle"
    BY <1>4, <1>h DEF GCReturn
  <2>2. \A k \in Collectors \ {g} : SameCollection(k)
    BY <1>4 DEF GCReturn
  <2> QED BY <1>p, <1>h, <2>1, <2>2, LockStep DEF dataVars
<1>5. ASSUME \/ \E c \in gtodo[g] : Visit(g, c) \/ LinkError(g, c)
             \/ WalkError(g) \/ StartBestEffort(g) \/ MarkDirect(g) \/ StartSweep(g)
             \/ AbortMark(g) \/ SweepDone(g) \/ GCCancel(g)
             \/ \E h \in keychan[g] \cup store : Sweep(g, h)
      PROVE  /\ GCHolding(g) /\ UNCHANGED lockVars /\ UNCHANGED <<rpins, dpins>>
             /\ store' \subseteq store
             /\ \A k \in Collectors \ {g} : SameCollection(k)
  <2> USE DEF dataVars
  <2>1. CASE \E c \in gtodo[g] : Visit(g, c) \/ LinkError(g, c)
    BY <2>1 DEF Visit, LinkError
  <2>2. CASE WalkError(g) \/ StartBestEffort(g) \/ MarkDirect(g) \/ StartSweep(g)
    BY <2>2 DEF WalkError, StartBestEffort, MarkDirect, StartSweep
  <2>3. CASE AbortMark(g) \/ SweepDone(g) \/ GCCancel(g)
    BY <2>3 DEF AbortMark, SweepDone, GCCancel
  <2>4. CASE \E h \in keychan[g] \cup store : Sweep(g, h)
    BY <2>4 DEF Sweep
  <2> QED BY <1>5, <2>1, <2>2, <2>3, <2>4
<1>6. ASSUME \/ \E c \in gtodo[g] : Visit(g, c) \/ LinkError(g, c)
             \/ WalkError(g) \/ StartBestEffort(g) \/ MarkDirect(g) \/ StartSweep(g)
             \/ AbortMark(g) \/ SweepDone(g) \/ GCCancel(g)
             \/ \E h \in keychan[g] \cup store : Sweep(g, h)
      PROVE  /\ writer' = g /\ g \notin gcreq'
             /\ LockKept(g)
  <2>1. GCHolding(g) /\ UNCHANGED lockVars
    BY <1>5, <1>6
  <2>2. writer' = g /\ g \notin gcreq'
    BY <2>1, <1>h DEF lockVars
  <2> QED BY <1>p, <1>h, <2>1, <2>2, LockStep
<1> QED
  BY <1>1, <1>2, <1>3, <1>4, <1>5, <1>6 DEF GCStep

\* The same for an adder: it never deletes a block, and it changes the pins
\* only while it owns the pin lock.
LEMMA AdderLockStep ==
  ASSUME TypeOK, PhaseInv, LockInv, NEW a \in Adders, AddAllAndPin(a) \/ AdderStep(a)
  PROVE  /\ AdderHolding(a)' => a \in readers'
         /\ LockKept(a)
         /\ \A b \in Adders \ {a} : apc'[b] = apc[b]
         /\ readers = {} => UNCHANGED <<rpins, dpins>>
         /\ store \subseteq store'
         /\ UNCHANGED filesRoot
<1> USE DEF TypeOK, AdderTypeOK, AGoTo, AdderHolding, dataVars
<1>p. a \in Procs /\ AdderInv(a)
  BY ProcsAssumption DEF PhaseInv
<1>h. LockTypeOK /\ (AdderHolding(a) => a \in readers)
  BY DEF LockInv
<1>1. CASE AddAllAndPin(a)
  <2>1. PinLock(a) \/ UNCHANGED lockVars
    BY <1>1 DEF AddAllAndPin
  <2>2. apc'[a] = "lock" \/ a \notin PinAdders
    BY <1>1 DEF AddAllAndPin
  <2>3. UNCHANGED dataVars /\ \A b \in Adders \ {a} : apc'[b] = apc[b]
    BY <1>1 DEF AddAllAndPin
  <2> QED BY <1>p, <1>h, <2>1, <2>2, <2>3, LockStep
<1>2. CASE AddLocked(a) \/ NoPause(a) \/ AddFileNode(a) \/ PauseRoot(a) \/ AddNode(a)
           \/ AddFlush(a) \/ AddFail(a) \/ \E h \in awrite[a] : AddBlock(a, h)
  <2>1. UNCHANGED lockVars
    BY <1>2 DEF AddLocked, NoPause, AddFileNode, PauseRoot, AddNode, AddFlush, AddFail, AddBlock
  <2>2. AdderHolding(a)' => a \in readers
    <3>1. CASE AddLocked(a)
      BY <3>1 DEF AddLocked
    <3>2. CASE NoPause(a) \/ AddFileNode(a) \/ PauseRoot(a) \/ AddNode(a)
      BY <3>2, <1>h DEF NoPause, AddFileNode, PauseRoot, AddNode
    <3>3. CASE AddFlush(a) \/ AddFail(a) \/ \E h \in awrite[a] : AddBlock(a, h)
      BY <3>3, <1>h DEF AddFlush, AddFail, AddBlock
    <3> QED BY <1>2, <3>1, <3>2, <3>3
  <2>3. UNCHANGED <<rpins, dpins, filesRoot>> /\ store \subseteq store'
    BY <1>2 DEF AddLocked, NoPause, AddFileNode, PauseRoot, AddNode, AddFlush, AddFail, AddBlock
  <2>4. \A b \in Adders \ {a} : apc'[b] = apc[b]
    BY <1>2 DEF AddLocked, NoPause, AddFileNode, PauseRoot, AddNode, AddFlush, AddFail, AddBlock
  <2>5. LockKept(a)
    BY <1>p, <1>h, <2>1, LockStep
  <2>6. AdderHolding(a)' => a \in readers'
    BY <2>1, <2>2 DEF lockVars
  <2> QED BY <2>3, <2>4, <2>5, <2>6
<1>3. CASE PausePinRoot(a) \/ PinRoot(a)
  <2>1. AdderHolding(a) /\ UNCHANGED lockVars
    BY <1>3, <1>p DEF PausePinRoot, PinRoot, AdderInv, PinPhases
  <2>2. a \in readers /\ a \in readers'
    BY <2>1, <1>h DEF lockVars
  <2>3. store \subseteq store' /\ UNCHANGED filesRoot /\ \A b \in Adders \ {a} : apc'[b] = apc[b]
    BY <1>3 DEF PausePinRoot, PinRoot
  <2> QED BY <1>p, <1>h, <2>1, <2>2, <2>3, LockStep
<1>4. CASE PauseUnlock(a) \/ PauseRelock(a) \/ AddReturn(a)
  <2>1. PinLock(a) \/ PinUnlock(a)
    BY <1>4 DEF PauseUnlock, PauseRelock, AddReturn
  <2>2. ~AdderHolding(a)' /\ UNCHANGED dataVars /\ \A b \in Adders \ {a} : apc'[b] = apc[b]
    BY <1>4 DEF PauseUnlock, PauseRelock, AddReturn
  <2> QED BY <1>p, <1>h, <2>1, <2>2, LockStep
<1> QED
  BY <1>1, <1>2, <1>3, <1>4 DEF AdderStep

\* The same for a user's call.
LEMMA UserLockStep ==
  ASSUME TypeOK, PhaseInv, LockInv, NEW u \in Users,
         (\E r \in Requests : UserCall(u, r)) \/ UserStep(u)
  PROVE  /\ UserHolding(u)' => u \in readers'
         /\ LockKept(u)
         /\ \A v \in Users \ {u} : upc'[v] = upc[v] /\ ureq'[v] = ureq[v]
         /\ readers = {} => UNCHANGED <<rpins, dpins>>
         /\ store \subseteq store'
         /\ UNCHANGED filesRoot
<1> USE DEF TypeOK, UserTypeOK, UGoTo, UserHolding, dataVars
<1>p. u \in Procs /\ UserInv(u)
  BY ProcsAssumption DEF PhaseInv
<1>h. LockTypeOK /\ (UserHolding(u) => u \in readers)
  BY DEF LockInv
<1>1. ASSUME NEW r \in Requests, UserCall(u, r)
      PROVE  /\ UserHolding(u)' => u \in readers'
             /\ LockKept(u)
             /\ \A v \in Users \ {u} : upc'[v] = upc[v] /\ ureq'[v] = ureq[v]
             /\ UNCHANGED <<rpins, dpins, filesRoot>>
             /\ store \subseteq store'
  <2>1. PinLock(u) \/ UNCHANGED lockVars
    BY <1>1 DEF UserCall
  <2>2. ureq'[u] = r /\ (upc'[u] = "lock" \/ ~Locks(r))
    BY <1>1 DEF UserCall
  <2>3. ~UserHolding(u)'
    BY <2>2
  <2>4. UNCHANGED <<rpins, dpins, filesRoot>> /\ store \subseteq store'
    BY <1>1 DEF UserCall
  <2>5. \A v \in Users \ {u} : upc'[v] = upc[v] /\ ureq'[v] = ureq[v]
    BY <1>1 DEF UserCall
  <2>6. LockKept(u)
    BY <1>p, <1>h, <2>1, LockStep
  <2> QED BY <2>3, <2>4, <2>5, <2>6
<1>2. CASE UserLocked(u)
  <2>1. UNCHANGED lockVars /\ u \in readers
    BY <1>2 DEF UserLocked
  <2>2. /\ UNCHANGED <<rpins, dpins, filesRoot>> /\ store \subseteq store'
        /\ \A v \in Users \ {u} : upc'[v] = upc[v] /\ ureq'[v] = ureq[v]
    BY <1>2 DEF UserLocked
  <2> QED BY <1>p, <1>h, <2>1, <2>2, LockStep DEF lockVars
<1>3. CASE WritesDone(u) \/ FetchDone(u) \/ UserFail(u)
  <2>1. UNCHANGED lockVars /\ UNCHANGED dataVars
    BY <1>3 DEF WritesDone, FetchDone, UserFail
  <2>2. \A v \in Users \ {u} : upc'[v] = upc[v] /\ ureq'[v] = ureq[v]
    BY <1>3 DEF WritesDone, FetchDone, UserFail
  <2>3. UserHolding(u)' => UserHolding(u)
    <3>1. CASE WritesDone(u)
      BY <3>1 DEF WritesDone, Locks
    <3>2. CASE FetchDone(u)
      BY <3>2 DEF FetchDone
    <3>3. CASE UserFail(u)
      BY <3>3 DEF UserFail
    <3> QED BY <1>3, <3>1, <3>2, <3>3
  <2> QED BY <1>p, <1>h, <2>1, <2>2, <2>3, LockStep DEF lockVars
<1>4. ASSUME NEW c, WriteNode(u, c) \/ Fetch(u, c)
      PROVE  /\ UserHolding(u)' => u \in readers'
             /\ LockKept(u)
             /\ \A v \in Users \ {u} : upc'[v] = upc[v] /\ ureq'[v] = ureq[v]
             /\ UNCHANGED <<rpins, dpins, filesRoot>>
             /\ store \subseteq store'
  <2>1. UNCHANGED lockVars /\ UNCHANGED <<upc, ureq>>
    BY <1>4 DEF WriteNode, Fetch
  <2>2. UNCHANGED <<rpins, dpins, filesRoot>> /\ store \subseteq store'
    BY <1>4 DEF WriteNode, Fetch
  <2> QED BY <1>p, <1>h, <2>1, <2>2, LockStep DEF lockVars
<1>5. ASSUME PinDone(u) \/ \E c : PinWritten(u, c)
      PROVE  /\ UserHolding(u)' => u \in readers'
             /\ LockKept(u)
             /\ \A v \in Users \ {u} : upc'[v] = upc[v] /\ ureq'[v] = ureq[v]
             /\ readers # {}
             /\ UNCHANGED <<store, filesRoot>>
  <2>1. UserHolding(u) /\ UNCHANGED lockVars /\ UNCHANGED <<store, filesRoot>>
    BY <1>5, <1>p DEF PinDone, PinWritten, UserInv
  <2>2. \A v \in Users \ {u} : upc'[v] = upc[v] /\ ureq'[v] = ureq[v]
    BY <1>5 DEF PinDone, PinWritten
  <2> QED BY <1>p, <1>h, <2>1, <2>2, LockStep DEF lockVars
<1>6. CASE UserReturn(u)
  <2>1. PinUnlock(u) /\ upc'[u] = "idle" /\ UNCHANGED dataVars
    BY <1>6 DEF UserReturn
  <2>2. \A v \in Users \ {u} : upc'[v] = upc[v] /\ ureq'[v] = ureq[v]
    BY <1>6 DEF UserReturn
  <2> QED BY <1>p, <1>h, <2>1, <2>2, LockStep
<1> QED
  BY <1>1, <1>2, <1>3, <1>4, <1>5, <1>6 DEF UserStep

\* The same for a removal: it changes no pin, and deletes only as the owner of
\* the GC lock.
LEMMA RmLockStep ==
  ASSUME TypeOK, LockInv, NEW r \in Removers,
         (\E cids \in RmArgs : RmBlocks(r, cids)) \/ RmStep(r)
  PROVE  /\ RmHolding(r)' => writer' = r /\ r \notin gcreq'
         /\ LockKept(r)
         /\ \A q \in Removers \ {r} : rmpc'[q] = rmpc[q] /\ stillOkay'[q] = stillOkay[q]
         /\ UNCHANGED <<rpins, dpins>>
         /\ ~RmHolding(r) => UNCHANGED store
         /\ UNCHANGED filesRoot
<1> USE DEF TypeOK, RmTypeOK, RGoTo, RmHolding, dataVars
<1>p. r \in Procs
  BY ProcsAssumption
<1>h. LockTypeOK /\ (RmHolding(r) => writer = r /\ r \notin gcreq)
  BY DEF LockInv
<1>1. CASE \E cids \in RmArgs : RmBlocks(r, cids)
  <2>1. /\ GCLockRequest(r) /\ UNCHANGED dataVars /\ rmpc'[r] = "lock"
        /\ \A q \in Removers \ {r} : rmpc'[q] = rmpc[q] /\ stillOkay'[q] = stillOkay[q]
    BY <1>1 DEF RmBlocks
  <2> QED BY <1>p, <1>h, <2>1, LockStep
<1>2. CASE RmLocked(r)
  <2>1. /\ GCLockAcquire(r) /\ UNCHANGED dataVars
        /\ \A q \in Removers \ {r} : rmpc'[q] = rmpc[q] /\ stillOkay'[q] = stillOkay[q]
    BY <1>2 DEF RmLocked
  <2>2. writer' = r /\ r \notin gcreq'
    BY <2>1 DEF GCLockAcquire
  <2> QED BY <1>p, <1>h, <2>1, <2>2, LockStep
<1>3. CASE FilterPinned(r) \/ DeletesDone(r) \/ \E c \in stillOkay[r] : DeleteBlock(r, c)
  <2>1. RmHolding(r) /\ UNCHANGED lockVars /\ UNCHANGED <<rpins, dpins, filesRoot>>
    BY <1>3 DEF FilterPinned, DeletesDone, DeleteBlock
  <2>2. \A q \in Removers \ {r} : rmpc'[q] = rmpc[q] /\ stillOkay'[q] = stillOkay[q]
    BY <1>3 DEF FilterPinned, DeletesDone, DeleteBlock
  <2> QED BY <1>p, <1>h, <2>1, <2>2, LockStep DEF lockVars
<1>4. CASE RmReturn(r)
  <2>1. /\ writer = r /\ r \notin gcreq /\ GCUnlock(r) /\ rmpc'[r] = "idle"
        /\ UNCHANGED dataVars
        /\ \A q \in Removers \ {r} : rmpc'[q] = rmpc[q] /\ stillOkay'[q] = stillOkay[q]
    BY <1>4, <1>h DEF RmReturn
  <2> QED BY <1>p, <1>h, <2>1, LockStep
<1> QED
  BY <1>1, <1>2, <1>3, <1>4 DEF RmStep

-----------------------------------------------------------------------------
(***************************************************************************)
(* The marked set.                                                         *)
(***************************************************************************)

\* The strict walk: as long as it met no error, every recursive root is in
\* the frontier or marked, and so is every link of a marked node; marked
\* nodes are in the store.
WalkInv(g) ==
  /\ \A c \in rpins : c \in gtodo[g] \/ Seen(g, c)
  /\ \A s \in gcs[g] : Present(s) /\ \A l \in Links[s] : l \in gtodo[g] \/ Seen(g, l)

\* After it: what is below a recursive root is present and marked.
PinsMarked(g) == \A c \in rpins : Complete(c) /\ \A d \in Reach[c] : Seen(g, d)

MarkInv(g) ==
  /\ gpc[g] \in {"idle", "call", "lock"} => gcs[g] = {} /\ ~gerrors[g]
  /\ gpc[g] = "recursive" => gcs[g] \subseteq Cids
  /\ gpc[g] = "recursive" /\ ~gerrors[g] => WalkInv(g)
  /\ gpc[g] \in {"bestEffort", "direct"} /\ ~gerrors[g] => PinsMarked(g)
  /\ gpc[g] = "direct" /\ ~gerrors[g] => \A d \in dpins : Seen(g, d)
  /\ gpc[g] = "sweep" => /\ \A c \in rpins : Complete(c)
                         /\ \A d \in PinnedCids : RawCid(d.hash) \in gcs[g]

\* Steps that leave the collection, and under its lock the pins, alone and
\* delete nothing keep its invariant.
LEMMA MarkFrame ==
  ASSUME NEW g \in Collectors, MarkInv(g), SameCollection(g),
         GCHolding(g) => UNCHANGED <<rpins, dpins>> /\ store \subseteq store'
  PROVE  MarkInv(g)'
<1>1. CASE ~GCHolding(g)
  BY <1>1 DEF MarkInv, SameCollection, GCHolding, WalkPhases
<1>2. CASE GCHolding(g)
  <2>1. rpins' = rpins /\ dpins' = dpins /\ store \subseteq store'
    BY <1>2
  <2>2. WalkInv(g) => WalkInv(g)'
    BY <2>1 DEF WalkInv, SameCollection, Seen, Present
  <2>3. \A c \in rpins : Complete(c) => Complete(c)'
    BY <2>1 DEF Complete
  <2>4. PinsMarked(g) => PinsMarked(g)'
    BY <2>1, <2>3 DEF PinsMarked, SameCollection, Seen
  <2>5. PinnedCids' = PinnedCids
    BY <2>1 DEF PinnedCids
  <2>6. (\A d \in dpins : Seen(g, d)) => (\A d \in dpins : Seen(g, d))'
    BY <2>1 DEF SameCollection, Seen
  <2> QED BY <2>1, <2>2, <2>3, <2>4, <2>5, <2>6 DEF MarkInv, SameCollection
<1> QED BY <1>1, <1>2

\* When the strict walk has run out of frontier without an error, the marked
\* set is closed under links, so it covers everything below every root.
LEMMA WalkCloses ==
  ASSUME TypeOK, NEW g \in Collectors, gcs[g] \subseteq Cids, WalkInv(g), gtodo[g] = {}
  PROVE  PinsMarked(g)
<1> DEFINE S == {c \in Cids : toCidV1(c) \in gcs[g]}
<1>1. S \in SUBSET Cids
  OBVIOUS
<1>2. LinkClosed(S)
  <2>1. SUFFICES ASSUME NEW c \in S, NEW l \in Links[c]
                 PROVE  l \in S
    BY DEF LinkClosed
  <2>2. c \in Cids /\ l \in Cids /\ l \in Links[toCidV1(c)]
    BY ToCidV1
  <2>3. Seen(g, l)
    BY <2>2 DEF WalkInv
  <2> QED BY <2>2, <2>3 DEF Seen
<1>3. ASSUME NEW c \in rpins
      PROVE  Complete(c) /\ \A d \in Reach[c] : Seen(g, d)
  <2>1. c \in Cids /\ c \in S
    BY <1>3 DEF TypeOK, DataTypeOK, WalkInv, Seen
  <2>2. Reach[c] \subseteq S
    BY <1>1, <1>2, <2>1, ReachLeast
  <2>3. \A d \in Reach[c] : Seen(g, d)
    BY <2>2 DEF Seen
  <2>4. \A d \in S : d.hash \in store
    <3>1. SUFFICES ASSUME NEW d \in S PROVE d.hash \in store
      OBVIOUS
    <3>2. toCidV1(d).hash = d.hash
      BY ToCidV1
    <3>3. Present(toCidV1(d))
      BY DEF WalkInv
    <3> QED BY <3>2, <3>3 DEF Present
  <2>5. Complete(c)
    BY <2>2, <2>4 DEF Complete, HashesOf
  <2> QED BY <2>3, <2>5
<1> QED BY <1>3 DEF PinsMarked

\* One node of the strict walk keeps the tri-colour invariant.
LEMMA VisitKeepsWalk ==
  ASSUME TypeOK, NEW g \in Collectors, NEW c \in gtodo[g], Visit(g, c),
         gpc[g] = "recursive", gcs[g] \subseteq Cids, ~gerrors'[g],
         ~gerrors[g] => WalkInv(g)
  PROVE  gcs'[g] \subseteq Cids /\ WalkInv(g)'
<1> USE DEF TypeOK, GCTypeOK, DataTypeOK
<1>1. c \in Cids /\ toCidV1(c) \in Cids
  BY ToCidV1
<1>2. /\ gcs'[g] = gcs[g] \cup {toCidV1(c)}
      /\ gtodo'[g] = (gtodo[g] \ {c}) \cup (IF ~Seen(g, c) /\ Present(c) THEN Links[c] ELSE {})
      /\ rpins' = rpins /\ store' = store
  BY DEF Visit, dataVars
<1>3. ~gerrors[g] /\ (Seen(g, c) \/ Present(c))
  <2>1. gerrors'[g] = (gerrors[g] \/ (gpc[g] = "recursive" /\ ~Seen(g, c) /\ ~Present(c)))
    BY Zenon DEF Visit
  <2> QED BY <2>1
<1>4. WalkInv(g)
  BY <1>3
<1>5. \A d \in Cids : d \in gtodo[g] \/ Seen(g, d) => d \in gtodo'[g] \/ Seen(g, d)'
  BY <1>2 DEF Seen
<1>6. \A d \in rpins' : d \in gtodo'[g] \/ Seen(g, d)'
  BY <1>2, <1>4, <1>5 DEF WalkInv
<1>7. ASSUME NEW s \in gcs[g]
      PROVE  Present(s)' /\ \A l \in Links[s] : l \in gtodo'[g] \/ Seen(g, l)'
  <2>1. s \in Cids /\ Links[s] \subseteq Cids
    BY ToCidV1
  <2>2. Present(s) /\ \A l \in Links[s] : l \in gtodo[g] \/ Seen(g, l)
    BY <1>4 DEF WalkInv
  <2>3. Present(s)'
    BY <2>2, <1>2 DEF Present
  <2> QED BY <2>1, <2>2, <2>3, <1>5
<1>8. CASE Seen(g, c)
  <2>1. gcs'[g] = gcs[g]
    BY <1>2, <1>8 DEF Seen
  <2> QED BY <1>6, <1>7, <2>1 DEF WalkInv
<1>9. CASE ~Seen(g, c)
  <2>1. Present(c) /\ Links[c] \subseteq gtodo'[g]
    BY <1>2, <1>3, <1>9
  <2>2. Present(toCidV1(c))'
    BY <2>1, <1>1, <1>2, ToCidV1 DEF Present
  <2>3. Links[toCidV1(c)] = Links[c]
    BY <1>1, ToCidV1
  <2>4. \A s \in gcs'[g] : Present(s)' /\ \A l \in Links[s] : l \in gtodo'[g] \/ Seen(g, l)'
    BY <1>2, <1>7, <2>1, <2>2, <2>3
  <2> QED BY <1>1, <1>2, <1>6, <2>4 DEF WalkInv
<1> QED BY <1>8, <1>9

\* Marking more nodes keeps what was marked.
LEMMA MarkMore ==
  ASSUME NEW g \in Collectors, PinsMarked(g), rpins' = rpins, store' = store,
         gcs[g] \subseteq gcs'[g]
  PROVE  PinsMarked(g)'
  BY DEF PinsMarked, Complete, Seen

\* A collection's own step keeps its invariant.
LEMMA MarkStep ==
  ASSUME TypeOK, NEW g \in Collectors, MarkInv(g), BestEffortRoots(g) \/ GCStep(g)
  PROVE  MarkInv(g)'
<1> USE DEF TypeOK, GCTypeOK, DataTypeOK, GoTo, WalkPhases, dataVars
<1>1. CASE BestEffortRoots(g) \/ GCCall(g)
  BY <1>1 DEF BestEffortRoots, GCCall, MarkInv
<1>2. CASE GCLocked(g)
  <2>1. /\ gpc'[g] = "recursive" /\ gcs'[g] = {} /\ gtodo'[g] = rpins
        /\ rpins' = rpins
    BY <1>2 DEF GCLocked, MarkInv
  <2> QED BY <2>1 DEF MarkInv, WalkInv
<1>3. ASSUME NEW c \in gtodo[g], Visit(g, c)
      PROVE  MarkInv(g)'
  <2>1. c \in Cids /\ toCidV1(c) \in Cids
    BY ToCidV1
  <2>2. /\ gpc'[g] = gpc[g] /\ gpc[g] \in WalkPhases
        /\ gcs'[g] = gcs[g] \cup {toCidV1(c)}
        /\ rpins' = rpins /\ store' = store
    BY <1>3 DEF Visit
  <2>3. gerrors'[g] = (gerrors[g] \/ (gpc[g] = "recursive" /\ ~Seen(g, c) /\ ~Present(c)))
    BY <1>3, Zenon DEF Visit
  <2>4. CASE gpc[g] = "recursive"
    <3>1. gcs[g] \subseteq Cids /\ (~gerrors[g] => WalkInv(g))
      BY <2>4 DEF MarkInv
    <3>2. ~gerrors'[g] => WalkInv(g)'
      BY <1>3, <2>4, <3>1, VisitKeepsWalk
    <3>3. gcs'[g] \subseteq Cids
      BY <2>1, <2>2, <3>1
    <3> QED BY <2>2, <2>4, <3>2, <3>3 DEF MarkInv
  <2>5. CASE gpc[g] = "bestEffort"
    <3>1. ~gerrors'[g] => ~gerrors[g]
      BY <2>3
    <3>2. ~gerrors[g] => PinsMarked(g)
      BY <2>5 DEF MarkInv
    <3>3. ~gerrors'[g] => PinsMarked(g)'
      BY <2>2, <3>1, <3>2, MarkMore
    <3> QED BY <2>2, <2>5, <3>3 DEF MarkInv
  <2> QED BY <2>2, <2>4, <2>5
<1>4. ASSUME NEW c \in gtodo[g], LinkError(g, c)
      PROVE  MarkInv(g)'
  <2>1. toCidV1(c) \in Cids
    BY ToCidV1
  <2>2. /\ gerrors'[g] /\ gpc'[g] = gpc[g] /\ gpc[g] \in WalkPhases
        /\ gcs'[g] = gcs[g] \cup {toCidV1(c)}
    BY <1>4 DEF LinkError
  <2> QED BY <2>1, <2>2 DEF MarkInv
<1>5. CASE WalkError(g)
  <2>1. gerrors'[g] /\ gpc'[g] = gpc[g] /\ gpc[g] \in WalkPhases /\ gcs'[g] = gcs[g]
    BY <1>5 DEF WalkError
  <2> QED BY <2>1 DEF MarkInv
<1>6. CASE StartBestEffort(g)
  <2>1. /\ gpc[g] = "recursive" /\ gtodo[g] = {} /\ gpc'[g] = "bestEffort"
        /\ gcs' = gcs /\ gerrors' = gerrors /\ rpins' = rpins /\ store' = store
    BY <1>6 DEF StartBestEffort
  <2>2. ~gerrors[g] => PinsMarked(g)
    BY <2>1, WalkCloses DEF MarkInv
  <2>3. ~gerrors'[g] => PinsMarked(g)'
    BY <2>1, <2>2, MarkMore
  <2> QED BY <2>1, <2>3 DEF MarkInv
<1>7. CASE MarkDirect(g)
  <2>1. /\ gpc[g] = "bestEffort" /\ gpc'[g] = "direct"
        /\ gcs'[g] = gcs[g] \cup {toCidV1(c) : c \in dpins}
        /\ gerrors' = gerrors /\ rpins' = rpins /\ dpins' = dpins /\ store' = store
    BY <1>7 DEF MarkDirect
  <2>2. ~gerrors'[g] => PinsMarked(g)'
    BY <2>1, MarkMore DEF MarkInv
  <2>3. \A d \in dpins' : Seen(g, d)'
    BY <2>1 DEF Seen
  <2> QED BY <2>1, <2>2, <2>3 DEF MarkInv
<1>8. CASE StartSweep(g)
  <2>1. /\ gpc[g] = "direct" /\ ~gerrors[g] /\ gpc'[g] = "sweep"
        /\ gcs'[g] = toRawCids(gcs[g]) /\ rpins' = rpins /\ dpins' = dpins /\ store' = store
    BY <1>8 DEF StartSweep
  <2>2. PinsMarked(g) /\ \A d \in dpins : Seen(g, d)
    BY <2>1 DEF MarkInv
  <2>3. \A d \in PinnedCids : d \in Cids /\ Seen(g, d)
    BY <2>2, ReachType DEF PinnedCids, PinsMarked
  <2>4. ASSUME NEW d \in PinnedCids
        PROVE  RawCid(d.hash) \in gcs'[g]
    <3>1. toCidV1(d) \in gcs[g] /\ toCidV1(d).hash = d.hash
      BY <2>3, ToCidV1 DEF Seen
    <3> QED BY <2>1, <3>1 DEF toRawCids
  <2>5. PinnedCids' = PinnedCids
    BY <2>1 DEF PinnedCids
  <2>6. \A c \in rpins' : Complete(c)'
    BY <2>1, <2>2 DEF PinsMarked, Complete
  <2> QED BY <2>1, <2>4, <2>5, <2>6 DEF MarkInv
<1>9. CASE AbortMark(g) \/ SweepDone(g) \/ GCCancel(g)
  BY <1>9 DEF AbortMark, SweepDone, GCCancel, MarkInv
<1>10. ASSUME NEW h \in keychan[g] \cup store, Sweep(g, h)
       PROVE  MarkInv(g)'
  <2>1. /\ gpc[g] = "sweep" /\ gpc' = gpc /\ gcs' = gcs /\ rpins' = rpins /\ dpins' = dpins
        /\ store' = store \/ (RawCid(h) \notin gcs[g] /\ store' = store \ {h})
    BY <1>10 DEF Sweep
  <2>2. PinnedCids' = PinnedCids
    BY <2>1 DEF PinnedCids
  <2>3. \A d \in PinnedCids : RawCid(d.hash) \in gcs[g]
    BY <2>1 DEF MarkInv
  <2>4. ASSUME NEW c \in rpins
        PROVE  Complete(c)'
    <3>1. Complete(c)
      BY <2>1 DEF MarkInv
    <3>2. \A d \in Reach[c] : RawCid(d.hash) \in gcs[g]
      BY <2>3 DEF PinnedCids
    <3> QED BY <2>1, <3>1, <3>2 DEF Complete, HashesOf
  <2> QED BY <2>1, <2>2, <2>3, <2>4 DEF MarkInv
<1>11. CASE GCReturn(g)
  BY <1>11 DEF GCReturn, MarkInv
<1> QED
  BY <1>1, <1>2, <1>3, <1>4, <1>5, <1>6, <1>7, <1>8, <1>9, <1>10, <1>11 DEF GCStep

-----------------------------------------------------------------------------
(***************************************************************************)
(* The inductive invariant.                                                *)
(***************************************************************************)

\* Nothing a removal still has to delete is pinned.
FilterInv == \A r \in Removers : rmpc[r] = "delete" => stillOkay[r] \cap PinnedCids = {}

IInv ==
  /\ TypeOK
  /\ PhaseInv
  /\ LockInv
  /\ \A g \in Collectors : MarkInv(g)
  /\ FilterInv

\* It holds in the initial states.
LEMMA InitIInv == Init => IInv
<1> SUFFICES ASSUME Init PROVE IInv
  OBVIOUS
<1> USE DEF Init
<1>1. TypeOK
  <2>1. DataTypeOK /\ LockTypeOK
    BY InitAssumption DEF DataInit, DataTypeOK, LockInit, LockTypeOK
  <2>2. GCTypeOK /\ RmTypeOK
    BY DEF GCInit, GCTypeOK, GCPhases, WalkPhases, RmInit, RmTypeOK, RmPhases
  <2>3. AdderTypeOK /\ UserTypeOK /\ FilesTypeOK
    BY InitAssumption DEF AdderInit, AdderTypeOK, AdderPhases, UserInit, UserTypeOK,
       UserPhases, FilesInit, FilesTypeOK, FilesPhases
  <2> QED BY <2>1, <2>2, <2>3 DEF TypeOK
<1>2. PhaseInv
  <2>1. ASSUME NEW a \in Adders PROVE AdderInv(a)
    <3>1. Len(Files[a]) \in Nat /\ (a \in AddsDirectory \/ Len(Files[a]) = 1)
      BY AdderAssumption
    <3>2. apc[a] = "idle" /\ indir[a] = FALSE /\ added[a] = 0
      BY DEF AdderInit
    <3> QED BY SMTT(20), <3>1, <3>2 DEF AdderInv, PinPhases
  <2> QED BY <2>1 DEF PhaseInv, UserInit, UserInv
<1>3. LockInv
  BY DEF LockInit, LockInv, GCInit, GCHolding, WalkPhases, RmInit, RmHolding, AdderInit,
         AdderHolding, UserInit, UserHolding
<1>4. \A g \in Collectors : MarkInv(g)
  BY DEF GCInit, MarkInv
<1>5. FilterInv
  BY DEF RmInit, FilterInv
<1> QED BY <1>1, <1>2, <1>3, <1>4, <1>5 DEF IInv

\* Under the GC lock of p, the steps of adders, users and MFS commands leave
\* the pins alone and delete nothing; other collections and removals do not
\* touch the data at all.
LEMMA OwnerAlone ==
  ASSUME LockInv, NEW p \in Writers, writer = p, p \notin gcreq
  PROVE  /\ readers = {}
         /\ \A g \in Collectors : g # p => ~GCHolding(g)
         /\ \A r \in Removers : r # p => ~RmHolding(r)
  BY ProcsAssumption DEF LockInv, Writers

\* Steps that change neither the pins nor the removers keep FilterInv.
LEMMA FilterFrame ==
  ASSUME LockInv, FilterInv, UNCHANGED rmVars,
         readers = {} => UNCHANGED <<rpins, dpins>>
  PROVE  FilterInv'
<1>1. SUFFICES ASSUME NEW r \in Removers, rmpc[r] = "delete"
               PROVE  PinnedCids' = PinnedCids
  BY DEF FilterInv, rmVars
<1>2. writer = r /\ r \notin gcreq
  BY <1>1 DEF LockInv, RmHolding
<1>3. readers = {}
  BY <1>2, OwnerAlone DEF Writers
<1> QED BY <1>3 DEF PinnedCids

\* It is preserved by every step.
LEMMA NextIInv == IInv /\ [Next]_vars => IInv'
<1> SUFFICES ASSUME IInv, [Next]_vars PROVE IInv'
  OBVIOUS
<1>t. TypeOK /\ PhaseInv /\ LockInv /\ FilterInv /\ \A g \in Collectors : MarkInv(g)
  BY DEF IInv
<1>s. LockTypeOK
  BY <1>t DEF TypeOK
<1>1. ASSUME NEW p \in Writers, Announce(p)
      PROVE  IInv'
  <2>1. /\ GCLockAnnounce(p)
        /\ UNCHANGED dataVars /\ UNCHANGED gcVars /\ UNCHANGED adderVars
        /\ UNCHANGED userVars /\ UNCHANGED rmVars /\ UNCHANGED filesVars
    BY <1>1 DEF Announce
  <2>2. p \in Procs
    BY ProcsAssumption DEF Writers
  <2>3. TypeOK'
    <3>1. LockTypeOK'
      BY <1>s, <2>1, <2>2, LockTypes
    <3> QED BY <1>t, <2>1, <3>1 DEF TypeOK, DataTypeOK, GCTypeOK, AdderTypeOK, UserTypeOK,
              RmTypeOK, FilesTypeOK, dataVars, gcVars, adderVars, userVars, rmVars, filesVars
  <2>4. PhaseInv'
    BY <1>t, <2>1 DEF PhaseInv, AdderInv, UserInv, adderVars, userVars
  <2>5. LockKept(p) /\ writer = None
    BY <1>t, <1>s, <2>1, <2>2, LockStep DEF GCLockAnnounce
  <2>6. LockInv'
    <3>1. readers' = readers
      BY <2>1 DEF GCLockAnnounce
    <3>2. \A q \in Writers : ~(writer = q)
      BY <2>5, ProcsAssumption DEF Writers
    <3> QED BY <1>t, <2>1, <2>5, <3>1, <3>2
        DEF LockInv, LockKept, Writers, GCHolding, RmHolding, AdderHolding, UserHolding,
            gcVars, adderVars, userVars, rmVars
  <2>7. \A g \in Collectors : MarkInv(g)'
    BY <1>t, <2>1, MarkFrame DEF SameCollection, gcVars, dataVars
  <2>8. FilterInv'
    BY <1>t, <2>1, FilterFrame DEF dataVars
  <2> QED BY <2>3, <2>4, <2>6, <2>7, <2>8 DEF IInv
<1>2. ASSUME NEW g \in Collectors, BestEffortRoots(g) \/ GCStep(g),
             UNCHANGED <<adderVars, userVars, rmVars, filesVars>>
      PROVE  IInv'
  <2>1. /\ UNCHANGED adderVars /\ UNCHANGED userVars
        /\ UNCHANGED rmVars /\ UNCHANGED filesVars
    BY <1>2
  <2>2. TypeOK'
    <3>1. GCTypeOK' /\ DataTypeOK' /\ LockTypeOK'
      BY <1>t, <1>2, GCTypes
    <3> QED BY <1>t, <2>1, <3>1 DEF TypeOK, AdderTypeOK, UserTypeOK, RmTypeOK, FilesTypeOK,
              adderVars, userVars, rmVars, filesVars
  <2>3. PhaseInv'
    BY <1>t, <2>1 DEF PhaseInv, AdderInv, UserInv, adderVars, userVars
  <2>4. /\ GCHolding(g)' => writer' = g /\ g \notin gcreq'
        /\ LockKept(g)
        /\ \A k \in Collectors \ {g} : SameCollection(k)
        /\ UNCHANGED <<rpins, dpins>>
        /\ ~GCHolding(g) => UNCHANGED store
    BY <1>t, <1>2, GCLockStep
  <2>5. LockInv'
    <3>1. /\ Adders \subseteq Procs \ {g} /\ Users \subseteq Procs \ {g}
          /\ Removers \subseteq Procs \ {g} /\ Collectors \subseteq Procs
      BY ProcsAssumption
    <3>2. \A k \in Collectors : GCHolding(k)' => writer' = k /\ k \notin gcreq'
      BY <1>t, <2>4, <3>1 DEF LockInv, LockKept, SameCollection, GCHolding
    <3>3. \A r \in Removers : RmHolding(r)' => writer' = r /\ r \notin gcreq'
      BY <1>t, <2>1, <2>4, <3>1 DEF LockInv, LockKept, RmHolding, rmVars
    <3>4. \A a \in Adders : AdderHolding(a)' => a \in readers'
      BY <1>t, <2>1, <2>4, <3>1 DEF LockInv, LockKept, AdderHolding, adderVars
    <3>5. \A u \in Users : UserHolding(u)' => u \in readers'
      BY <1>t, <2>1, <2>4, <3>1 DEF LockInv, LockKept, UserHolding, userVars
    <3> QED BY <2>4, <3>2, <3>3, <3>4, <3>5 DEF LockInv, LockKept
  <2>6. ASSUME NEW k \in Collectors
        PROVE  MarkInv(k)'
    <3>1. CASE k = g
      BY <1>t, <1>2, <3>1, MarkStep
    <3>2. CASE k # g
      <4>1. GCHolding(k) => ~GCHolding(g)
        BY <1>t, <3>2 DEF LockInv
      <4>2. GCHolding(k) => UNCHANGED <<rpins, dpins>> /\ store \subseteq store'
        BY <2>4, <4>1
      <4> QED BY <1>t, <2>4, <3>2, <4>2, MarkFrame
    <3> QED BY <3>1, <3>2
  <2>7. FilterInv'
    BY <1>t, <2>1, <2>4, FilterFrame
  <2> QED BY <2>2, <2>3, <2>5, <2>6, <2>7 DEF IInv
<1>3. ASSUME NEW a \in Adders, AddAllAndPin(a) \/ AdderStep(a),
             UNCHANGED <<gcVars, userVars, rmVars, filesVars>>
      PROVE  IInv'
  <2>1. /\ UNCHANGED gcVars /\ UNCHANGED userVars
        /\ UNCHANGED rmVars /\ UNCHANGED filesVars
    BY <1>3
  <2>2. TypeOK'
    <3>1. AdderTypeOK' /\ DataTypeOK' /\ LockTypeOK'
      BY <1>t, <1>3, AdderTypes
    <3> QED BY <1>t, <2>1, <3>1 DEF TypeOK, GCTypeOK, UserTypeOK, RmTypeOK, FilesTypeOK,
              gcVars, userVars, rmVars, filesVars
  <2>3. PhaseInv'
    <3>1. \A b \in Adders : AdderInv(b)'
      BY <1>t, <1>3, AdderPhaseStep
    <3> QED BY <1>t, <2>1, <3>1 DEF PhaseInv, UserInv, userVars
  <2>4. /\ AdderHolding(a)' => a \in readers'
        /\ LockKept(a)
        /\ \A b \in Adders \ {a} : apc'[b] = apc[b]
        /\ readers = {} => UNCHANGED <<rpins, dpins>>
        /\ store \subseteq store'
    BY <1>t, <1>3, AdderLockStep
  <2>5. LockInv'
    <3>1. /\ Collectors \subseteq Procs \ {a} /\ Users \subseteq Procs \ {a}
          /\ Removers \subseteq Procs \ {a} /\ Adders \subseteq Procs
      BY ProcsAssumption
    <3>2. \A k \in Collectors : GCHolding(k)' => writer' = k /\ k \notin gcreq'
      BY <1>t, <2>1, <2>4, <3>1 DEF LockInv, LockKept, GCHolding, gcVars
    <3>3. \A r \in Removers : RmHolding(r)' => writer' = r /\ r \notin gcreq'
      BY <1>t, <2>1, <2>4, <3>1 DEF LockInv, LockKept, RmHolding, rmVars
    <3>4. \A b \in Adders : AdderHolding(b)' => b \in readers'
      BY <1>t, <2>4, <3>1 DEF LockInv, LockKept, AdderHolding
    <3>5. \A u \in Users : UserHolding(u)' => u \in readers'
      BY <1>t, <2>1, <2>4, <3>1 DEF LockInv, LockKept, UserHolding, userVars
    <3> QED BY <2>4, <3>2, <3>3, <3>4, <3>5 DEF LockInv, LockKept
  <2>6. ASSUME NEW g \in Collectors
        PROVE  MarkInv(g)'
    <3>1. GCHolding(g) => readers = {}
      BY <1>t, OwnerAlone DEF LockInv, Writers
    <3>2. SameCollection(g)
      BY <2>1 DEF SameCollection, gcVars
    <3> QED BY <1>t, <2>4, <3>1, <3>2, MarkFrame
  <2>7. FilterInv'
    BY <1>t, <2>1, <2>4, FilterFrame
  <2> QED BY <2>2, <2>3, <2>5, <2>6, <2>7 DEF IInv
<1>4. ASSUME NEW u \in Users, (\E r \in Requests : UserCall(u, r)) \/ UserStep(u),
             UNCHANGED <<gcVars, adderVars, rmVars, filesVars>>
      PROVE  IInv'
  <2>1. /\ UNCHANGED gcVars /\ UNCHANGED adderVars
        /\ UNCHANGED rmVars /\ UNCHANGED filesVars
    BY <1>4
  <2>2. TypeOK'
    <3>1. UserTypeOK' /\ DataTypeOK' /\ LockTypeOK'
      BY <1>t, <1>4, UserTypes
    <3> QED BY <1>t, <2>1, <3>1 DEF TypeOK, GCTypeOK, AdderTypeOK, RmTypeOK, FilesTypeOK,
              gcVars, adderVars, rmVars, filesVars
  <2>3. PhaseInv'
    <3>1. \A v \in Users : UserInv(v)'
      BY <1>t, <1>4, UserPhaseStep
    <3> QED BY <1>t, <2>1, <3>1 DEF PhaseInv, AdderInv, adderVars
  <2>4. /\ UserHolding(u)' => u \in readers'
        /\ LockKept(u)
        /\ \A v \in Users \ {u} : upc'[v] = upc[v] /\ ureq'[v] = ureq[v]
        /\ readers = {} => UNCHANGED <<rpins, dpins>>
        /\ store \subseteq store'
    BY <1>t, <1>4, UserLockStep
  <2>5. LockInv'
    <3>1. /\ Collectors \subseteq Procs \ {u} /\ Adders \subseteq Procs \ {u}
          /\ Removers \subseteq Procs \ {u} /\ Users \subseteq Procs
      BY ProcsAssumption
    <3>2. \A k \in Collectors : GCHolding(k)' => writer' = k /\ k \notin gcreq'
      BY <1>t, <2>1, <2>4, <3>1 DEF LockInv, LockKept, GCHolding, gcVars
    <3>3. \A r \in Removers : RmHolding(r)' => writer' = r /\ r \notin gcreq'
      BY <1>t, <2>1, <2>4, <3>1 DEF LockInv, LockKept, RmHolding, rmVars
    <3>4. \A b \in Adders : AdderHolding(b)' => b \in readers'
      BY <1>t, <2>1, <2>4, <3>1 DEF LockInv, LockKept, AdderHolding, adderVars
    <3>5. \A v \in Users : UserHolding(v)' => v \in readers'
      BY <1>t, <2>4, <3>1 DEF LockInv, LockKept, UserHolding
    <3> QED BY <2>4, <3>2, <3>3, <3>4, <3>5 DEF LockInv, LockKept
  <2>6. ASSUME NEW g \in Collectors
        PROVE  MarkInv(g)'
    <3>1. GCHolding(g) => readers = {}
      BY <1>t, OwnerAlone DEF LockInv, Writers
    <3>2. SameCollection(g)
      BY <2>1 DEF SameCollection, gcVars
    <3> QED BY <1>t, <2>4, <3>1, <3>2, MarkFrame
  <2>7. FilterInv'
    BY <1>t, <2>1, <2>4, FilterFrame
  <2> QED BY <2>2, <2>3, <2>5, <2>6, <2>7 DEF IInv
<1>5. ASSUME NEW r \in Removers, (\E cids \in RmArgs : RmBlocks(r, cids)) \/ RmStep(r),
             UNCHANGED <<gcVars, adderVars, userVars, filesVars>>
      PROVE  IInv'
  <2>1. /\ UNCHANGED gcVars /\ UNCHANGED adderVars
        /\ UNCHANGED userVars /\ UNCHANGED filesVars
    BY <1>5
  <2>2. TypeOK'
    <3>1. RmTypeOK' /\ DataTypeOK' /\ LockTypeOK'
      BY <1>t, <1>5, RmTypes
    <3> QED BY <1>t, <2>1, <3>1 DEF TypeOK, GCTypeOK, AdderTypeOK, UserTypeOK, FilesTypeOK,
              gcVars, adderVars, userVars, filesVars
  <2>3. PhaseInv'
    BY <1>t, <2>1 DEF PhaseInv, AdderInv, UserInv, adderVars, userVars
  <2>4. /\ RmHolding(r)' => writer' = r /\ r \notin gcreq'
        /\ LockKept(r)
        /\ \A q \in Removers \ {r} : rmpc'[q] = rmpc[q] /\ stillOkay'[q] = stillOkay[q]
        /\ UNCHANGED <<rpins, dpins>>
        /\ ~RmHolding(r) => UNCHANGED store
    BY <1>t, <1>5, RmLockStep
  <2>5. LockInv'
    <3>1. /\ Adders \subseteq Procs \ {r} /\ Users \subseteq Procs \ {r}
          /\ Collectors \subseteq Procs \ {r} /\ Removers \subseteq Procs
      BY ProcsAssumption
    <3>2. \A k \in Collectors : GCHolding(k)' => writer' = k /\ k \notin gcreq'
      BY <1>t, <2>1, <2>4, <3>1 DEF LockInv, LockKept, GCHolding, gcVars
    <3>3. \A q \in Removers : RmHolding(q)' => writer' = q /\ q \notin gcreq'
      BY <1>t, <2>4, <3>1 DEF LockInv, LockKept, RmHolding
    <3>4. \A a \in Adders : AdderHolding(a)' => a \in readers'
      BY <1>t, <2>1, <2>4, <3>1 DEF LockInv, LockKept, AdderHolding, adderVars
    <3>5. \A u \in Users : UserHolding(u)' => u \in readers'
      BY <1>t, <2>1, <2>4, <3>1 DEF LockInv, LockKept, UserHolding, userVars
    <3> QED BY <2>4, <3>2, <3>3, <3>4, <3>5 DEF LockInv, LockKept
  <2>6. ASSUME NEW g \in Collectors
        PROVE  MarkInv(g)'
    <3>1. GCHolding(g) => ~RmHolding(r)
      BY <1>t, ProcsAssumption DEF LockInv
    <3>2. SameCollection(g)
      BY <2>1 DEF SameCollection, gcVars
    <3> QED BY <1>t, <2>4, <3>1, <3>2, MarkFrame
  <2>7. FilterInv'
    <3>1. PinnedCids' = PinnedCids
      BY <2>4 DEF PinnedCids
    <3>2. rmpc'[r] = "delete" => stillOkay'[r] \cap PinnedCids = {}
      <4> USE DEF RGoTo, RmTypeOK
      <4>t. RmTypeOK
        BY <1>t DEF TypeOK
      <4>1. CASE (\E cids \in RmArgs : RmBlocks(r, cids)) \/ RmLocked(r)
        BY <4>t, <4>1 DEF RmBlocks, RmLocked
      <4>2. CASE FilterPinned(r)
        BY <4>t, <4>2 DEF FilterPinned
      <4>3. CASE \E c \in stillOkay[r] : DeleteBlock(r, c)
        BY <1>t, <4>t, <4>3 DEF DeleteBlock, FilterInv
      <4>4. CASE DeletesDone(r) \/ RmReturn(r)
        BY <4>t, <4>4 DEF DeletesDone, RmReturn
      <4> QED BY <1>5, <4>1, <4>2, <4>3, <4>4 DEF RmStep
    <3> QED BY <1>t, <2>4, <3>1, <3>2 DEF FilterInv
  <2> QED BY <2>2, <2>3, <2>5, <2>6, <2>7 DEF IInv
<1>6. ASSUME NEW f \in FilesClients, (\E op \in FilesOps : FilesCall(f, op)) \/ FilesStep(f),
             UNCHANGED <<gcVars, adderVars, userVars, rmVars>>
      PROVE  IInv'
  <2>1. /\ UNCHANGED gcVars /\ UNCHANGED adderVars
        /\ UNCHANGED userVars /\ UNCHANGED rmVars
    BY <1>6
  <2>2. /\ FilesTypeOK' /\ DataTypeOK'
        /\ UNCHANGED <<rpins, dpins>> /\ UNCHANGED lockVars
        /\ store \subseteq store'
    BY <1>t, <1>6, FilesTypes
  <2>3. TypeOK'
    BY <1>t, <2>1, <2>2 DEF TypeOK, GCTypeOK, AdderTypeOK, UserTypeOK, RmTypeOK, LockTypeOK,
       gcVars, adderVars, userVars, rmVars, lockVars
  <2>4. PhaseInv'
    BY <1>t, <2>1 DEF PhaseInv, AdderInv, UserInv, adderVars, userVars
  <2>5. LockInv'
    BY <1>t, <2>1, <2>2 DEF LockInv, GCHolding, RmHolding, AdderHolding, UserHolding,
       gcVars, adderVars, userVars, rmVars, lockVars
  <2>6. \A g \in Collectors : MarkInv(g)'
    BY <1>t, <2>1, <2>2, MarkFrame DEF SameCollection, gcVars
  <2>7. FilterInv'
    BY <1>t, <2>1, <2>2, FilterFrame
  <2> QED BY <2>3, <2>4, <2>5, <2>6, <2>7 DEF IInv
<1>7. CASE UNCHANGED vars
  <2>1. /\ UNCHANGED dataVars /\ UNCHANGED lockVars /\ UNCHANGED gcVars /\ UNCHANGED adderVars
        /\ UNCHANGED userVars /\ UNCHANGED rmVars /\ UNCHANGED filesVars
    BY <1>7 DEF vars
  <2>2. TypeOK'
    BY <1>t, <2>1 DEF TypeOK, DataTypeOK, LockTypeOK, GCTypeOK, AdderTypeOK, UserTypeOK, RmTypeOK,
       FilesTypeOK, dataVars, lockVars, gcVars, adderVars, userVars, rmVars, filesVars
  <2>3. PhaseInv'
    BY <1>t, <2>1 DEF PhaseInv, AdderInv, UserInv, adderVars, userVars
  <2>4. LockInv'
    BY <1>t, <2>1 DEF LockInv, GCHolding, RmHolding, AdderHolding, UserHolding,
       gcVars, adderVars, userVars, rmVars, lockVars
  <2>5. \A g \in Collectors : MarkInv(g)'
    BY <1>t, <2>1, MarkFrame DEF SameCollection, gcVars, dataVars
  <2>6. FilterInv'
    BY <1>t, <2>1, FilterFrame DEF dataVars
  <2> QED BY <2>2, <2>3, <2>4, <2>5, <2>6 DEF IInv
<1> QED
  BY <1>1, <1>2, <1>3, <1>4, <1>5, <1>6, <1>7
  DEF Next, GCNext, AdderNext, UserNext, RmNext, FilesNext

-----------------------------------------------------------------------------
(***************************************************************************)
(* The theorems.                                                           *)
(***************************************************************************)

\* The inductive invariant holds in every reachable state.
THEOREM Invariance == Spec => []IInv
  BY InitIInv, NextIInv, PTL DEF Spec

\* Every variable stays in its type, for every instance.
THEOREM TypeCorrect == Spec => []TypeOK
<1>1. IInv => TypeOK
  BY DEF IInv
<1> QED BY <1>1, Invariance, PTL

\* A collection or a removal that is past GCLock is alone: no other one is,
\* and no add or pin call is past PinLock.
THEOREM Exclusion == Spec => []LockExclusion
<1>1. IInv => LockExclusion
  <2> SUFFICES ASSUME IInv, NEW p \in GCOwners
               PROVE  GCOwners = {p} /\ PinOwners = {}
    BY DEF LockExclusion
  <2>1. p \in Writers /\ writer = p /\ p \notin gcreq
    BY DEF IInv, LockInv, GCOwners, Writers
  <2>2. readers = {}
    BY <2>1, OwnerAlone DEF IInv
  <2>3. PinOwners = {}
    BY <2>2 DEF IInv, LockInv, PinOwners
  <2>4. GCOwners = {p}
    BY <2>1 DEF IInv, LockInv, GCOwners
  <2> QED BY <2>3, <2>4
<1> QED BY <1>1, Invariance, PTL

\* While a collection sweeps, a step that deletes a block is the sweep's own,
\* and the block is unmarked.
LEMMA SweepDeletes ==
  ASSUME IInv, NEW g \in Collectors, gpc[g] = "sweep", Next, NEW b \in store \ store'
  PROVE  RawCid(b) \notin gcs[g]
<1>t. TypeOK /\ PhaseInv /\ LockInv
  BY DEF IInv
<1>o. writer = g /\ g \notin gcreq
  BY <1>t DEF LockInv, GCHolding
<1>1. ASSUME NEW p \in Writers, Announce(p)
      PROVE  FALSE
  BY <1>1 DEF Announce, dataVars
<1>2. ASSUME NEW k \in Collectors, BestEffortRoots(k) \/ GCStep(k)
      PROVE  RawCid(b) \notin gcs[g]
  <2>1. k = g
    BY <1>t, <1>2, <1>o, GCLockStep DEF LockInv
  <2>2. \E h \in keychan[g] \cup store : Sweep(g, h)
    BY <1>2, <2>1 DEF BestEffortRoots, GCStep, GCCall, GCLocked, Visit, LinkError, WalkError,
       StartBestEffort, MarkDirect, StartSweep, AbortMark, SweepDone, GCCancel, GCReturn, dataVars
  <2> QED BY <2>2 DEF Sweep
<1>3. ASSUME NEW a \in Adders, AddAllAndPin(a) \/ AdderStep(a)
      PROVE  FALSE
  BY <1>t, <1>3, AdderLockStep
<1>4. ASSUME NEW u \in Users, (\E r \in Requests : UserCall(u, r)) \/ UserStep(u)
      PROVE  FALSE
  BY <1>t, <1>4, UserLockStep
<1>5. ASSUME NEW r \in Removers, (\E cids \in RmArgs : RmBlocks(r, cids)) \/ RmStep(r)
      PROVE  FALSE
  BY <1>t, <1>5, <1>o, RmLockStep, ProcsAssumption DEF LockInv
<1>6. ASSUME NEW f \in FilesClients, (\E op \in FilesOps : FilesCall(f, op)) \/ FilesStep(f)
      PROVE  FALSE
  BY <1>t, <1>6, FilesTypes
<1> QED
  BY <1>1, <1>2, <1>3, <1>4, <1>5, <1>6
  DEF Next, GCNext, AdderNext, UserNext, RmNext, FilesNext

\* The sweep never deletes a block that a pin protects: everything pinned is in
\* the marked set under its raw CID, and the pins cannot change meanwhile.
THEOREM SweepSafe == Spec => SweepSparesPins
<1>1. IInv /\ [Next]_vars =>
        [(\E g \in Collectors : gpc[g] = "sweep") =>
            (store \ store') \cap HashesOf(PinnedCids) = {}]_vars
  <2> SUFFICES ASSUME IInv, Next, NEW g \in Collectors, gpc[g] = "sweep",
                      NEW b \in store \ store', b \in HashesOf(PinnedCids)
               PROVE  FALSE
    OBVIOUS
  <2>1. RawCid(b) \notin gcs[g]
    BY SweepDeletes
  <2>2. PICK d \in PinnedCids : d.hash = b
    BY DEF HashesOf
  <2>3. RawCid(d.hash) \in gcs[g]
    BY DEF IInv, MarkInv
  <2> QED BY <2>1, <2>2, <2>3
<1> QED BY <1>1, Invariance, PTL DEF Spec, SweepSparesPins

\* A collection that goes on to sweep has seen every block below every
\* recursive pin: with one missing, nothing is deleted.
THEOREM SweepNeedsCompletePins == Spec => IncompletePinStopsSweep
<1>1. IInv /\ [Next]_vars =>
        [(\E g \in Collectors : gpc[g] = "sweep") /\ store' # store /\ store' \subseteq store =>
            \A c \in rpins : Complete(c)]_vars
  BY DEF IInv, MarkInv
<1> QED BY <1>1, Invariance, PTL DEF Spec, IncompletePinStopsSweep

\* A removal never deletes the block of a CID that is pinned when it deletes:
\* the pins it checked cannot have changed under its lock.
THEOREM RmSafe == Spec => RmSparesPins
<1>1. IInv /\ [Next]_vars =>
        [\A r \in Removers : \A c \in stillOkay[r] \ stillOkay'[r] :
            rmpc[r] = "delete" /\ c.hash \in store \ store' => c \notin PinnedCids]_vars
  BY DEF IInv, FilterInv
<1> QED BY <1>1, Invariance, PTL DEF Spec, RmSparesPins
=============================================================================
