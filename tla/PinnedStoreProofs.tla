------------------------- MODULE PinnedStoreProofs -------------------------
(***************************************************************************)
(* What the node keeps, proved for every instance: NodeStore implements    *)
(* PinnedStore, new pins are complete, what an adder has written survives  *)
(* the collections it pauses for, and so does an MFS tree that nobody      *)
(* replaces.                                                               *)
(*                                                                         *)
(* The invariant IInv of NodeStoreProofs is strengthened by                *)
(*   HeldInv    what a holder of the pin lock has written under it is      *)
(*              still there when it pins (nothing is deleted meanwhile);   *)
(*   AddedInv   what an adder has added is whole, and pinned whenever the  *)
(*              adder does not hold the lock;                              *)
(*   TreeInv    what a collection has marked of the MFS tree.              *)
(***************************************************************************)
EXTENDS NodeStoreProofs

-----------------------------------------------------------------------------
(***************************************************************************)
(* The invariants.                                                         *)
(***************************************************************************)

\* What an adder with Pin knows to be there while it holds the lock.
AdderHeld(a) ==
  /\ apc[a] \in {"idle", "lock"} => added[a] = 0
  /\ apc[a] = "file" =>
       HashesOf(Reach[Files[a][added[a] + 1]]) \subseteq store \cup awrite[a]
  /\ apc[a] \in {"node", "pausePin"} /\ added[a] = 1 => Complete(Files[a][1])
  /\ apc[a] = "pausePin" => Present(AdderDir(a))
  /\ apc[a] \in {"flush", "pin"} /\ a \notin AddsDirectory => Complete(Files[a][1])
  /\ apc[a] = "pin" => Present(FinalRoot(a))

\* What a pin call knows to be there while it holds the lock.
UserHeld(u) ==
  /\ upc[u] # "idle" => ureq[u] \in Requests
  /\ upc[u] = "lock" => uwrite[u] = ureq[u].nodes
  /\ upc[u] = "write" =>
       /\ ureq[u].op \in {"put", "import"}
       /\ UserHolding(u) => \A c \in ureq[u].nodes \ uwrite[u] : Present(c)
  /\ upc[u] = "fetch" => FirstPhase(ureq[u]) = "fetch" /\ uwrite[u] = {}
  /\ upc[u] = "pin" =>
       /\ \A c \in uwrite[u] : Present(c)
       /\ ureq[u].op # "put" => uwrite[u] = {}
       /\ ureq[u].op = "add" => Present(ureq[u].root)
       /\ FirstPhase(ureq[u]) = "fetch" => HashesOf(Wanted(ureq[u])) \subseteq store

HeldInv ==
  /\ \A a \in PinAdders : AdderHeld(a)
  /\ \A u \in Users : UserHeld(u)
  /\ \A r \in Removers : stillOkay[r] \subseteq UNION RmArgs

\* What an adder with Pin has added, at every moment.
AddedKept(a) ==
  /\ apc[a] # "failed" => \A k \in 1 .. added[a] : Complete(Files[a][k])
  /\ apc[a] \in {"pauseUnlock", "relock", "repinlock"} => curRootNode(a) \in rpins
  /\ apc[a] \in {"unlock", "done"} => FinalRoot(a) \in rpins /\ Complete(FinalRoot(a))

AddedInv == \A a \in PinAdders : AddedKept(a)

\* What a collection has marked of the first MFS tree.
TreeMarked(g) ==
  /\ gpc[g] # "idle" => gcRoots[g] = {Mfs0}
  /\ gpc[g] = "bestEffort" /\ ~gerrors[g] =>
       /\ Mfs0 \in gtodo[g] \/ Seen(g, Mfs0)
       /\ \A d \in Reach[Mfs0] :
            Seen(g, d) => \A l \in Links[d] : l \in gtodo[g] \/ Seen(g, l)
  /\ gpc[g] = "direct" /\ ~gerrors[g] => \A d \in Reach[Mfs0] : Seen(g, d)
  /\ gpc[g] = "sweep" => \A d \in Reach[Mfs0] : RawCid(d.hash) \in gcs[g]

TreeInv ==
  /\ \A f \in FilesClients : fpc[f] = "write" => froot[f] # Mfs0
  /\ filesRoot = Mfs0 => Complete(Mfs0) /\ \A g \in Collectors : TreeMarked(g)

-----------------------------------------------------------------------------
(***************************************************************************)
(* Reachability and completeness.                                          *)
(***************************************************************************)

\* A root is below itself, and what is below it is closed under links.
LEMMA ReachClosed ==
  ASSUME NEW c \in Cids
  PROVE  c \in Reach[c] /\ LinkClosed(Reach[c]) /\ Links[c] \subseteq Reach[c]
<1>1. c \in Reach[c]
  BY DEF Reach
<1>2. ASSUME NEW d \in Reach[c], NEW l \in Links[d]
      PROVE  l \in Reach[c]
  <2>1. d \in Cids /\ l \in Cids
    BY ReachType, ToCidV1
  <2>2. ASSUME NEW S \in SUBSET Cids, c \in S, LinkClosed(S)
        PROVE  l \in S
    BY <2>2, ReachLeast DEF LinkClosed
  <2> QED BY <2>1, <2>2 DEF Reach
<1> QED BY <1>1, <1>2 DEF LinkClosed

\* Below what is below.
LEMMA ReachTrans ==
  ASSUME NEW c \in Cids, NEW d \in Reach[c]
  PROVE  Reach[d] \subseteq Reach[c]
  BY ReachType, ReachClosed, ReachLeast

\* A graph is whole when its root is there and the graph of every link is.
LEMMA CompleteFromLinks ==
  ASSUME NEW c \in Cids, Present(c), \A l \in Links[c] : Complete(l)
  PROVE  Complete(c)
<1> DEFINE T == {c} \cup {d \in Cids : \E l \in Links[c] : d \in Reach[l]}
<1>1. T \in SUBSET Cids /\ c \in T
  OBVIOUS
<1>2. ASSUME NEW d \in T, NEW e \in Links[d]
      PROVE  e \in T
  <2>1. e \in Cids /\ d \in Cids
    BY ToCidV1
  <2>2. CASE d = c
    <3>1. e \in Reach[e]
      BY <2>1, ReachClosed
    <3> QED BY <2>1, <2>2, <3>1
  <2>3. CASE d # c
    <3>1. PICK l \in Links[c] : d \in Reach[l]
      BY <2>3
    <3>2. l \in Cids
      BY ToCidV1
    <3>3. e \in Reach[l]
      BY <3>1, <3>2, ReachClosed DEF LinkClosed
    <3> QED BY <2>1, <3>3
  <2> QED BY <2>2, <2>3
<1>3. Reach[c] \subseteq T
  <2>1. T \in SUBSET Cids /\ c \in T /\ LinkClosed(T)
    BY <1>1, <1>2 DEF LinkClosed
  <2> HIDE DEF T
  <2> QED BY <2>1, ReachLeast
<1>4. ASSUME NEW d \in T PROVE d.hash \in store
  <2>1. CASE d = c
    BY <2>1 DEF Present
  <2>2. CASE d # c
    <3>1. PICK l \in Links[c] : d \in Reach[l]
      BY <2>2
    <3>2. Complete(l)
      OBVIOUS
    <3> QED BY <3>1, <3>2 DEF Complete, HashesOf
  <2> QED BY <2>1, <2>2
<1> QED BY <1>3, <1>4 DEF Complete, HashesOf

\* A whole graph has every block below it, and every graph below it is whole.
LEMMA CompleteBelow ==
  ASSUME NEW c \in Cids, Complete(c), NEW d \in Reach[c]
  PROVE  Present(d) /\ Complete(d) /\ Present(c)
  BY ReachTrans, ReachClosed DEF Complete, HashesOf, Present

-----------------------------------------------------------------------------
(***************************************************************************)
(* Under the pin lock nothing is deleted, so what its holders have written *)
(* is there when they pin it.                                              *)
(***************************************************************************)

\* The steps of every kind of process, and stuttering.
LEMMA StepCases ==
  ASSUME [Next]_vars, NEW P,
         \A p \in Writers : Announce(p) => P,
         \A g \in Collectors : (BestEffortRoots(g) \/ GCStep(g)) /\
           UNCHANGED <<adderVars, userVars, rmVars, filesVars>> => P,
         \A a \in Adders : (AddAllAndPin(a) \/ AdderStep(a)) /\
           UNCHANGED <<gcVars, userVars, rmVars, filesVars>> => P,
         \A u \in Users : ((\E r \in Requests : UserCall(u, r)) \/ UserStep(u)) /\
           UNCHANGED <<gcVars, adderVars, rmVars, filesVars>> => P,
         \A r \in Removers : ((\E cids \in RmArgs : RmBlocks(r, cids)) \/ RmStep(r)) /\
           UNCHANGED <<gcVars, adderVars, userVars, filesVars>> => P,
         \A f \in FilesClients : ((\E op \in FilesOps : FilesCall(f, op)) \/ FilesStep(f)) /\
           UNCHANGED <<gcVars, adderVars, userVars, rmVars>> => P,
         UNCHANGED vars => P
  PROVE  P
  BY DEF Next, GCNext, AdderNext, UserNext, RmNext, FilesNext

\* While somebody holds the pin lock no block is deleted.
LEMMA StoreGrows ==
  ASSUME IInv, [Next]_vars, readers # {}
  PROVE  store \subseteq store'
<1>t. TypeOK /\ PhaseInv /\ LockInv
  BY DEF IInv
<1>1. ASSUME NEW p \in Writers, Announce(p)
      PROVE  store \subseteq store'
  BY <1>1 DEF Announce, dataVars
<1>2. ASSUME NEW g \in Collectors, BestEffortRoots(g) \/ GCStep(g)
      PROVE  store \subseteq store'
  <2>1. ~GCHolding(g)
    BY <1>t, OwnerAlone DEF LockInv, Writers
  <2> QED BY <1>t, <1>2, <2>1, GCLockStep
<1>3. ASSUME NEW a \in Adders, AddAllAndPin(a) \/ AdderStep(a)
      PROVE  store \subseteq store'
  BY <1>t, <1>3, AdderLockStep
<1>4. ASSUME NEW u \in Users, (\E r \in Requests : UserCall(u, r)) \/ UserStep(u)
      PROVE  store \subseteq store'
  BY <1>t, <1>4, UserLockStep
<1>5. ASSUME NEW r \in Removers, (\E cids \in RmArgs : RmBlocks(r, cids)) \/ RmStep(r)
      PROVE  store \subseteq store'
  <2>1. ~RmHolding(r)
    BY <1>t, OwnerAlone DEF LockInv, Writers
  <2> QED BY <1>t, <1>5, <2>1, RmLockStep
<1>6. ASSUME NEW f \in FilesClients, (\E op \in FilesOps : FilesCall(f, op)) \/ FilesStep(f)
      PROVE  store \subseteq store'
  BY <1>t, <1>6, FilesTypes
<1>7. CASE UNCHANGED vars
  BY <1>7 DEF vars, dataVars
<1> QED
  BY <1>1, <1>2, <1>3, <1>4, <1>5, <1>6, <1>7, StepCases

\* Nothing of adder b has changed.
SameAdder(b) ==
  apc'[b] = apc[b] /\ indir'[b] = indir[b] /\ added'[b] = added[b] /\ awrite'[b] = awrite[b]

\* Nothing of user v has changed.
SameUser(v) ==
  upc'[v] = upc[v] /\ ureq'[v] = ureq[v] /\ uwrite'[v] = uwrite[v]

\* A step of one adder leaves the others alone.
LEMMA OtherAdders ==
  ASSUME TypeOK, NEW a \in Adders, AddAllAndPin(a) \/ AdderStep(a),
         NEW b \in Adders, b # a
  PROVE  SameAdder(b)
<1> USE DEF TypeOK, AdderTypeOK, AGoTo, SameAdder
<1>1. CASE AddAllAndPin(a) \/ AddLocked(a) \/ NoPause(a) \/ AddFileNode(a)
  BY <1>1 DEF AddAllAndPin, AddLocked, NoPause, AddFileNode
<1>2. CASE PauseRoot(a) \/ PausePinRoot(a) \/ PauseUnlock(a) \/ PauseRelock(a)
  BY <1>2 DEF PauseRoot, PausePinRoot, PauseUnlock, PauseRelock
<1>3. CASE (\E h \in awrite[a] : AddBlock(a, h)) \/ AddNode(a) \/ AddFlush(a)
  BY <1>3 DEF AddBlock, AddNode, AddFlush
<1>4. CASE PinRoot(a) \/ AddFail(a) \/ AddReturn(a)
  BY <1>4 DEF PinRoot, AddFail, AddReturn
<1> QED BY <1>1, <1>2, <1>3, <1>4 DEF AdderStep

\* A step of one user leaves the others alone.
LEMMA OtherUsers ==
  ASSUME TypeOK, NEW u \in Users, (\E r \in Requests : UserCall(u, r)) \/ UserStep(u),
         NEW v \in Users, v # u
  PROVE  SameUser(v)
<1> USE DEF TypeOK, UserTypeOK, UGoTo, SameUser
<1>1. CASE (\E r \in Requests : UserCall(u, r)) \/ UserLocked(u) \/ WritesDone(u)
  BY <1>1 DEF UserCall, UserLocked, WritesDone
<1>2. CASE FetchDone(u) \/ PinDone(u) \/ UserFail(u) \/ UserReturn(u)
  BY <1>2 DEF FetchDone, PinDone, UserFail, UserReturn
<1>3. CASE \E c : WriteNode(u, c) \/ PinWritten(u, c) \/ Fetch(u, c)
  BY <1>3 DEF WriteNode, PinWritten, Fetch
<1> QED BY <1>1, <1>2, <1>3 DEF UserStep

\* What an adder holds stays there as long as the adder itself does nothing.
LEMMA AdderHeldFrame ==
  ASSUME IInv, [Next]_vars, NEW a \in PinAdders, AdderHeld(a), SameAdder(a)
  PROVE  AdderHeld(a)'
<1>1. a \in Adders
  BY AdderAssumption
<1>2. AdderHolding(a) => store \subseteq store'
  BY <1>1, StoreGrows DEF IInv, LockInv
<1> QED BY <1>2 DEF AdderHeld, AdderHolding, SameAdder, Complete, HashesOf, Present, AdderDir,
        FinalRoot

\* The same for a user.
LEMMA UserHeldFrame ==
  ASSUME IInv, [Next]_vars, NEW u \in Users, UserHeld(u), SameUser(u)
  PROVE  UserHeld(u)'
<1>1. UserHolding(u) => store \subseteq store'
  BY StoreGrows DEF IInv, LockInv
<1>2. upc[u] = "pin" => UserHolding(u)
  BY DEF UserHolding, IInv, PhaseInv, UserInv
<1>3. UserHolding(u)' = UserHolding(u)
  BY DEF SameUser, UserHolding
<1> QED BY <1>1, <1>2, <1>3 DEF UserHeld, SameUser, Present

\* A step of the adder itself keeps what it holds: blocks written under the
\* lock (addFile, curRootNode, Flush) are there when PinRoot runs.
LEMMA AdderHeldStep ==
  ASSUME IInv, NEW a \in PinAdders, AdderHeld(a), AddAllAndPin(a) \/ AdderStep(a)
  PROVE  AdderHeld(a)'
<1>a. a \in Adders
  BY AdderAssumption
<1>t. TypeOK /\ AdderInv(a) /\ AdderTypeOK
  BY <1>a DEF IInv, PhaseInv, TypeOK
<1>f. /\ Files[a] \in Seq(Cids) /\ added[a] \in Nat
      /\ a \in AddsDirectory \/ Len(Files[a]) = 1
  BY <1>a, <1>t, AdderAssumption DEF AdderTypeOK
<1> USE DEF AdderTypeOK, AGoTo
<1>1. CASE AddAllAndPin(a) \/ AddLocked(a) \/ NoPause(a)
  BY <1>1, <1>a, <1>t, <1>f DEF AddAllAndPin, AddLocked, NoPause, AdderHeld
<1>2. CASE AddFileNode(a)
  <2>1. CASE a \in AddsDirectory /\ ~indir[a]
    <3>1. added'[a] = 0 /\ apc'[a] \in {"flush", "node"}
      BY <1>2, <2>1, <1>a, <1>t DEF AddFileNode, AdderInv
    <3> QED BY <2>1, <3>1 DEF AdderHeld
  <2>2. CASE ~(a \in AddsDirectory /\ ~indir[a])
    <3>1. /\ apc'[a] = "file" /\ added'[a] = added[a]
          /\ awrite'[a] = HashesOf(Reach[Files[a][added[a] + 1]])
      BY <1>2, <2>2, <1>a, <1>t DEF AddFileNode
    <3> QED BY <3>1 DEF AdderHeld
  <2> QED BY <2>1, <2>2
<1>3. CASE PauseRoot(a)
  <2>1. apc[a] = "node" /\ apc'[a] = "pausePin" /\ added'[a] = added[a]
    BY <1>3, <1>a, <1>t DEF PauseRoot
  <2>2. store \subseteq store' /\ AdderDir(a).hash \in store'
    BY <1>3 DEF PauseRoot
  <2>3. added[a] = 1 => Complete(Files[a][1])'
    BY <2>1, <2>2 DEF AdderHeld, Complete
  <2> QED BY <2>1, <2>2, <2>3 DEF AdderHeld, AdderDir, Present
<1>4. ASSUME NEW h \in awrite[a], AddBlock(a, h)
      PROVE  AdderHeld(a)'
  <2>1. /\ apc[a] = "file" /\ apc'[a] = "file" /\ added'[a] = added[a]
        /\ store' = store \cup {h} /\ awrite'[a] = awrite[a] \ {h}
    BY <1>4, <1>a, <1>t DEF AddBlock
  <2> QED BY <2>1 DEF AdderHeld
<1>5. CASE AddNode(a)
  <2>1. /\ apc[a] = "file" /\ awrite[a] = {} /\ added'[a] = added[a] + 1 /\ store' = store
        /\ apc'[a] \in {"flush", "node"}
    BY <1>5, <1>a, <1>t DEF AddNode, dataVars
  <2>2. added[a] = 0 => Complete(Files[a][1])'
    BY <2>1 DEF AdderHeld, Complete
  <2>3. a \notin AddsDirectory => added[a] = 0
    <3>1. added[a] < Len(Files[a])
      BY <2>1, <1>t DEF AdderInv
    <3>2. CASE Len(Files[a]) = 1
      BY <3>1, <3>2, <1>f
    <3> QED BY <3>2, <1>f
  <2>4. added'[a] = 1 => added[a] = 0
    BY <2>1, <1>f
  <2> QED BY <2>1, <2>2, <2>3, <2>4 DEF AdderHeld
<1>6. CASE AddFlush(a)
  <2>1. /\ apc[a] = "flush" /\ apc'[a] = "pin" /\ added'[a] = added[a]
        /\ store' = store \cup {AdderDir(a).hash}
    BY <1>6, <1>a, <1>t DEF AddFlush
  <2>2. CASE a \in AddsDirectory
    BY <2>1, <2>2 DEF AdderHeld, FinalRoot, AdderDir, Present
  <2>3. CASE a \notin AddsDirectory
    <3>1. Complete(Files[a][1])
      BY <2>1, <2>3 DEF AdderHeld
    <3>2. Files[a][1] \in Cids
      BY <2>3, <1>f
    <3>3. Present(Files[a][1])
      BY <3>1, <3>2, CompleteBelow, ReachClosed
    <3>4. Complete(Files[a][1])' /\ Present(Files[a][1])'
      BY <2>1, <3>1, <3>3 DEF Complete, Present
    <3> QED BY <2>1, <2>3, <3>4 DEF AdderHeld, FinalRoot
  <2> QED BY <2>2, <2>3
<1>7. CASE PausePinRoot(a) \/ PauseUnlock(a) \/ PauseRelock(a) \/ PinRoot(a)
           \/ AddFail(a) \/ AddReturn(a)
  <2>1. apc'[a] \in {"pauseUnlock", "relock", "repinlock", "unlock", "failUnlock", "done",
                     "failed"}
    BY <1>7, <1>a, <1>t DEF PausePinRoot, PauseUnlock, PauseRelock, PinRoot, AddFail, AddReturn
  <2> QED BY <2>1 DEF AdderHeld
<1> QED
  BY <1>1, <1>2, <1>3, <1>4, <1>5, <1>6, <1>7 DEF AdderStep

\* A step of the user keeps what it holds.
LEMMA UserHeldStep ==
  ASSUME IInv, NEW u \in Users, UserHeld(u),
         (\E r \in Requests : UserCall(u, r)) \/ UserStep(u)
  PROVE  UserHeld(u)'
<1>t. TypeOK /\ UserInv(u) /\ UserTypeOK
  BY DEF IInv, PhaseInv, TypeOK
<1> USE DEF UserTypeOK, UGoTo
<1>1. ASSUME NEW r \in Requests, UserCall(u, r)
      PROVE  UserHeld(u)'
  <2>1. ureq'[u] = r /\ uwrite'[u] = r.nodes
    BY <1>1, <1>t DEF UserCall
  <2>2. \/ upc'[u] = "lock" /\ Locks(r)
        \/ upc'[u] = "write" /\ ~Locks(r)
    BY <1>1, <1>t DEF UserCall
  <2> QED BY <2>1, <2>2 DEF UserHeld, Locks, UserHolding
<1>2. CASE UserLocked(u)
  <2>1. /\ upc[u] = "lock" /\ upc'[u] = FirstPhase(ureq[u]) /\ ureq'[u] = ureq[u]
        /\ uwrite'[u] = uwrite[u]
        /\ ureq[u].op = "add" => Present(ureq[u].root)'
    BY <1>2, <1>t DEF UserLocked, Present
  <2>2. ureq[u] \in Requests /\ uwrite[u] = ureq[u].nodes
    BY <2>1 DEF UserHeld
  <2>3. ureq[u].op \notin {"put", "import"} => uwrite[u] = {}
    BY <2>2, RequestAssumption
  <2>4. CASE ureq[u].op \in {"put", "import"}
    <3>1. upc'[u] = "write"
      BY <2>1, <2>4 DEF FirstPhase
    <3> QED BY <2>1, <2>2, <2>4, <3>1 DEF UserHeld
  <2>5. CASE ureq[u].op \notin {"put", "import"}
    <3>1. upc'[u] \in {"fetch", "pin"} /\ (upc'[u] = "fetch" <=> FirstPhase(ureq[u]) = "fetch")
      BY <2>1, <2>5 DEF FirstPhase
    <3> QED BY <2>1, <2>2, <2>3, <2>5, <3>1 DEF UserHeld
  <2> QED BY <2>4, <2>5
<1>3. ASSUME NEW c \in uwrite[u], WriteNode(u, c)
      PROVE  UserHeld(u)'
  <2>1. /\ upc[u] = "write" /\ upc'[u] = "write" /\ ureq'[u] = ureq[u]
        /\ uwrite'[u] = uwrite[u] \ {c} /\ store' = store \cup {c.hash}
    BY <1>3, <1>t DEF WriteNode
  <2> QED BY <2>1 DEF UserHeld, UserHolding, Present
<1>4. CASE WritesDone(u)
  <2>1. CASE ureq[u].flag
    <3>1. /\ upc[u] = "write" /\ upc'[u] = "pin" /\ ureq'[u] = ureq[u] /\ uwrite[u] = {}
          /\ uwrite'[u] = IF ureq[u].op = "put" THEN ureq[u].nodes ELSE {}
          /\ store' = store
      BY <1>4, <2>1, <1>t DEF WritesDone, dataVars
    <3>2. UserHolding(u) /\ ureq[u].op \in {"put", "import"} /\ ureq[u] \in Requests
      BY <2>1, <3>1 DEF UserHolding, Locks, UserHeld
    <3>3. \A c \in uwrite'[u] : Present(c)'
      BY <3>1, <3>2 DEF UserHeld, Present
    <3>4. FirstPhase(ureq[u]) = "write"
      BY <3>2 DEF FirstPhase
    <3> QED BY <3>1, <3>2, <3>3, <3>4 DEF UserHeld
  <2>2. CASE ~ureq[u].flag
    BY <1>4, <2>2, <1>t DEF WritesDone, UserHeld
  <2> QED BY <2>1, <2>2
<1>5. ASSUME NEW c \in Wanted(ureq[u]), Fetch(u, c)
      PROVE  UserHeld(u)'
  BY <1>5, <1>t DEF Fetch, UserHeld
<1>6. CASE FetchDone(u)
  <2>1. /\ upc[u] = "fetch" /\ upc'[u] = "pin" /\ ureq'[u] = ureq[u] /\ uwrite'[u] = uwrite[u]
        /\ HashesOf(Wanted(ureq[u])) \subseteq store' /\ store' = store
    BY <1>6, <1>t DEF FetchDone, dataVars
  <2>2. ureq[u] \in Requests /\ FirstPhase(ureq[u]) = "fetch" /\ uwrite[u] = {}
    BY <2>1 DEF UserHeld
  <2>3. ureq[u].root \in Cids
    BY <2>2, RequestAssumption DEF AllRequests
  <2>4. ureq[u].op = "add" => ureq[u].root \in Wanted(ureq[u])
    BY <2>3, ReachClosed DEF Wanted
  <2>5. ureq[u].op = "add" => Present(ureq[u].root)'
    BY <2>1, <2>4 DEF HashesOf, Present
  <2> QED BY <2>1, <2>2, <2>5 DEF UserHeld
<1>7. ASSUME NEW c \in uwrite[u], PinWritten(u, c)
      PROVE  UserHeld(u)'
  <2>1. /\ upc[u] = "pin" /\ upc'[u] = "pin" /\ ureq'[u] = ureq[u]
        /\ uwrite'[u] = uwrite[u] \ {c} /\ store' = store
    BY <1>7, <1>t DEF PinWritten
  <2> QED BY <2>1 DEF UserHeld, Present
<1>8. CASE UserFail(u) \/ PinDone(u) \/ UserReturn(u)
  <2>1. upc'[u] = "idle" \/ (upc'[u] = "unlock" /\ ureq'[u] = ureq[u] /\ upc[u] # "idle")
    BY <1>8, <1>t DEF UserFail, PinDone, UserReturn
  <2> QED BY <2>1 DEF UserHeld
<1> QED
  BY <1>1, <1>2, <1>3, <1>4, <1>5, <1>6, <1>7, <1>8 DEF UserStep

\* The invariant of the holders is inductive on top of IInv.
LEMMA NextHeld == IInv /\ HeldInv /\ [Next]_vars => HeldInv'
<1> SUFFICES ASSUME IInv, HeldInv, [Next]_vars PROVE HeldInv'
  OBVIOUS
<1>t. TypeOK
  BY DEF IInv
<1>1. ASSUME NEW a \in PinAdders PROVE AdderHeld(a)'
  <2>1. a \in Adders /\ AdderHeld(a)
    BY AdderAssumption DEF HeldInv
  <2>2. ASSUME NEW b \in Adders, AddAllAndPin(b) \/ AdderStep(b)
        PROVE  AdderHeld(a)'
    BY <1>t, <2>1, <2>2, AdderHeldStep, AdderHeldFrame, OtherAdders
  <2>3. CASE UNCHANGED adderVars
    BY <2>1, <2>3, AdderHeldFrame DEF SameAdder, adderVars
  <2> QED BY <2>2, <2>3, StepCases DEF Announce, vars
<1>2. ASSUME NEW u \in Users PROVE UserHeld(u)'
  <2>1. UserHeld(u)
    BY DEF HeldInv
  <2>2. ASSUME NEW v \in Users, (\E r \in Requests : UserCall(v, r)) \/ UserStep(v)
        PROVE  UserHeld(u)'
    BY <1>t, <2>1, <2>2, UserHeldStep, UserHeldFrame, OtherUsers
  <2>3. CASE UNCHANGED userVars
    BY <2>1, <2>3, UserHeldFrame DEF SameUser, userVars
  <2> QED BY <2>2, <2>3, StepCases DEF Announce, vars
<1>3. ASSUME NEW r \in Removers PROVE stillOkay'[r] \subseteq UNION RmArgs
  <2>1. stillOkay[r] \subseteq UNION RmArgs /\ RmTypeOK
    BY <1>t DEF HeldInv, TypeOK
  <2>2. ASSUME NEW q \in Removers, (\E cids \in RmArgs : RmBlocks(q, cids)) \/ RmStep(q)
        PROVE  stillOkay'[r] \subseteq UNION RmArgs
    BY <2>1, <2>2 DEF RmTypeOK, RmBlocks, RmStep, RmLocked, FilterPinned, DeleteBlock, DeletesDone,
       RmReturn
  <2>3. CASE UNCHANGED rmVars
    BY <2>1, <2>3 DEF rmVars
  <2> QED BY <2>2, <2>3, StepCases DEF Announce, vars
<1> QED BY <1>1, <1>2, <1>3 DEF HeldInv

\* What the holders of the pin lock have written is there: an invariant.
THEOREM Held == Spec => [](IInv /\ HeldInv)
<1>1. Init => HeldInv
  BY AdderAssumption DEF Init, AdderInit, UserInit, RmInit, HeldInv, AdderHeld, UserHeld
<1> QED BY <1>1, NextHeld, InitIInv, NextIInv, PTL DEF Spec

-----------------------------------------------------------------------------
(***************************************************************************)
(* Refinement: every step of the node is a step of PinnedStore or leaves   *)
(* its variables alone.                                                    *)
(***************************************************************************)

\* Steps that change no program counter of a collection or a removal do not
\* change who has the store alone.
LEMMA SameOwners ==
  ASSUME \A g \in Collectors : GCHolding(g)' = GCHolding(g),
         \A r \in Removers : RmHolding(r)' = RmHolding(r)
  PROVE  GCOwners' = GCOwners
  BY DEF GCOwners

\* While a request for the lock is pending at the front, or a pin lock is
\* held, nobody has the store alone.
LEMMA NobodyAlone ==
  ASSUME IInv, readers # {} \/ writer \in gcreq \/ writer = None
  PROVE  GCOwners = {}
<1> SUFFICES ASSUME NEW p \in GCOwners PROVE FALSE
  OBVIOUS
<1>1. p \in Writers /\ writer = p /\ p \notin gcreq /\ p \in Procs
  BY ProcsAssumption DEF IInv, LockInv, GCOwners, Writers
<1>2. readers = {}
  BY <1>1, OwnerAlone DEF IInv
<1> QED BY <1>1, <1>2, ProcsAssumption

\* Writing blocks is a step of PinnedStore.
LEMMA WriteStep ==
  ASSUME store \subseteq store', store' \subseteq Block,
         UNCHANGED <<rpins, dpins>>, GCOwners' = GCOwners
  PROVE  [Promised!Next]_(Promised!psVars)
  BY DEF Promised!Next, Promised!Write, Promised!psVars

\* So is recording or dropping pins under the pin lock, when what is pinned is
\* there.
LEMMA PinStep ==
  ASSUME IInv, readers # {}, UNCHANGED store, GCOwners' = GCOwners,
         rpins' \subseteq Cids, dpins' \subseteq Cids,
         \A c \in (rpins' \cup dpins') \ (rpins \cup dpins) : Present(c)
  PROVE  [Promised!Next]_(Promised!psVars)
<1>1. GCOwners = {} /\ GCOwners' = {}
  BY NobodyAlone
<1> QED BY <1>1 DEF Promised!Next, Promised!ChangePins, Promised!psVars, Present

\* A collection takes the store, deletes what nobody protects, gives it back.
LEMMA GCRefines ==
  ASSUME IInv, NEW g \in Collectors, BestEffortRoots(g) \/ GCStep(g),
         UNCHANGED <<adderVars, userVars, rmVars, filesVars>>
  PROVE  [Promised!Next]_(Promised!psVars)
<1>t. TypeOK /\ LockInv /\ GCTypeOK /\ DataTypeOK
  BY DEF IInv, TypeOK
<1>r. \A r \in Removers : RmHolding(r)' = RmHolding(r)
  BY DEF RmHolding, rmVars
<1>k. \A k \in Collectors \ {g} : GCHolding(k)' = GCHolding(k)
  BY <1>t, GCLockStep DEF SameCollection, GCHolding
<1> USE DEF GCTypeOK, GoTo
<1>1. CASE GCLocked(g)
  <2>1. writer = g /\ g \in gcreq /\ UNCHANGED dataVars /\ GCHolding(g)'
    BY <1>1, <1>t DEF GCLocked, GCLockAcquire, GCHolding, WalkPhases
  <2>2. GCOwners = {} /\ GCOwners' # {}
    BY <2>1, NobodyAlone DEF GCOwners
  <2> QED BY <2>1, <2>2 DEF Promised!Next, Promised!TakeAlone, Promised!psVars, dataVars
<1>2. CASE GCReturn(g)
  <2>1. gpc[g] = "unlock" /\ gpc'[g] = "idle" /\ UNCHANGED dataVars
    BY <1>2, <1>t DEF GCReturn
  <2>2. GCHolding(g) /\ ~GCHolding(g)'
    BY <2>1 DEF GCHolding, WalkPhases
  <2>3. GCOwners # {}
    BY <2>2 DEF GCOwners
  <2>4. GCOwners' = {}
    <3>1. \A k \in Collectors : ~GCHolding(k)'
      BY <2>2, <1>k, <1>t DEF LockInv
    <3>2. \A r \in Removers : ~RmHolding(r)'
      BY <2>2, <1>r, <1>t, ProcsAssumption DEF LockInv
    <3> QED BY <3>1, <3>2 DEF GCOwners
  <2> QED BY <2>1, <2>3, <2>4 DEF Promised!Next, Promised!Release, Promised!psVars, dataVars
<1>3. ASSUME NEW h \in keychan[g] \cup store, Sweep(g, h)
      PROVE  [Promised!Next]_(Promised!psVars)
  <2>1. gpc[g] = "sweep" /\ gpc' = gpc /\ UNCHANGED <<rpins, dpins>>
    BY <1>3 DEF Sweep
  <2>2. GCHolding(g) /\ GCHolding(g)'
    BY <2>1 DEF GCHolding
  <2>3. GCOwners' = GCOwners /\ GCOwners # {}
    BY <2>2, <1>k, <1>r, SameOwners DEF GCOwners
  <2>4. CASE store' = store
    BY <2>1, <2>3, <2>4 DEF Promised!psVars
  <2>5. CASE store' # store
    <3>1. RawCid(h) \notin gcs[g] /\ h \in store /\ store' = store \ {h}
      BY <1>3, <2>5 DEF Sweep
    <3>2. \A d \in PinnedCids : RawCid(d.hash) \in gcs[g]
      BY <2>1 DEF IInv, MarkInv
    <3>3. h \notin Promised!ProtectedBlocks
      BY <3>1, <3>2 DEF Promised!ProtectedBlocks, Promised!PinnedNames, PinnedCids
    <3>4. Promised!Collect
      BY <2>1, <2>3, <3>1, <3>3 DEF Promised!Collect
    <3> QED BY <3>4 DEF Promised!Next
  <2> QED BY <2>4, <2>5
<1>4. CASE BestEffortRoots(g) \/ GCCall(g)
  <2>1. UNCHANGED dataVars /\ GCHolding(g)' = GCHolding(g)
    BY <1>4, <1>t DEF BestEffortRoots, GCCall, GCHolding, WalkPhases
  <2>2. GCOwners' = GCOwners
    BY <2>1, <1>k, <1>r, SameOwners
  <2> QED BY <2>1, <2>2 DEF Promised!psVars, dataVars
<1>5. ASSUME NEW c \in gtodo[g], Visit(g, c) \/ LinkError(g, c)
      PROVE  [Promised!Next]_(Promised!psVars)
  <2>1. UNCHANGED dataVars /\ GCHolding(g)' = GCHolding(g)
    BY <1>5 DEF Visit, LinkError, GCHolding
  <2>2. GCOwners' = GCOwners
    BY <2>1, <1>k, <1>r, SameOwners
  <2> QED BY <2>1, <2>2 DEF Promised!psVars, dataVars
<1>6. CASE WalkError(g) \/ StartBestEffort(g) \/ MarkDirect(g) \/ StartSweep(g) \/ AbortMark(g)
           \/ SweepDone(g) \/ GCCancel(g)
  <2>1. UNCHANGED dataVars /\ GCHolding(g) /\ GCHolding(g)'
    BY <1>6, <1>t DEF WalkError, StartBestEffort, MarkDirect, StartSweep, AbortMark, SweepDone,
       GCCancel, GCHolding, WalkPhases
  <2>2. GCOwners' = GCOwners
    BY <2>1, <1>k, <1>r DEF GCOwners
  <2> QED BY <2>1, <2>2 DEF Promised!psVars, dataVars
<1> QED
  BY <1>1, <1>2, <1>3, <1>4, <1>5, <1>6 DEF GCStep

\* A removal takes the store, deletes blocks of names that are not pinned, and
\* gives it back.
LEMMA RmRefines ==
  ASSUME IInv, NEW r \in Removers, (\E cids \in RmArgs : RmBlocks(r, cids)) \/ RmStep(r),
         UNCHANGED <<gcVars, adderVars, userVars, filesVars>>
  PROVE  [Promised!Next]_(Promised!psVars)
<1>t. TypeOK /\ LockInv /\ RmTypeOK
  BY DEF IInv, TypeOK
<1>g. \A g \in Collectors : GCHolding(g)' = GCHolding(g)
  BY DEF GCHolding, gcVars
<1>q. \A q \in Removers \ {r} : RmHolding(q)' = RmHolding(q)
  BY <1>t, RmLockStep DEF RmHolding
<1> USE DEF RmTypeOK, RGoTo
<1>1. CASE RmLocked(r)
  <2>1. writer = r /\ r \in gcreq /\ UNCHANGED dataVars /\ RmHolding(r)'
    BY <1>1, <1>t DEF RmLocked, GCLockAcquire, RmHolding
  <2>2. GCOwners = {} /\ GCOwners' # {}
    BY <2>1, NobodyAlone DEF GCOwners
  <2> QED BY <2>1, <2>2 DEF Promised!Next, Promised!TakeAlone, Promised!psVars, dataVars
<1>2. CASE RmReturn(r)
  <2>1. RmHolding(r) /\ ~RmHolding(r)' /\ UNCHANGED dataVars
    BY <1>2, <1>t DEF RmReturn, RmHolding
  <2>2. GCOwners # {}
    BY <2>1 DEF GCOwners
  <2>3. GCOwners' = {}
    <3>1. \A k \in Removers : ~RmHolding(k)'
      BY <2>1, <1>q, <1>t DEF LockInv
    <3>2. \A g \in Collectors : ~GCHolding(g)'
      BY <2>1, <1>g, <1>t, ProcsAssumption DEF LockInv
    <3> QED BY <3>1, <3>2 DEF GCOwners
  <2> QED BY <2>1, <2>2, <2>3 DEF Promised!Next, Promised!Release, Promised!psVars, dataVars
<1>3. ASSUME NEW c \in stillOkay[r], DeleteBlock(r, c)
      PROVE  [Promised!Next]_(Promised!psVars)
  <2>1. /\ rmpc[r] = "delete" /\ rmpc' = rmpc /\ UNCHANGED <<rpins, dpins>>
        /\ store' = store \/ store' = store \ {c.hash}
    BY <1>3 DEF DeleteBlock
  <2>2. RmHolding(r) /\ RmHolding(r)'
    BY <2>1 DEF RmHolding
  <2>3. GCOwners' = GCOwners /\ GCOwners # {}
    BY <2>2, <1>g, <1>q, SameOwners DEF GCOwners
  <2>4. CASE store' = store
    BY <2>1, <2>3, <2>4 DEF Promised!psVars
  <2>5. CASE store' # store
    <3>1. c.hash \in store /\ store' = store \ {c.hash} /\ c \in Cids
      BY <2>1, <2>5, <1>t
    <3>2. c \notin Promised!PinnedNames
      BY <2>1 DEF IInv, FilterInv, PinnedCids, Promised!PinnedNames
    <3>3. Promised!Remove
      BY <2>1, <2>3, <3>1, <3>2 DEF Promised!Remove
    <3> QED BY <3>3 DEF Promised!Next
  <2> QED BY <2>4, <2>5
<1>4. CASE (\E cids \in RmArgs : RmBlocks(r, cids)) \/ FilterPinned(r) \/ DeletesDone(r)
  <2>1. UNCHANGED dataVars /\ RmHolding(r)' = RmHolding(r)
    BY <1>4, <1>t DEF RmBlocks, FilterPinned, DeletesDone, RmHolding
  <2>2. GCOwners' = GCOwners
    BY <2>1, <1>g, <1>q, SameOwners
  <2> QED BY <2>1, <2>2 DEF Promised!psVars, dataVars
<1> QED
  BY <1>1, <1>2, <1>3, <1>4 DEF RmStep

\* What PinRoot pins is there already, so the step changes pins only.
LEMMA AdderPinsPresent ==
  ASSUME IInv, NEW a \in PinAdders, AdderHeld(a), PausePinRoot(a) \/ PinRoot(a)
  PROVE  /\ UNCHANGED store
         /\ PausePinRoot(a) => curRootNode(a) \in Cids /\ Present(curRootNode(a))
         /\ PinRoot(a) => FinalRoot(a) \in Cids /\ Present(FinalRoot(a))
<1>a. a \in Adders
  BY AdderAssumption
<1>t. TypeOK /\ AdderInv(a)
  BY <1>a DEF IInv, PhaseInv
<1>r. curRootNode(a) \in Cids /\ FinalRoot(a) \in Cids
  BY <1>a, <1>t, AdderRoots
<1>1. CASE PausePinRoot(a)
  <2>1. apc[a] = "pausePin"
    BY <1>1 DEF PausePinRoot
  <2>2. Present(curRootNode(a))
    <3>1. CASE added[a] = 1
      <4>1. curRootNode(a) = Files[a][1] /\ Complete(Files[a][1])
        BY <2>1, <3>1 DEF AdderHeld, curRootNode
      <4> QED BY <4>1, <1>r, CompleteBelow, ReachClosed
    <3>2. CASE added[a] # 1
      BY <2>1, <3>2 DEF AdderHeld, curRootNode
    <3> QED BY <3>1, <3>2
  <2>3. UNCHANGED store
    BY <1>1, <2>2 DEF PausePinRoot, Present
  <2>4. ~PinRoot(a)
    BY <2>1 DEF PinRoot
  <2> QED BY <1>r, <2>2, <2>3, <2>4
<1>2. CASE PinRoot(a)
  <2>1. apc[a] = "pin"
    BY <1>2 DEF PinRoot
  <2>2. Present(FinalRoot(a))
    BY <2>1 DEF AdderHeld
  <2>3. UNCHANGED store /\ ~PausePinRoot(a)
    BY <1>2, <2>1, <2>2 DEF PinRoot, PausePinRoot, Present
  <2> QED BY <1>r, <2>2, <2>3
<1> QED BY <1>1, <1>2

\* An adder writes blocks or pins a root that is there.
LEMMA AdderRefines ==
  ASSUME IInv, HeldInv, NEW a \in Adders, AddAllAndPin(a) \/ AdderStep(a),
         UNCHANGED <<gcVars, userVars, rmVars, filesVars>>
  PROVE  [Promised!Next]_(Promised!psVars)
<1>t. TypeOK /\ PhaseInv /\ LockInv /\ AdderInv(a) /\ DataTypeOK
  BY DEF IInv, PhaseInv, TypeOK
<1>d. DataTypeOK'
  BY <1>t, AdderTypes
<1>o. GCOwners' = GCOwners
  BY DEF GCOwners, GCHolding, RmHolding, gcVars, rmVars
<1>1. CASE PausePinRoot(a) \/ PinRoot(a)
  <2>1. a \in PinAdders /\ AdderHolding(a)
    BY <1>1, <1>t DEF PausePinRoot, PinRoot, AdderInv, PinPhases, AdderHolding
  <2>2. readers # {}
    BY <2>1, <1>t DEF LockInv
  <2>3. UNCHANGED store /\ \A c \in (rpins' \cup dpins') \ (rpins \cup dpins) : Present(c)
    BY <1>1, <2>1, AdderPinsPresent DEF HeldInv, PausePinRoot, PinRoot, PinRecursive
  <2> QED BY <1>d, <1>o, <2>2, <2>3, PinStep DEF DataTypeOK
<1>2. CASE ~(PausePinRoot(a) \/ PinRoot(a))
  <2>1. UNCHANGED <<rpins, dpins>>
    BY <1>2 DEF AdderStep, AddAllAndPin, AddLocked, NoPause, AddFileNode, PauseRoot, PauseUnlock,
       PauseRelock, AddBlock, AddNode, AddFlush, AddFail, AddReturn, dataVars
  <2>2. store \subseteq store'
    BY <1>t, AdderLockStep
  <2> QED BY <1>d, <1>o, <2>1, <2>2, WriteStep DEF DataTypeOK
<1> QED BY <1>1, <1>2

\* What the pinner is told to pin at the end of a call is there.
LEMMA UserPinsPresent ==
  ASSUME IInv, NEW u \in Users, UserHeld(u),
         PinDone(u) \/ \E c \in uwrite[u] : PinWritten(u, c)
  PROVE  \A c \in (rpins' \cup dpins') \ (rpins \cup dpins) : Present(c)
<1>1. ASSUME NEW c \in uwrite[u], PinWritten(u, c)
      PROVE  \A d \in (rpins' \cup dpins') \ (rpins \cup dpins) : Present(d)
  <2>1. Present(c)
    BY <1>1 DEF PinWritten, UserHeld
  <2> QED BY <1>1, <2>1 DEF PinWritten, PinRecursive
<1>2. CASE PinDone(u)
  <2> DEFINE r == ureq[u]
  <2>1. upc[u] = "pin" /\ ChangePins(r)
    BY <1>2 DEF PinDone
  <2>2. r \in Requests /\ r.root \in Cids /\ r.to \in Cids
    BY <2>1, RequestAssumption DEF UserHeld, AllRequests
  <2>3. CASE r.op = "add"
    <3>1. Present(r.root)
      BY <2>1, <2>3 DEF UserHeld
    <3> QED BY <2>1, <2>3, <3>1 DEF ChangePins, PinRecursive, PinDirect
  <2>4. CASE r.op = "rm"
    BY <2>1, <2>4 DEF ChangePins, Unpin
  <2>5. CASE r.op = "update"
    <3>1. HashesOf(Wanted(r)) \subseteq store
      BY <2>1, <2>5 DEF UserHeld, FirstPhase
    <3>2. r.to \in Wanted(r)
      BY <2>5 DEF Wanted
    <3>3. Present(r.to)
      BY <3>1, <3>2 DEF HashesOf, Present
    <3>4. rpins' \subseteq rpins \cup {r.to} /\ dpins' \subseteq dpins
      BY <2>1, <2>5 DEF ChangePins
    <3> QED BY <3>3, <3>4
  <2>6. CASE r.op = "import"
    <3>1. Complete(r.root) => Present(r.root)
      BY <2>2, CompleteBelow, ReachClosed
    <3> QED BY <2>1, <2>6, <3>1 DEF ChangePins, PinRecursive
  <2>7. CASE r.op = "put"
    BY <2>1, <2>7 DEF ChangePins
  <2> QED BY <2>1, <2>3, <2>4, <2>5, <2>6, <2>7 DEF ChangePins
<1> QED BY <1>1, <1>2

\* A pin call writes blocks, or changes pins on blocks that are there.
LEMMA UserRefines ==
  ASSUME IInv, HeldInv, NEW u \in Users, (\E r \in Requests : UserCall(u, r)) \/ UserStep(u),
         UNCHANGED <<gcVars, adderVars, rmVars, filesVars>>
  PROVE  [Promised!Next]_(Promised!psVars)
<1>t. TypeOK /\ PhaseInv /\ LockInv /\ UserInv(u)
  BY DEF IInv, PhaseInv
<1>d. DataTypeOK'
  BY <1>t, UserTypes
<1>o. GCOwners' = GCOwners
  BY DEF GCOwners, GCHolding, RmHolding, gcVars, rmVars
<1>1. CASE PinDone(u) \/ \E c \in uwrite[u] : PinWritten(u, c)
  <2>1. UserHolding(u) /\ UNCHANGED store
    BY <1>1, <1>t DEF PinDone, PinWritten, UserInv, UserHolding
  <2>2. readers # {}
    BY <2>1, <1>t DEF LockInv
  <2>3. \A c \in (rpins' \cup dpins') \ (rpins \cup dpins) : Present(c)
    BY <1>1, UserPinsPresent DEF HeldInv
  <2> QED BY <1>d, <1>o, <2>1, <2>2, <2>3, PinStep DEF DataTypeOK
<1>2. CASE ~(PinDone(u) \/ \E c \in uwrite[u] : PinWritten(u, c))
  <2>1. UNCHANGED <<rpins, dpins>>
    BY <1>2 DEF UserStep, UserCall, UserLocked, WriteNode, WritesDone, Fetch, FetchDone, UserFail,
       UserReturn, dataVars
  <2>2. store \subseteq store'
    BY <1>t, UserLockStep
  <2> QED BY <1>d, <1>o, <2>1, <2>2, WriteStep DEF DataTypeOK
<1> QED BY <1>1, <1>2

\* Every step of the node is one of the promised store, or leaves it alone.
LEMMA NextRefines ==
  IInv /\ HeldInv /\ [Next]_vars => [Promised!Next]_(Promised!psVars)
<1> SUFFICES ASSUME IInv, HeldInv, [Next]_vars
             PROVE  [Promised!Next]_(Promised!psVars)
  OBVIOUS
<1>1. ASSUME UNCHANGED dataVars, UNCHANGED gcVars, UNCHANGED rmVars
      PROVE  [Promised!Next]_(Promised!psVars)
  BY <1>1 DEF Promised!psVars, GCOwners, GCHolding, RmHolding, dataVars, gcVars, rmVars
<1>2. ASSUME NEW f \in FilesClients, (\E op \in FilesOps : FilesCall(f, op)) \/ FilesStep(f),
             UNCHANGED <<gcVars, adderVars, userVars, rmVars>>
      PROVE  [Promised!Next]_(Promised!psVars)
  <2>1. TypeOK
    BY DEF IInv
  <2>2. DataTypeOK' /\ UNCHANGED <<rpins, dpins>> /\ store \subseteq store'
    BY <1>2, <2>1, FilesTypes
  <2>3. GCOwners' = GCOwners
    BY <1>2 DEF GCOwners, GCHolding, RmHolding, gcVars, rmVars
  <2> QED BY <2>2, <2>3, WriteStep DEF DataTypeOK
<1> QED
  BY <1>1, <1>2, GCRefines, RmRefines, AdderRefines, UserRefines, StepCases DEF Announce, vars

\* Adders, pin calls, removals, MFS commands and collections together, with the
\* GC lock between them, implement the promised store: pins and deletions take
\* turns, nothing protected is collected, nothing absent is pinned.
THEOREM Refinement == Spec => ImplementsPinnedStore
<1>1. Init => Promised!Init
  <2>1. Init => GCOwners = {}
    BY DEF Init, GCInit, RmInit, GCOwners, GCHolding, RmHolding, WalkPhases
  <2>2. Init => DataTypeOK
    BY InitAssumption DEF Init, DataInit, DataTypeOK
  <2> QED BY <2>1, <2>2 DEF Promised!Init, DataTypeOK
<1> QED BY <1>1, NextRefines, Held, PTL DEF Spec, ImplementsPinnedStore, Promised!Spec

-----------------------------------------------------------------------------
(***************************************************************************)
(* What adders have added.                                                 *)
(***************************************************************************)

\* Every deletion is a sweep's, of an unmarked block, or a removal's, of a
\* block it was given by a name that is not pinned.
LEMMA Deletions ==
  ASSUME IInv, HeldInv, [Next]_vars, NEW b \in store, b \notin store'
  PROVE  \/ \E g \in Collectors : gpc[g] = "sweep" /\ RawCid(b) \notin gcs[g]
         \/ \E c \in UNION RmArgs : c.hash = b /\ c \notin PinnedCids
<1> DEFINE D == \/ \E g \in Collectors : gpc[g] = "sweep" /\ RawCid(b) \notin gcs[g]
                \/ \E c \in UNION RmArgs : c.hash = b /\ c \notin PinnedCids
<1>t. TypeOK /\ PhaseInv /\ LockInv
  BY DEF IInv
<1>1. ASSUME NEW g \in Collectors, BestEffortRoots(g) \/ GCStep(g)
      PROVE  D
  <2>1. PICK h \in keychan[g] \cup store : Sweep(g, h)
    BY <1>1 DEF BestEffortRoots, GCStep, GCCall, GCLocked, Visit, LinkError, WalkError,
       StartBestEffort, MarkDirect, StartSweep, AbortMark, SweepDone, GCCancel, GCReturn, dataVars
  <2> QED BY <2>1 DEF Sweep
<1>2. ASSUME NEW r \in Removers, (\E cids \in RmArgs : RmBlocks(r, cids)) \/ RmStep(r)
      PROVE  D
  <2>1. PICK c \in stillOkay[r] : DeleteBlock(r, c)
    BY <1>2 DEF RmBlocks, RmStep, RmLocked, FilterPinned, DeletesDone, RmReturn, dataVars
  <2>2. c \notin PinnedCids /\ c \in UNION RmArgs
    BY <2>1 DEF IInv, FilterInv, HeldInv, DeleteBlock
  <2>3. c.hash = b
    BY <2>1 DEF DeleteBlock
  <2> QED BY <2>2, <2>3
<1>3. ASSUME NEW a \in Adders, AddAllAndPin(a) \/ AdderStep(a)
      PROVE  D
  BY <1>t, <1>3, AdderLockStep
<1>4. ASSUME NEW u \in Users, (\E r \in Requests : UserCall(u, r)) \/ UserStep(u)
      PROVE  D
  BY <1>t, <1>4, UserLockStep
<1>5. ASSUME NEW f \in FilesClients, (\E op \in FilesOps : FilesCall(f, op)) \/ FilesStep(f)
      PROVE  D
  BY <1>t, <1>5, FilesTypes
<1>6. ASSUME UNCHANGED dataVars PROVE D
  BY <1>6 DEF dataVars
<1> QED
  <2> HIDE DEF D
  <2>1. D
    BY <1>1, <1>2, <1>3, <1>4, <1>5, <1>6, StepCases DEF Announce, vars
  <2> QED BY <2>1 DEF D

\* The roots an adder pins are among AdderPins, and lead to all it has added.
LEMMA AdderPinRoots ==
  ASSUME IInv, NEW a \in PinAdders
  PROVE  /\ curRootNode(a) \in Cids /\ curRootNode(a) \in AdderPins
         /\ FinalRoot(a) \in Cids /\ FinalRoot(a) \in AdderPins
         /\ AdderDir(a) \in Cids
         /\ Links[AdderDir(a)] = {Files[a][k] : k \in 1 .. added[a]}
         /\ \A k \in 1 .. added[a] :
              /\ Files[a][k] \in Cids
              /\ Files[a][k] \in Reach[curRootNode(a)]
              /\ Files[a][k] \in Reach[FinalRoot(a)]
<1>a. a \in Adders
  BY AdderAssumption
<1>t. TypeOK /\ AdderInv(a)
  BY <1>a DEF IInv, PhaseInv
<1>f. /\ Files[a] \in Seq(Cids) /\ PartialDir[a] \in Seq(Cids)
      /\ Len(Files[a]) \in Nat
      /\ Len(PartialDir[a]) = Len(Files[a]) + 1
      /\ a \in AddsDirectory \/ Len(Files[a]) = 1
  BY <1>a, AdderAssumption
<1>l. \A n \in 0 .. Len(Files[a]) : Links[PartialDir[a][n + 1]] = {Files[a][k] : k \in 1 .. n}
  BY <1>a, AdderAssumption, Zenon
<1>n. added[a] \in Nat /\ added[a] <= Len(Files[a])
  BY <1>a, <1>t DEF AdderInv, TypeOK, AdderTypeOK
<1>1. curRootNode(a) \in Cids /\ FinalRoot(a) \in Cids /\ AdderDir(a) \in Cids
  BY <1>a, <1>t, AdderRoots
<1>2. Links[AdderDir(a)] = {Files[a][k] : k \in 1 .. added[a]}
  <2>1. added[a] \in 0 .. Len(Files[a])
    BY <1>f, <1>n
  <2> QED BY <1>l, <2>1, Zenon DEF AdderDir
<1>3. AdderDir(a) \in AdderPins
  <2>1. added[a] + 1 \in 1 .. Len(PartialDir[a])
    BY <1>f, <1>n
  <2> QED BY <2>1 DEF AdderDir, AdderPins
<1>4. ASSUME 1 \in 1 .. Len(Files[a]) PROVE Files[a][1] \in AdderPins
  BY <1>4 DEF AdderPins
<1>5. curRootNode(a) \in AdderPins /\ FinalRoot(a) \in AdderPins
  <2>1. added[a] = 1 => 1 \in 1 .. Len(Files[a])
    BY <1>f, <1>n
  <2>2. a \notin AddsDirectory => 1 \in 1 .. Len(Files[a])
    BY <1>f
  <2> QED BY <1>3, <1>4, <2>1, <2>2 DEF curRootNode, FinalRoot
<1>6. ASSUME NEW k \in 1 .. added[a]
      PROVE  /\ Files[a][k] \in Cids
             /\ Files[a][k] \in Reach[curRootNode(a)]
             /\ Files[a][k] \in Reach[FinalRoot(a)]
  <2>1. k \in 1 .. Len(Files[a])
    BY <1>f, <1>n
  <2>2. Files[a][k] \in Cids
    BY <2>1, <1>f
  <2>3. Files[a][k] \in Reach[AdderDir(a)]
    BY <1>1, <1>2, ReachClosed
  <2>4. Files[a][k] \in Reach[Files[a][k]]
    BY <2>2, ReachClosed
  <2>5. added[a] = 1 => k = 1
    BY <1>n
  <2>6. Len(Files[a]) = 1 => k = 1
    BY <2>1
  <2> QED BY <1>f, <2>2, <2>3, <2>4, <2>5, <2>6 DEF curRootNode, FinalRoot
<1> QED BY <1>1, <1>2, <1>5, <1>6

\* A pin of an adder stays, since no call is about to take it away.
LEMMA AdderPinStays ==
  ASSUME IInv, HeldInv, AdderPinsLeftAlone, [Next]_vars, NEW x \in AdderPins, x \in rpins
  PROVE  x \in rpins'
<1>t. TypeOK /\ PhaseInv /\ LockInv
  BY DEF IInv
<1>1. ASSUME NEW g \in Collectors, BestEffortRoots(g) \/ GCStep(g)
      PROVE  x \in rpins'
  BY <1>t, <1>1, GCLockStep
<1>2. ASSUME NEW r \in Removers, (\E cids \in RmArgs : RmBlocks(r, cids)) \/ RmStep(r)
      PROVE  x \in rpins'
  BY <1>t, <1>2, RmLockStep
<1>3. ASSUME NEW a \in Adders, AddAllAndPin(a) \/ AdderStep(a)
      PROVE  x \in rpins'
  BY <1>3 DEF AdderStep, AddAllAndPin, AddLocked, NoPause, AddFileNode, PauseRoot, PausePinRoot,
     PauseUnlock, PauseRelock, AddBlock, AddNode, AddFlush, PinRoot, AddFail, AddReturn,
     PinRecursive, dataVars
<1>4. ASSUME NEW u \in Users, (\E r \in Requests : UserCall(u, r)) \/ UserStep(u)
      PROVE  x \in rpins'
  <2>1. CASE PinDone(u)
    <3>1. ureq[u] \in Requests /\ ChangePins(ureq[u])
      BY <2>1 DEF PinDone, HeldInv, UserHeld
    <3>2. ureq[u].op \in {"rm", "update"} /\ ureq[u].flag => ureq[u].root # x
      BY <3>1 DEF AdderPinsLeftAlone
    <3> QED BY <3>1, <3>2 DEF ChangePins, PinRecursive, PinDirect, Unpin
  <2>2. CASE ~PinDone(u)
    BY <1>4, <2>2 DEF UserStep, UserCall, UserLocked, WriteNode, WritesDone, Fetch, FetchDone,
       UserFail, PinWritten, PinRecursive, UserReturn, dataVars
  <2> QED BY <2>1, <2>2
<1>5. ASSUME NEW f \in FilesClients, (\E op \in FilesOps : FilesCall(f, op)) \/ FilesStep(f)
      PROVE  x \in rpins'
  BY <1>t, <1>5, FilesTypes
<1>6. CASE UNCHANGED dataVars
  BY <1>6 DEF dataVars
<1> QED
  BY <1>1, <1>2, <1>3, <1>4, <1>5, <1>6, StepCases DEF Announce, vars

\* What is there below it stays there: it is marked, and a removal would have
\* to name it.
LEMMA AdderPinProtects ==
  ASSUME IInv, HeldInv, AdderPinsLeftAlone, [Next]_vars, NEW x \in AdderPins, x \in rpins,
         NEW d \in Reach[x], Present(d)
  PROVE  Present(d)'
<1> SUFFICES ASSUME d.hash \notin store' PROVE FALSE
  BY DEF Present
<1>1. d \in PinnedCids
  BY DEF PinnedCids
<1>2. ASSUME NEW g \in Collectors, gpc[g] = "sweep", RawCid(d.hash) \notin gcs[g]
      PROVE  FALSE
  BY <1>1, <1>2 DEF IInv, MarkInv
<1>3. ASSUME NEW c \in UNION RmArgs, c.hash = d.hash, c \notin PinnedCids
      PROVE  FALSE
  BY <1>1, <1>3 DEF AdderPinsLeftAlone
<1> QED BY <1>2, <1>3, Deletions DEF Present

\* The roots an adder is about to pin are whole.
LEMMA RootsComplete ==
  ASSUME IInv, NEW a \in PinAdders, AdderHeld(a), AddedKept(a)
  PROVE  /\ apc[a] = "pausePin" => Complete(curRootNode(a))
         /\ apc[a] = "pin" => Complete(FinalRoot(a))
<1>1. apc[a] \in {"pausePin", "pin"} => \A l \in Links[AdderDir(a)] : Complete(l)
  BY AdderPinRoots DEF AddedKept
<1>2. apc[a] \in {"pausePin", "pin"} /\ Present(AdderDir(a)) => Complete(AdderDir(a))
  BY <1>1, AdderPinRoots, CompleteFromLinks
<1>3. apc[a] = "pausePin" => Complete(curRootNode(a))
  BY <1>2 DEF curRootNode, AdderHeld
<1>4. apc[a] = "pin" => Complete(FinalRoot(a))
  BY <1>2 DEF FinalRoot, AdderHeld
<1> QED BY <1>3, <1>4

\* Steps of others: under the lock nothing goes; at a pause and after the end
\* the pin protects everything below it.
LEMMA AddedFrame ==
  ASSUME IInv, HeldInv, AdderPinsLeftAlone, [Next]_vars,
         NEW a \in PinAdders, AddedKept(a), SameAdder(a)
  PROVE  AddedKept(a)'
<1>a. a \in Adders /\ AdderTypeOK
  BY AdderAssumption DEF IInv, TypeOK
<1>r. curRootNode(a)' = curRootNode(a) /\ FinalRoot(a)' = FinalRoot(a)
  BY DEF SameAdder, curRootNode, FinalRoot, AdderDir
<1>1. /\ apc[a] \in {"pauseUnlock", "relock", "repinlock"} => curRootNode(a) \in rpins'
      /\ apc[a] \in {"unlock", "done"} => FinalRoot(a) \in rpins'
  BY AdderPinRoots, AdderPinStays DEF AddedKept
<1>2. apc[a] \in {"unlock", "done"} => Complete(FinalRoot(a))'
  <2> SUFFICES ASSUME apc[a] \in {"unlock", "done"}, NEW d \in Reach[FinalRoot(a)]
               PROVE  d.hash \in store'
    BY <1>r DEF Complete, HashesOf
  <2>1. FinalRoot(a) \in rpins /\ Present(d)
    BY DEF AddedKept, Complete, HashesOf, Present
  <2> QED BY <2>1, AdderPinRoots, AdderPinProtects DEF Present
<1>3. ASSUME apc[a] # "failed", NEW k \in 1 .. added[a]
      PROVE  Complete(Files[a][k])'
  <2> SUFFICES ASSUME NEW d \in Reach[Files[a][k]] PROVE d.hash \in store'
    BY DEF Complete, HashesOf
  <2>1. Present(d)
    BY <1>3 DEF AddedKept, Complete, HashesOf, Present
  <2>2. d \in Reach[curRootNode(a)] /\ d \in Reach[FinalRoot(a)]
    BY AdderPinRoots, ReachTrans
  <2>3. CASE AdderHolding(a)
    <3>1. store \subseteq store'
      BY <1>a, <2>3, StoreGrows DEF IInv, LockInv
    <3> QED BY <2>1, <3>1 DEF Present
  <2>4. CASE apc[a] \in {"relock", "repinlock"}
    <3>1. curRootNode(a) \in rpins
      BY <2>4 DEF AddedKept
    <3> QED BY <2>1, <2>2, <3>1, AdderPinRoots, AdderPinProtects DEF Present
  <2>5. CASE apc[a] = "done"
    <3>1. FinalRoot(a) \in rpins
      BY <2>5 DEF AddedKept
    <3> QED BY <2>1, <2>2, <3>1, AdderPinRoots, AdderPinProtects DEF Present
  <2>6. CASE apc[a] \in {"idle", "lock"}
    <3>1. added[a] = 0
      BY <2>6 DEF HeldInv, AdderHeld
    <3> QED BY <3>1
  <2> QED BY <1>a, <1>3, <2>3, <2>4, <2>5, <2>6 DEF AdderHolding, AdderTypeOK, AdderPhases
<1> QED BY <1>r, <1>1, <1>2, <1>3 DEF AddedKept, SameAdder

\* Steps of the adder itself.
LEMMA AddedStep ==
  ASSUME IInv, HeldInv, [Next]_vars, NEW a \in PinAdders, AddedKept(a), AddAllAndPin(a) \/ AdderStep(a)
  PROVE  AddedKept(a)'
<1>a. a \in Adders /\ AdderHeld(a)
  BY AdderAssumption DEF HeldInv
<1>t. TypeOK /\ PhaseInv /\ LockInv /\ AdderTypeOK
  BY DEF IInv, TypeOK
<1>n. added[a] \in Nat
  BY <1>a, <1>t DEF AdderTypeOK
<1>s. store \subseteq store'
  BY <1>a, <1>t, AdderLockStep
<1>k. \A c \in Cids : Complete(c) => Complete(c)'
  BY <1>s DEF Complete
<1>f. apc[a] # "failed" => \A k \in 1 .. added[a] : Complete(Files[a][k])'
  BY <1>k, AdderPinRoots DEF AddedKept
<1> USE DEF AdderTypeOK, AGoTo
<1>1. CASE AddNode(a)
  <2>1. /\ apc[a] = "file" /\ awrite[a] = {} /\ added'[a] = added[a] + 1
        /\ apc'[a] \in {"flush", "node"} /\ store' = store
    BY <1>1, <1>a, <1>t DEF AddNode, dataVars
  <2>2. HashesOf(Reach[Files[a][added[a] + 1]]) \subseteq store'
    BY <2>1, <1>a DEF AdderHeld
  <2>3. ASSUME NEW k \in 1 .. added'[a] PROVE Complete(Files[a][k])'
    <3>1. CASE k \in 1 .. added[a]
      BY <2>1, <3>1, <1>f
    <3>2. CASE k = added[a] + 1
      BY <2>2, <3>2 DEF Complete
    <3> QED BY <2>1, <3>1, <3>2, <1>n
  <2> QED BY <2>1, <2>3 DEF AddedKept
<1>2. CASE PausePinRoot(a)
  <2>1. apc[a] = "pausePin" /\ apc'[a] = "pauseUnlock" /\ added'[a] = added[a]
        /\ curRootNode(a) \in rpins'
    BY <1>2, <1>a, <1>t DEF PausePinRoot, PinRecursive
  <2>2. curRootNode(a)' = curRootNode(a)
    BY <2>1 DEF curRootNode, AdderDir
  <2> QED BY <2>1, <2>2, <1>f DEF AddedKept
<1>3. CASE PauseUnlock(a) \/ PauseRelock(a)
  <2>1. /\ apc[a] \in {"pauseUnlock", "relock"} /\ apc'[a] \in {"relock", "repinlock"}
        /\ added'[a] = added[a] /\ rpins' = rpins
    BY <1>3, <1>a, <1>t DEF PauseUnlock, PauseRelock, dataVars
  <2>2. curRootNode(a)' = curRootNode(a)
    BY <2>1 DEF curRootNode, AdderDir
  <2> QED BY <2>1, <2>2, <1>f DEF AddedKept
<1>4. CASE PinRoot(a)
  <2>1. apc[a] = "pin" /\ apc'[a] = "unlock" /\ added'[a] = added[a] /\ FinalRoot(a) \in rpins'
    BY <1>4, <1>a, <1>t DEF PinRoot, PinRecursive
  <2>2. FinalRoot(a)' = FinalRoot(a)
    BY <2>1 DEF FinalRoot, AdderDir
  <2>3. Complete(FinalRoot(a))
    BY <2>1, <1>a, RootsComplete
  <2>4. Complete(FinalRoot(a))'
    BY <2>2, <2>3, <1>s DEF Complete
  <2> QED BY <2>1, <2>2, <2>4, <1>f DEF AddedKept
<1>5. CASE AddReturn(a)
  <2>1. /\ apc[a] \in {"unlock", "failUnlock"} /\ added'[a] = added[a]
        /\ apc'[a] = IF apc[a] = "unlock" THEN "done" ELSE "failed"
        /\ UNCHANGED dataVars
    BY <1>5, <1>a, <1>t DEF AddReturn
  <2>2. FinalRoot(a)' = FinalRoot(a) /\ rpins' = rpins /\ store' = store
    BY <2>1 DEF FinalRoot, AdderDir, dataVars
  <2> QED BY <2>1, <2>2, <1>f DEF AddedKept, Complete
<1>6. CASE AddAllAndPin(a) \/ AddLocked(a) \/ NoPause(a) \/ AddFileNode(a) \/ PauseRoot(a)
           \/ AddFlush(a) \/ AddFail(a) \/ \E h \in awrite[a] : AddBlock(a, h)
  <2>1. /\ apc[a] # "failed" /\ added'[a] = added[a]
        /\ apc'[a] \notin {"pauseUnlock", "relock", "repinlock", "unlock", "done"}
    BY <1>6, <1>a, <1>t DEF AddAllAndPin, AddLocked, NoPause, AddFileNode, PauseRoot, AddFlush,
       AddFail, AddBlock
  <2> QED BY <2>1, <1>f DEF AddedKept
<1> QED
  BY <1>1, <1>2, <1>3, <1>4, <1>5, <1>6 DEF AdderStep

\* The invariant of the adders, for a node that leaves their pins alone.
THEOREM Added ==
  ASSUME AdderPinsLeftAlone
  PROVE  Spec => [](IInv /\ HeldInv /\ AddedInv)
<1>1. Init => AddedInv
  BY AdderAssumption DEF Init, AdderInit, AddedInv, AddedKept
<1>2. IInv /\ HeldInv /\ AddedInv /\ [Next]_vars => AddedInv'
  <2> SUFFICES ASSUME IInv, HeldInv, AddedInv, [Next]_vars, NEW a \in PinAdders
               PROVE  AddedKept(a)'
    BY DEF AddedInv
  <2>1. a \in Adders /\ AddedKept(a) /\ TypeOK
    BY AdderAssumption DEF AddedInv, IInv
  <2>2. ASSUME NEW b \in Adders, AddAllAndPin(b) \/ AdderStep(b)
        PROVE  AddedKept(a)'
    BY <2>1, <2>2, AddedStep, AddedFrame, OtherAdders
  <2>3. CASE UNCHANGED adderVars
    BY <2>1, <2>3, AddedFrame DEF SameAdder, adderVars
  <2> QED BY <2>2, <2>3, StepCases DEF Announce, vars
<1> QED BY <1>1, <1>2, Held, PTL DEF Spec

\* What an adder with Pin has added stays whole, through every collection it
\* pauses for, and the root it returns is pinned and whole.
THEOREM AddedSafe ==
  ASSUME AdderPinsLeftAlone
  PROVE  Spec => []AddedBlocksKept
<1>1. AddedInv => AddedBlocksKept
  BY DEF AddedInv, AddedKept, AddedBlocksKept
<1> QED BY <1>1, Added, PTL

\* Every recursive pin that an add, a pin call, an import or an update records
\* is complete when it is recorded.
THEOREM PinsComplete ==
  ASSUME AdderPinsLeftAlone
  PROVE  Spec => NewPinsComplete
<1>1. IInv /\ HeldInv /\ AddedInv /\ [Next]_vars =>
        [\A c \in rpins' \ rpins : ClaimsComplete(c) => HashesOf(Reach[c]) \subseteq store']_vars
  <2> SUFFICES ASSUME IInv, HeldInv, AddedInv, [Next]_vars,
                      NEW c \in rpins' \ rpins, ClaimsComplete(c)
               PROVE  HashesOf(Reach[c]) \subseteq store'
    OBVIOUS
  <2>t. TypeOK /\ PhaseInv /\ LockInv
    BY DEF IInv
  <2>1. ASSUME NEW a \in Adders, AddAllAndPin(a) \/ AdderStep(a)
        PROVE  HashesOf(Reach[c]) \subseteq store'
    <3>1. PausePinRoot(a) \/ PinRoot(a)
      BY <2>1 DEF AdderStep, AddAllAndPin, AddLocked, NoPause, AddFileNode, PauseRoot, PauseUnlock,
         PauseRelock, AddBlock, AddNode, AddFlush, AddFail, AddReturn, dataVars
    <3>2. a \in PinAdders
      BY <3>1, <2>t DEF PausePinRoot, PinRoot, PhaseInv, AdderInv, PinPhases
    <3>3. Complete(c)
      BY <3>1, <3>2, RootsComplete
      DEF PausePinRoot, PinRoot, PinRecursive, HeldInv, AddedInv
    <3>4. store \subseteq store'
      BY <2>1, <2>t, AdderLockStep
    <3> QED BY <3>3, <3>4 DEF Complete
  <2>2. ASSUME NEW u \in Users, (\E r \in Requests : UserCall(u, r)) \/ UserStep(u)
        PROVE  HashesOf(Reach[c]) \subseteq store'
    <3>h. UserHeld(u)
      BY DEF HeldInv
    <3>1. ASSUME NEW d \in uwrite[u], PinWritten(u, d) PROVE FALSE
      <4>1. c = d /\ upc[u] = "pin" /\ ureq[u].op = "put"
        BY <3>1, <3>h DEF PinWritten, PinRecursive, UserHeld
      <4> QED BY <4>1 DEF ClaimsComplete
    <3>2. CASE PinDone(u)
      <4> DEFINE r == ureq[u]
      <4>1. upc[u] = "pin" /\ ChangePins(r) /\ store' = store
        BY <3>2 DEF PinDone
      <4>2. FirstPhase(r) = "fetch" => HashesOf(Wanted(r)) \subseteq store
        BY <4>1, <3>h DEF UserHeld
      <4>3. CASE r.op = "add"
        <5>1. r.flag /\ c = r.root
          BY <4>1, <4>3 DEF ChangePins, PinRecursive, PinDirect
        <5> QED BY <4>1, <4>2, <4>3, <5>1 DEF FirstPhase, Wanted
      <4>4. CASE r.op = "update"
        <5>1. c = r.to
          BY <4>1, <4>4 DEF ChangePins
        <5>2. Complete(r.root)
          BY <4>1, <4>4 DEF ClaimsComplete
        <5>3. HashesOf(Wanted(r)) \subseteq store
          BY <4>2, <4>4 DEF FirstPhase
        <5>4. ASSUME NEW d \in Reach[r.to] PROVE d.hash \in store
          BY <4>4, <5>2, <5>3 DEF Wanted, Complete, HashesOf
        <5> QED BY <4>1, <5>1, <5>4 DEF HashesOf
      <4>5. CASE r.op = "import"
        BY <4>1, <4>5 DEF ChangePins, PinRecursive, Complete
      <4>6. CASE r.op \in {"rm", "put"}
        BY <4>1, <4>6 DEF ChangePins, Unpin
      <4> QED BY <4>1, <4>3, <4>4, <4>5, <4>6 DEF ChangePins
    <3>3. CASE ~PinDone(u) /\ ~(\E d \in uwrite[u] : PinWritten(u, d))
      BY <2>2, <3>3 DEF UserStep, UserCall, UserLocked, WriteNode, WritesDone, Fetch, FetchDone,
         UserFail, UserReturn, dataVars
    <3> QED BY <3>1, <3>2, <3>3
  <2>3. ASSUME UNCHANGED rpins
        PROVE  HashesOf(Reach[c]) \subseteq store'
    BY <2>3
  <2> QED
    BY <2>t, <2>1, <2>2, <2>3, GCLockStep, RmLockStep, FilesTypes, StepCases
    DEF Announce, vars, dataVars
<1> QED BY <1>1, Added, PTL DEF Spec, NewPinsComplete

-----------------------------------------------------------------------------
(***************************************************************************)
(* The MFS tree that nobody replaces.                                      *)
(***************************************************************************)

\* The best-effort walk over a tree that is whole misses none of it.
LEMMA TreeVisit ==
  ASSUME IInv, Complete(Mfs0), NEW g \in Collectors, TreeMarked(g), gpc[g] = "bestEffort",
         ~gerrors[g], NEW c \in gtodo[g], Visit(g, c)
  PROVE  /\ Mfs0 \in gtodo'[g] \/ Seen(g, Mfs0)'
         /\ \A d \in Reach[Mfs0] :
              Seen(g, d)' => \A l \in Links[d] : l \in gtodo'[g] \/ Seen(g, l)'
<1>t. GCTypeOK /\ c \in Cids /\ Mfs0 \in Cids
  BY InitAssumption DEF IInv, TypeOK, GCTypeOK
<1>1. /\ gcs'[g] = gcs[g] \cup {toCidV1(c)}
      /\ gtodo'[g] = (gtodo[g] \ {c}) \cup (IF ~Seen(g, c) /\ Present(c) THEN Links[c] ELSE {})
  BY <1>t DEF GCTypeOK, Visit
<1>2. \A l : l \in gtodo[g] \/ Seen(g, l) => l \in gtodo'[g] \/ Seen(g, l)'
  BY <1>1 DEF Seen
<1>3. ASSUME NEW d \in Reach[Mfs0], Seen(g, d)', NEW l \in Links[d]
      PROVE  l \in gtodo'[g] \/ Seen(g, l)'
  <2>1. CASE Seen(g, d)
    BY <2>1, <1>2 DEF TreeMarked
  <2>2. CASE ~Seen(g, d)
    <3>1. d \in Cids /\ toCidV1(d) = toCidV1(c)
      BY <1>1, <1>3, <1>t, <2>2, ReachType DEF Seen
    <3>2. c.hash = d.hash /\ Links[c] = Links[d]
      BY <3>1, <1>t, ToCidV1
    <3>3. Present(d)
      BY <1>t, CompleteBelow
    <3>4. ~Seen(g, c) /\ Present(c)
      BY <2>2, <3>1, <3>2, <3>3 DEF Seen, Present
    <3> QED BY <1>1, <3>2, <3>4
  <2> QED BY <2>1, <2>2
<1>4. Mfs0 \in gtodo'[g] \/ Seen(g, Mfs0)'
  BY <1>2 DEF TreeMarked
<1> QED BY <1>3, <1>4

\* A collection's own step keeps its part of the invariant: it was given the
\* tree as its best-effort root, and an error in either walk stops it.
LEMMA TreeStep ==
  ASSUME IInv, filesRoot = Mfs0, Complete(Mfs0), NEW g \in Collectors, TreeMarked(g),
         BestEffortRoots(g) \/ GCStep(g)
  PROVE  TreeMarked(g)'
<1>t. GCTypeOK /\ MarkInv(g) /\ Mfs0 \in Cids
  BY InitAssumption DEF IInv, TypeOK
<1> USE DEF GCTypeOK, GoTo
<1>1. CASE BestEffortRoots(g) \/ GCCall(g) \/ GCLocked(g)
  BY <1>1, <1>t DEF BestEffortRoots, GCCall, GCLocked, TreeMarked
<1>2. ASSUME NEW c \in gtodo[g], Visit(g, c)
      PROVE  TreeMarked(g)'
  <2>1. gpc'[g] = gpc[g] /\ gpc[g] \in WalkPhases /\ gcRoots'[g] = gcRoots[g]
    BY <1>2 DEF Visit
  <2>2. gerrors'[g] = (gerrors[g] \/ (gpc[g] = "recursive" /\ ~Seen(g, c) /\ ~Present(c)))
    BY <1>2, <1>t, Zenon DEF Visit
  <2>3. CASE gpc[g] = "bestEffort" /\ ~gerrors[g]
    BY <1>2, <2>1, <2>3, TreeVisit DEF TreeMarked
  <2>4. CASE ~(gpc[g] = "bestEffort" /\ ~gerrors[g])
    BY <2>1, <2>2, <2>4 DEF TreeMarked, WalkPhases
  <2> QED BY <2>3, <2>4
<1>3. ASSUME NEW c \in gtodo[g], LinkError(g, c)
      PROVE  TreeMarked(g)'
  <2>1. /\ gpc'[g] = gpc[g] /\ gpc[g] \in WalkPhases /\ gcRoots'[g] = gcRoots[g]
        /\ gerrors'[g]
    BY <1>3, <1>t DEF LinkError
  <2> QED BY <2>1 DEF TreeMarked, WalkPhases
<1>4. CASE WalkError(g)
  <2>1. /\ gpc'[g] = gpc[g] /\ gpc[g] \in WalkPhases /\ gcRoots'[g] = gcRoots[g]
        /\ gerrors'[g]
    BY <1>4, <1>t DEF WalkError
  <2> QED BY <2>1 DEF TreeMarked, WalkPhases
<1>5. CASE StartBestEffort(g)
  <2>1. /\ gpc[g] = "recursive" /\ gpc'[g] = "bestEffort" /\ gtodo[g] = {}
        /\ gtodo'[g] = gcRoots[g] /\ gcRoots' = gcRoots /\ gcs' = gcs /\ gerrors' = gerrors
    BY <1>5, <1>t DEF StartBestEffort
  <2>2. ~gerrors[g] => WalkInv(g)
    BY <2>1, <1>t DEF MarkInv
  <2>3. ASSUME ~gerrors[g], NEW d \in Reach[Mfs0], Seen(g, d), NEW l \in Links[d]
        PROVE  Seen(g, l)'
    <3>1. d \in Cids /\ Links[toCidV1(d)] = Links[d]
      BY <1>t, ReachType, ToCidV1
    <3> QED BY <2>1, <2>2, <2>3, <3>1 DEF WalkInv, Seen
  <2>4. Mfs0 \in gtodo'[g] /\ gcRoots'[g] = {Mfs0}
    BY <2>1 DEF TreeMarked
  <2>5. \A d : Seen(g, d)' = Seen(g, d)
    BY <2>1 DEF Seen
  <2> QED BY <2>1, <2>3, <2>4, <2>5 DEF TreeMarked
<1>6. CASE MarkDirect(g)
  <2>1. /\ gpc[g] = "bestEffort" /\ gpc'[g] = "direct" /\ gtodo[g] = {}
        /\ gcs[g] \subseteq gcs'[g] /\ gcRoots' = gcRoots /\ gerrors' = gerrors
    BY <1>6, <1>t DEF MarkDirect
  <2>2. ASSUME ~gerrors[g] PROVE \A d \in Reach[Mfs0] : Seen(g, d)'
    <3> DEFINE S == {d \in Reach[Mfs0] : Seen(g, d)}
    <3>1. S \in SUBSET Cids
      BY <1>t, ReachType
    <3>2. Mfs0 \in S
      BY <2>1, <2>2, <1>t, ReachClosed DEF TreeMarked
    <3>3. LinkClosed(S)
      <4> SUFFICES ASSUME NEW d \in S, NEW l \in Links[d] PROVE l \in S
        BY DEF LinkClosed
      <4>1. l \in Reach[Mfs0]
        BY <1>t, ReachClosed DEF LinkClosed
      <4>2. Seen(g, l)
        BY <2>1, <2>2 DEF TreeMarked
      <4> QED BY <4>1, <4>2
    <3>4. Reach[Mfs0] \subseteq S
      BY <3>1, <3>2, <3>3, <1>t, ReachLeast
    <3> QED BY <2>1, <3>4 DEF Seen
  <2> QED BY <2>1, <2>2 DEF TreeMarked
<1>7. CASE StartSweep(g)
  <2>1. /\ gpc[g] = "direct" /\ gpc'[g] = "sweep" /\ ~gerrors[g]
        /\ gcs'[g] = toRawCids(gcs[g]) /\ gcRoots' = gcRoots
    BY <1>7, <1>t DEF StartSweep
  <2>2. ASSUME NEW d \in Reach[Mfs0] PROVE RawCid(d.hash) \in gcs'[g]
    <3>1. toCidV1(d) \in gcs[g]
      BY <2>1 DEF TreeMarked, Seen
    <3>2. toCidV1(d).hash = d.hash
      BY <1>t, ReachType, ToCidV1
    <3> QED BY <2>1, <3>1, <3>2 DEF toRawCids
  <2> QED BY <2>1, <2>2 DEF TreeMarked
<1>8. ASSUME NEW h \in keychan[g] \cup store, Sweep(g, h)
      PROVE  TreeMarked(g)'
  BY <1>8 DEF Sweep, TreeMarked
<1>9. CASE AbortMark(g) \/ SweepDone(g) \/ GCCancel(g)
  <2>1. gpc'[g] = "unlock" /\ gpc[g] # "idle" /\ gcRoots' = gcRoots
    BY <1>9, <1>t DEF AbortMark, SweepDone, GCCancel, WalkPhases
  <2> QED BY <2>1 DEF TreeMarked
<1>10. CASE GCReturn(g)
  <2>1. gpc'[g] = "idle"
    BY <1>10, <1>t DEF GCReturn
  <2> QED BY <2>1 DEF TreeMarked
<1> QED
  BY <1>1, <1>2, <1>3, <1>4, <1>5, <1>6, <1>7, <1>8, <1>9, <1>10 DEF GCStep

\* Only files commands move the MFS root, and never back to the first tree.
LEMMA FirstTreeGone ==
  ASSUME IInv, TreeInv, FirstTreeLeftAlone, [Next]_vars
  PROVE  /\ \A f \in FilesClients : fpc'[f] = "write" => froot'[f] # Mfs0
         /\ filesRoot' = Mfs0 => filesRoot = Mfs0
<1> DEFINE P == /\ \A f \in FilesClients : fpc'[f] = "write" => froot'[f] # Mfs0
                /\ filesRoot' = Mfs0 => filesRoot = Mfs0
<1>t. TypeOK /\ PhaseInv /\ LockInv /\ FilesTypeOK
  BY DEF IInv, TypeOK
<1>1. ASSUME NEW f \in FilesClients, (\E op \in FilesOps : FilesCall(f, op)) \/ FilesStep(f)
      PROVE  P
  <2>1. CASE \E op \in FilesOps : FilesCall(f, op)
    BY <2>1, <1>t DEF FilesCall, FilesTypeOK, FirstTreeLeftAlone, TreeInv, dataVars
  <2>2. CASE \E c \in fwrite[f] : FilesWrite(f, c)
    BY <2>2 DEF FilesWrite, TreeInv
  <2>3. CASE FilesDone(f) \/ FilesFail(f)
    BY <2>3, <1>t DEF FilesDone, FilesFail, FilesTypeOK, TreeInv, dataVars
  <2> QED BY <1>1, <2>1, <2>2, <2>3 DEF FilesStep
<1>2. ASSUME UNCHANGED filesVars, UNCHANGED filesRoot
      PROVE  P
  BY <1>2 DEF TreeInv, filesVars
<1>3. ASSUME NEW g \in Collectors, BestEffortRoots(g) \/ GCStep(g)
      PROVE  UNCHANGED filesRoot
  BY <1>3 DEF BestEffortRoots, GCStep, GCCall, GCLocked, Visit, LinkError, WalkError,
     StartBestEffort, MarkDirect, StartSweep, AbortMark, Sweep, SweepDone, GCCancel, GCReturn,
     dataVars
<1>4. ASSUME NEW a \in Adders, AddAllAndPin(a) \/ AdderStep(a)
      PROVE  UNCHANGED filesRoot
  BY <1>t, <1>4, AdderLockStep
<1>5. ASSUME NEW u \in Users, (\E r \in Requests : UserCall(u, r)) \/ UserStep(u)
      PROVE  UNCHANGED filesRoot
  BY <1>t, <1>5, UserLockStep
<1>6. ASSUME NEW r \in Removers, (\E cids \in RmArgs : RmBlocks(r, cids)) \/ RmStep(r)
      PROVE  UNCHANGED filesRoot
  BY <1>t, <1>6, RmLockStep
<1> QED
  <2> HIDE DEF P
  <2>1. P
    BY <1>1, <1>2, <1>3, <1>4, <1>5, <1>6, StepCases DEF Announce, vars, dataVars
  <2> QED BY <2>1 DEF P

\* The invariant of the first tree, for a node that leaves it alone.
LEMMA NextTree ==
  ASSUME FirstTreeLeftAlone
  PROVE  IInv /\ HeldInv /\ TreeInv /\ [Next]_vars => TreeInv'
<1> SUFFICES ASSUME IInv, HeldInv, TreeInv, [Next]_vars PROVE TreeInv'
  OBVIOUS
<1>1. /\ \A f \in FilesClients : fpc'[f] = "write" => froot'[f] # Mfs0
      /\ filesRoot' = Mfs0 => filesRoot = Mfs0
  BY FirstTreeGone
<1>2. ASSUME filesRoot = Mfs0 PROVE Complete(Mfs0)'
  <2> SUFFICES ASSUME NEW d \in Reach[Mfs0], d.hash \notin store' PROVE FALSE
    BY DEF Complete, HashesOf
  <2>1. d.hash \in store
    BY <1>2 DEF TreeInv, Complete, HashesOf
  <2>2. ASSUME NEW g \in Collectors, gpc[g] = "sweep", RawCid(d.hash) \notin gcs[g]
        PROVE  FALSE
    BY <1>2, <2>2 DEF TreeInv, TreeMarked
  <2>3. ASSUME NEW c \in UNION RmArgs, c.hash = d.hash
        PROVE  FALSE
    BY <2>3 DEF FirstTreeLeftAlone, HashesOf
  <2> QED BY <2>1, <2>2, <2>3, Deletions
<1>3. ASSUME filesRoot = Mfs0, NEW g \in Collectors PROVE TreeMarked(g)'
  <2>1. TreeMarked(g) /\ Complete(Mfs0)
    BY <1>3 DEF TreeInv
  <2>2. ASSUME SameCollection(g) PROVE TreeMarked(g)'
    BY <2>1, <2>2 DEF SameCollection, TreeMarked, Seen
  <2>3. ASSUME NEW k \in Collectors, BestEffortRoots(k) \/ GCStep(k)
        PROVE  TreeMarked(g)'
    <3>1. CASE k = g
      BY <1>3, <2>1, <2>3, <3>1, TreeStep
    <3>2. CASE k # g
      <4>1. SameCollection(g)
        BY <2>3, <3>2, GCLockStep DEF IInv
      <4> QED BY <2>2, <4>1
    <3> QED BY <3>1, <3>2
  <2>4. CASE UNCHANGED gcVars
    BY <2>2, <2>4 DEF SameCollection, gcVars
  <2> QED BY <2>3, <2>4, StepCases DEF Announce, vars
<1> QED BY <1>1, <1>2, <1>3 DEF TreeInv

\* As long as no files command has replaced the first MFS tree, every
\* collection keeps all of it.
THEOREM TreeKept ==
  ASSUME FirstTreeLeftAlone
  PROVE  Spec => []UntouchedTreeKept
<1>1. Init => TreeInv
  <2> SUFFICES ASSUME Init PROVE TreeInv
    OBVIOUS
  <2>1. Complete(Mfs0)
    BY DEF Init, DataInit, FirstTreeLeftAlone, Complete
  <2>2. \A g \in Collectors : TreeMarked(g)
    BY DEF Init, GCInit, TreeMarked
  <2>3. \A f \in FilesClients : fpc[f] # "write"
    BY DEF Init, FilesInit
  <2> QED BY <2>1, <2>2, <2>3 DEF TreeInv
<1>2. TreeInv => UntouchedTreeKept
  BY DEF TreeInv, UntouchedTreeKept
<1> QED BY <1>1, <1>2, NextTree, Held, PTL DEF Spec
=============================================================================
