------------------------------- MODULE Adder -------------------------------
(***************************************************************************)
(* `ipfs add` (core/coreunix/add.go): AddAllAndPin walks the given files   *)
(* with addFileNode, which first lets a waiting collection run             *)
(* (maybePauseForGC) and then writes the file's blocks.  One run of the    *)
(* adder is modelled per member of Adders.                                 *)
(*                                                                         *)
(* The tree being built is described by constants: Files[a] are the roots  *)
(* of the files, in order, and PartialDir[a][n + 1] is the directory that  *)
(* holds the first n of them.                                              *)
(***************************************************************************)
EXTENDS NodeState

CONSTANTS Adders,
          Files,         \* Files[a] : Seq(Cids)
          PartialDir,    \* PartialDir[a] : Seq(Cids), one longer
          AddsDirectory, \* the adders whose argument is a directory
          PinAdders      \* the adders with Pin set (the default)

ASSUME AdderAssumption ==
  /\ Files \in [Adders -> Seq(Cids)]
  /\ PartialDir \in [Adders -> Seq(Cids)]
  /\ AddsDirectory \subseteq Adders
  /\ PinAdders \subseteq Adders
  /\ \A a \in Adders :
       /\ Len(PartialDir[a]) = Len(Files[a]) + 1
       /\ a \in AddsDirectory \/ Len(Files[a]) = 1
       /\ \A n \in 0 .. Len(Files[a]) :
            Links[PartialDir[a][n + 1]] = {Files[a][k] : k \in 1 .. n}

VARIABLES apc,         \* where each adder is
          indir,       \* has it entered the directory it was given?
          added,       \* how many files it has put in its tree
          awrite       \* blocks of the current file still to be written

adderVars == <<apc, indir, added, awrite>>

AdderPhases == {"idle", "lock", "node", "pausePin", "pauseUnlock", "relock",
                "repinlock", "enter", "file", "flush", "pin", "unlock",
                "failUnlock", "done", "failed"}

\* The adder's own goroutine is between PinLock's return and Unlock.
AdderHolding(a) ==
  /\ a \in PinAdders
  /\ apc[a] \in {"node", "pausePin", "pauseUnlock", "enter", "file",
                 "flush", "pin", "unlock", "failUnlock"}

AdderInit ==
  /\ apc = [a \in Adders |-> "idle"]
  /\ indir = [a \in Adders |-> FALSE]
  /\ added = [a \in Adders |-> 0]
  /\ awrite = [a \in Adders |-> {}]

AdderTypeOK ==
  /\ apc \in [Adders -> AdderPhases]
  /\ indir \in [Adders -> BOOLEAN]
  /\ added \in [Adders -> Nat]
  /\ awrite \in [Adders -> SUBSET Block]

AGoTo(a, phase) == apc' = [apc EXCEPT ![a] = phase]

AdderDir(a) == PartialDir[a][added[a] + 1]

\* curRootNode: a tree with one entry is represented by that entry.
curRootNode(a) == IF added[a] = 1 THEN Files[a][1] ELSE AdderDir(a)

\* The root AddAllAndPin returns and pins.
FinalRoot(a) == IF a \in AddsDirectory THEN AdderDir(a) ELSE Files[a][1]

\* AddAllAndPin: take the pin lock if the result is to be pinned.
AddAllAndPin(a) ==
  /\ apc[a] = "idle"
  /\ IF a \in PinAdders
     THEN PinLock(a) /\ AGoTo(a, "lock")
     ELSE AGoTo(a, "node") /\ UNCHANGED lockVars
  /\ UNCHANGED <<indir, added, awrite, dataVars>>

\* PinLock has returned, at the start or after a pause.
AddLocked(a) ==
  /\ apc[a] \in {"lock", "repinlock"}
  /\ a \in readers
  /\ AGoTo(a, IF apc[a] = "lock" THEN "node" ELSE "enter")
  /\ UNCHANGED <<indir, added, awrite, dataVars, lockVars>>

\* addFileNode with no collection waiting, or no lock to give up.
NoPause(a) ==
  /\ apc[a] = "node"
  /\ a \notin PinAdders \/ ~GCRequested
  /\ AGoTo(a, "enter")
  /\ UNCHANGED <<indir, added, awrite, dataVars, lockVars>>

\* The rest of addFileNode: flush the tree if the cache of live nodes is full;
\* then addDir goes to its first entry, addFile starts writing.
AddFileNode(a) ==
  /\ apc[a] = "enter"
  /\ store' = store \/ store' = store \cup {AdderDir(a).hash}
  /\ IF a \in AddsDirectory /\ ~indir[a]
     THEN /\ indir' = [indir EXCEPT ![a] = TRUE]
          /\ AGoTo(a, IF Files[a] = << >> THEN "flush" ELSE "node")
          /\ UNCHANGED awrite
     ELSE /\ awrite' = [awrite EXCEPT ![a] = HashesOf(Reach[Files[a][added[a] + 1]])]
          /\ AGoTo(a, "file")
          /\ UNCHANGED indir
  /\ UNCHANGED <<added, rpins, dpins, filesRoot, lockVars>>

\* maybePauseForGC: curRootNode writes the partial directory...
PauseRoot(a) ==
  /\ apc[a] = "node"
  /\ a \in PinAdders
  /\ GCRequested
  /\ AGoTo(a, "pausePin")
  /\ store' = store \cup {AdderDir(a).hash}
  /\ UNCHANGED <<indir, added, awrite, rpins, dpins, filesRoot, lockVars>>

\* Mutant: the adder pauses without pinning what it has.
PauseWithoutPin(a) ==
  /\ apc[a] = "pausePin"
  /\ store' = store \cup {curRootNode(a).hash}
  /\ AGoTo(a, "pauseUnlock")
  /\ UNCHANGED <<indir, added, awrite, rpins, dpins, filesRoot, lockVars>>

\* ... PinRoot pins it.  (tempRoot is never set, so nothing is unpinned.)
PausePinRoot(a) ==
  /\ apc[a] = "pausePin"
  /\ store' = store \cup {curRootNode(a).hash}
  /\ PinRecursive({curRootNode(a)})
  /\ AGoTo(a, "pauseUnlock")
  /\ UNCHANGED <<indir, added, awrite, filesRoot, lockVars>>

PauseUnlock(a) ==
  /\ apc[a] = "pauseUnlock"
  /\ PinUnlock(a)
  /\ AGoTo(a, "relock")
  /\ UNCHANGED <<indir, added, awrite, dataVars>>

PauseRelock(a) ==
  /\ apc[a] = "relock"
  /\ PinLock(a)
  /\ AGoTo(a, "repinlock")
  /\ UNCHANGED <<indir, added, awrite, dataVars>>

\* addFile: the chunks and inner nodes are written in batches, in any order.
AddBlock(a, h) ==
  /\ apc[a] = "file"
  /\ h \in awrite[a]
  /\ store' = store \cup {h}
  /\ awrite' = [awrite EXCEPT ![a] = @ \ {h}]
  /\ UNCHANGED <<apc, indir, added, rpins, dpins, filesRoot, lockVars>>

\* addNode: put the file in the tree; then the next entry, if any.
AddNode(a) ==
  /\ apc[a] = "file"
  /\ awrite[a] = {}
  /\ added' = [added EXCEPT ![a] = @ + 1]
  /\ AGoTo(a, IF added[a] + 1 = Len(Files[a]) THEN "flush" ELSE "node")
  /\ UNCHANGED <<indir, awrite, dataVars, lockVars>>

\* root.Flush, mr.Close and Sync write the directory.
AddFlush(a) ==
  /\ apc[a] = "flush"
  /\ store' = store \cup {AdderDir(a).hash}
  /\ AGoTo(a, IF a \in PinAdders THEN "pin" ELSE "done")
  /\ UNCHANGED <<indir, added, awrite, rpins, dpins, filesRoot, lockVars>>

\* PinRoot of the final root.
PinRoot(a) ==
  /\ apc[a] = "pin"
  /\ store' = store \cup {FinalRoot(a).hash}
  /\ PinRecursive({FinalRoot(a)})
  /\ AGoTo(a, "unlock")
  /\ UNCHANGED <<indir, added, awrite, filesRoot, lockVars>>

\* Any of the calls may fail (reader, store, pinner, context): the deferred
\* unlock runs.
AddFail(a) ==
  /\ apc[a] \in {"node", "pausePin", "enter", "file", "flush", "pin"}
  /\ AGoTo(a, IF a \in PinAdders THEN "failUnlock" ELSE "failed")
  /\ awrite' = [awrite EXCEPT ![a] = {}]
  /\ UNCHANGED <<indir, added, dataVars, lockVars>>

\* Mutant: the error path returns without unlocking.
AddReturnLeak(a) ==
  /\ apc[a] \in {"unlock", "failUnlock"}
  /\ IF apc[a] = "unlock" THEN PinUnlock(a) ELSE UNCHANGED lockVars
  /\ AGoTo(a, IF apc[a] = "unlock" THEN "done" ELSE "failed")
  /\ UNCHANGED <<indir, added, awrite, dataVars>>

AddReturn(a) ==
  /\ apc[a] \in {"unlock", "failUnlock"}
  /\ PinUnlock(a)
  /\ AGoTo(a, IF apc[a] = "unlock" THEN "done" ELSE "failed")
  /\ UNCHANGED <<indir, added, awrite, dataVars>>

AdderStep(a) ==
  \/ AddLocked(a) \/ NoPause(a) \/ AddFileNode(a)
  \/ PauseRoot(a) \/ PausePinRoot(a) \/ PauseUnlock(a) \/ PauseRelock(a)
  \/ \E h \in awrite[a] : AddBlock(a, h)
  \/ AddNode(a) \/ AddFlush(a) \/ PinRoot(a) \/ AddFail(a) \/ AddReturn(a)

AdderNext == \E a \in Adders : AddAllAndPin(a) \/ AdderStep(a)
=============================================================================
