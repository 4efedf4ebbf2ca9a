---------------------------- MODULE FilesClient ----------------------------
(***************************************************************************)
(* The `ipfs files` commands that change the MFS tree                      *)
(* (core/commands/files.go), seen from the block store: the command writes *)
(* the blocks of the new tree that are its own and then makes it the root. *)
(* None of them takes the pin lock.  A copy is lazy: it links to content   *)
(* that need not be local, and reading it later fetches single blocks.     *)
(***************************************************************************)
EXTENDS NodeState

CONSTANTS FilesClients,
          FilesOps     \* what a command may do: [root, writes] records

ASSUME FilesAssumption ==
  \A op \in FilesOps : op.root \in Cids /\ op.writes \subseteq Cids

VARIABLES fpc,         \* where each command is
          froot,       \* the tree it builds
          fwrite       \* its blocks still to be written

filesVars == <<fpc, froot, fwrite>>

FilesPhases == {"idle", "write"}

FilesInit ==
  /\ fpc = [f \in FilesClients |-> "idle"]
  /\ froot = [f \in FilesClients |-> Mfs0]
  /\ fwrite = [f \in FilesClients |-> {}]

FilesTypeOK ==
  /\ fpc \in [FilesClients -> FilesPhases]
  /\ froot \in [FilesClients -> Cids]
  /\ fwrite \in [FilesClients -> SUBSET Cids]

FilesCall(f, op) ==
  /\ fpc[f] = "idle"
  /\ fpc' = [fpc EXCEPT ![f] = "write"]
  /\ froot' = [froot EXCEPT ![f] = op.root]
  /\ fwrite' = [fwrite EXCEPT ![f] = op.writes]
  /\ UNCHANGED <<dataVars, lockVars>>

FilesWrite(f, c) ==
  /\ fpc[f] = "write"
  /\ c \in fwrite[f]
  /\ store' = store \cup {c.hash}
  /\ fwrite' = [fwrite EXCEPT ![f] = @ \ {c}]
  /\ UNCHANGED <<fpc, froot, rpins, dpins, filesRoot, lockVars>>

\* The new tree replaces the old one (--flush), and the command returns.
FilesDone(f) ==
  /\ fpc[f] = "write"
  /\ fwrite[f] = {}
  /\ filesRoot' = froot[f]
  /\ fpc' = [fpc EXCEPT ![f] = "idle"]
  /\ froot' = [froot EXCEPT ![f] = Mfs0]
  /\ UNCHANGED <<fwrite, store, rpins, dpins, lockVars>>

FilesFail(f) ==
  /\ fpc[f] = "write"
  /\ fpc' = [fpc EXCEPT ![f] = "idle"]
  /\ froot' = [froot EXCEPT ![f] = Mfs0]
  /\ fwrite' = [fwrite EXCEPT ![f] = {}]
  /\ UNCHANGED <<dataVars, lockVars>>

FilesStep(f) ==
  \/ \E c \in fwrite[f] : FilesWrite(f, c)
  \/ FilesDone(f) \/ FilesFail(f)

FilesNext == \E f \in FilesClients : (\E op \in FilesOps : FilesCall(f, op)) \/ FilesStep(f)
=============================================================================
