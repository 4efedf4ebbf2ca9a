------------------------------ MODULE FuseMount ------------------------------
(***************************************************************************)
(* `ipfs mount` and the mounts of a node: core/commands/mount_unix.go,     *)
(* fuse/node/mount_unix.go, fuse/mount.  A command mounts the file systems *)
(* in parallel, all or none; each mount is served by a goroutine of its    *)
(* own and belongs to the node's process, which unmounts it when the node  *)
(* closes.  Unmounting works by mount point, whoever mounted there last.   *)
(***************************************************************************)
EXTENDS Naturals, Sequences, FiniteSets

CONSTANTS
  MountKinds,   \* the file systems: ipfs, ipns and mfs, or fewer
  MountCmds,    \* the daemon's own mounting at its start and runs of `ipfs mount`: 1, 2, ...
  MaxMounting,  \* bound on the number of commands that run at a time
  FaultyKinds,  \* those whose unmounts and servers may fail, and that are unmounted by hand
  MaxFuseFaults \* bound on the number of these faults

ASSUME MountConstants == MountCmds \subseteq Nat \ {0} /\ MaxFuseFaults \in Nat

VARIABLES
  kernel,      \* kernel[k]: the mounts at the mount point of k, the last one on top
  fmount,      \* fmount[c][k]: the mount that command c makes for k
  mcmd,        \* where the commands are, and what they still have to unmount
  nodeMounts,  \* node.Mounts, by kind: the command whose mount it is
  fnode,       \* the node's process: "open", "closing", "closed"
  stuck,       \* history: some attempt to unmount by path failed
  ffaults      \* the number of faults so far

fuVars == <<kernel, fmount, mcmd, nodeMounts, fnode, stuck, ffaults>>

NoCmd == 0
NoMount == [pc |-> "none", serve |-> "none", active |-> FALSE, proc |-> "none"]

FuseInit ==
  /\ kernel = [k \in MountKinds |-> <<>>]
  /\ fmount = [c \in MountCmds |-> [k \in MountKinds |-> NoMount]]
  /\ mcmd = [c \in MountCmds |-> [pc |-> "idle", todo |-> {}]]
  /\ nodeMounts = [k \in MountKinds |-> NoCmd]
  /\ fnode = "open" /\ stuck = FALSE /\ ffaults = 0

FuseFault(k) == k \in FaultyKinds /\ ffaults < MaxFuseFaults /\ ffaults' = ffaults + 1

MountAt(c, pc) == mcmd[c].pc = pc
Mounting(c) == mcmd[c].pc \notin {"idle", "ok", "error"}
MountGoes(c, pc, todo) == mcmd' = [mcmd EXCEPT ![c] = [pc |-> pc, todo |-> todo]]

-----------------------------------------------------------------------------
\* ForceUnmountManyTimes: umount, then fusermount -u, ten times; what is on top
\* goes, or nothing does.
ForceUnmount(k) == kernel' = [kernel EXCEPT ![k] = SubSeq(@, 1, Len(@) - 1)]

\* unmount, the teardown of the mount's process: by the library, else by closing
\* the connection, which leaves the mount point behind, else by force.
UnmountTeardown(c, k) ==
  /\ \/ /\ kernel[k] # <<>> /\ ForceUnmount(k)
        /\ fmount' = [fmount EXCEPT ![c][k].proc = "closed", ![c][k].active = FALSE]
        /\ \/ UNCHANGED <<stuck, ffaults>>
           \/ FuseFault(k) /\ stuck' = TRUE
     \/ /\ UNCHANGED kernel /\ stuck' = TRUE
        /\ IF kernel[k] = <<>> THEN UNCHANGED ffaults ELSE FuseFault(k)
        /\ \/ fmount' = [fmount EXCEPT ![c][k].proc = "closed", ![c][k].active = FALSE,
                                       ![c][k].serve = IF @ = "run" THEN "end" ELSE @]
           \/ fmount' = [fmount EXCEPT ![c][k].proc = "closed"]

\* Unmount of the mount c made for k: refused unless it is active; its process
\* closes once.
Unmount(c, k) ==
  IF fmount[c][k].active /\ fmount[c][k].proc = "open" THEN UnmountTeardown(c, k)
  ELSE UNCHANGED <<kernel, fmount, stuck, ffaults>>

-----------------------------------------------------------------------------
\* The command: mounts that are still there go first, best effort.
MountStart(c) ==
  /\ MountAt(c, "idle") /\ fnode = "open" /\ \A d \in MountCmds : d < c => ~MountAt(d, "idle")
  /\ Cardinality({d \in MountCmds : Mounting(d)}) < MaxMounting
  /\ MountGoes(c, "old", {k \in MountKinds : nodeMounts[k] # NoCmd})
  /\ UNCHANGED <<kernel, fmount, nodeMounts, fnode, stuck, ffaults>>

MountOld(c) ==
  /\ MountAt(c, "old")
  /\ \/ \E k \in mcmd[c].todo :
          /\ Unmount(nodeMounts[k], k)
          /\ MountGoes(c, "old", mcmd[c].todo \ {k})
     \/ mcmd[c].todo = {} /\ MountGoes(c, "mount", {}) /\ UNCHANGED <<kernel, fmount, stuck, ffaults>>
  /\ UNCHANGED <<nodeMounts, fnode>>

\* Mutant: a mount is linked to the node's process once it is known to work.
NewMountLate(c, k) ==
  /\ MountAt(c, "mount") /\ fmount[c][k].pc = "none"
  /\ \/ fmount' = [fmount EXCEPT ![c][k].pc = "err"] /\ UNCHANGED kernel
     \/ /\ kernel' = [kernel EXCEPT ![k] = Append(@, c)]
        /\ fmount' = [fmount EXCEPT ![c][k] = [pc |-> "wait", serve |-> "run", active |-> FALSE, proc |-> "late"]]
  /\ UNCHANGED <<mcmd, nodeMounts, fnode, stuck, ffaults>>

\* NewMount, one goroutine for each kind: the kernel mounts, or it does not; then
\* the file system is served.
NewMount(c, k) ==
  /\ MountAt(c, "mount") /\ fmount[c][k].pc = "none"
  /\ \/ fmount' = [fmount EXCEPT ![c][k].pc = "err"] /\ UNCHANGED kernel
     \/ /\ kernel' = [kernel EXCEPT ![k] = Append(@, c)]
        /\ fmount' = [fmount EXCEPT ![c][k] = [pc |-> "wait", serve |-> "run", active |-> FALSE, proc |-> "open"]]
  /\ UNCHANGED <<mcmd, nodeMounts, fnode, stuck, ffaults>>

\* fs.Serve returns because the file system was unmounted, or with an error, which
\* the buffered channel takes.
ServeReturns(c, k) ==
  /\ fmount[c][k].serve = "run"
  /\ \/ ~(\E i \in DOMAIN kernel[k] : kernel[k][i] = c) /\ fmount' = [fmount EXCEPT ![c][k].serve = "end"]
        /\ UNCHANGED ffaults
     \/ FuseFault(k) /\ fmount' = [fmount EXCEPT ![c][k].serve = "err"]
  /\ UNCHANGED <<kernel, mcmd, nodeMounts, fnode, stuck>>
ServeInactive(c, k) ==
  /\ fmount[c][k].serve \in {"end", "err"}
  /\ fmount' = [fmount EXCEPT ![c][k].active = FALSE, ![c][k].serve = IF @ = "end" THEN "done" ELSE "failed"]
  /\ UNCHANGED <<kernel, mcmd, nodeMounts, fnode, stuck, ffaults>>

\* mount: a timeout, the error of fs.Serve, or the mount is ready, perhaps with an
\* error.  After an error NewMount calls Unmount "just in case", and that does
\* nothing: the mount is not active yet.
MountWait(c, k) ==
  /\ fmount[c][k].pc = "wait"
  /\ \/ fmount' = [fmount EXCEPT ![c][k].pc = "err"]
     \/ fmount' = [fmount EXCEPT ![c][k].pc = "ready"]
  /\ UNCHANGED <<kernel, mcmd, nodeMounts, fnode, stuck, ffaults>>

\* setActive(true): also when the file system was unmounted before.
MountReady(c, k) ==
  /\ fmount[c][k].pc = "ready"
  /\ fmount' = [fmount EXCEPT ![c][k].pc = "ok", ![c][k].active = TRUE]
  /\ UNCHANGED <<kernel, mcmd, nodeMounts, fnode, stuck, ffaults>>

\* wg.Wait: one that failed undoes the others.
MountJoin(c) ==
  /\ MountAt(c, "mount")
  /\ \A k \in MountKinds : fmount[c][k].pc \in {"ok", "err"}
  /\ LET failed == \E k \in MountKinds : fmount[c][k].pc = "err" IN
     MountGoes(c, IF failed THEN "undo" ELSE "assign",
               IF failed THEN {k \in MountKinds : fmount[c][k].pc = "ok"} ELSE MountKinds)
  /\ UNCHANGED <<kernel, fmount, nodeMounts, fnode, stuck, ffaults>>
MountUndo(c) ==
  /\ MountAt(c, "undo")
  /\ \/ \E k \in mcmd[c].todo : Unmount(c, k) /\ MountGoes(c, "undo", mcmd[c].todo \ {k})
     \/ mcmd[c].todo = {} /\ MountGoes(c, "error", {}) /\ UNCHANGED <<kernel, fmount, stuck, ffaults>>
  /\ UNCHANGED <<nodeMounts, fnode>>
MountAssign(c) ==
  /\ MountAt(c, "assign")
  /\ \/ \E k \in mcmd[c].todo : nodeMounts' = [nodeMounts EXCEPT ![k] = c] /\ MountGoes(c, "assign", mcmd[c].todo \ {k})
     \/ mcmd[c].todo = {} /\ MountGoes(c, "ok", {}) /\ UNCHANGED nodeMounts
  /\ UNCHANGED <<kernel, fmount, fnode, stuck, ffaults>>

-----------------------------------------------------------------------------
\* Somebody unmounts by hand.
UserUnmounts(k) ==
  /\ kernel[k] # <<>> /\ ForceUnmount(k) /\ FuseFault(k)
  /\ UNCHANGED <<fmount, mcmd, nodeMounts, fnode, stuck>>

\* The node closes, between commands; its process closes its children first.
FuseNodeClose ==
  /\ fnode = "open" /\ \A c \in MountCmds : ~Mounting(c)
  /\ fnode' = "closing"
  /\ UNCHANGED <<kernel, fmount, mcmd, nodeMounts, stuck, ffaults>>
NodeTeardown ==
  /\ fnode = "closing"
  /\ \/ \E c \in MountCmds, k \in MountKinds :
          fmount[c][k].proc = "open" /\ UnmountTeardown(c, k) /\ UNCHANGED fnode
     \/ /\ \A c \in MountCmds, k \in MountKinds : fmount[c][k].proc # "open"
        /\ fnode' = "closed" /\ UNCHANGED <<kernel, fmount, stuck, ffaults>>
  /\ UNCHANGED <<mcmd, nodeMounts>>

MountStep(c) ==
  \/ MountOld(c) \/ MountJoin(c) \/ MountUndo(c) \/ MountAssign(c)
  \/ \E k \in MountKinds : NewMount(c, k) \/ MountWait(c, k) \/ MountReady(c, k)

FuseNext ==
  \/ \E c \in MountCmds :
       \/ MountStart(c) \/ MountStep(c)
       \/ \E k \in MountKinds : ServeReturns(c, k) \/ ServeInactive(c, k)
  \/ \E k \in MountKinds : UserUnmounts(k)
  \/ FuseNodeClose \/ NodeTeardown

\* Commands go on; the wait for a mount is bounded by MountTimeout.
FuseFairness == \A c \in MountCmds : WF_fuVars(MountStep(c))

FuseSpec == FuseInit /\ [][FuseNext]_fuVars /\ FuseFairness

-----------------------------------------------------------------------------
\* A closed node leaves nothing mounted, not even a mount that timed out or whose
\* command failed, unless unmounting by path failed on the way.
NoMountLeft == fnode = "closed" /\ ~stuck => \A k \in MountKinds : kernel[k] = <<>>

\* What a failed command had mounted is inactive when it returns, unless it could
\* not be unmounted: all or none.
FailedLeavesNone ==
  \A c \in MountCmds : MountAt(c, "error") /\ ~stuck => \A k \in MountKinds : ~fmount[c][k].active
=============================================================================
