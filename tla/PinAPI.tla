------------------------------- MODULE PinAPI -------------------------------
(***************************************************************************)
(* The API calls that change pins, and the block writes that go with them: *)
(*   add    PinAPI.Add              (core/coreapi/pin.go)                  *)
(*   rm     PinAPI.Rm                                                      *)
(*   update PinAPI.Update                                                  *)
(*   put    BlockAPI.Put, pinningAdder.Add and AddMany                     *)
(*                                  (core/coreapi/block.go, dag.go)        *)
(*   import dag import              (core/commands/dag/import.go)          *)
(* A request is a record: op; root, its CID; to, the second CID of an      *)
(* update; nodes, the nodes a put or an import brings; flag, which is      *)
(* --recursive for add and rm, --unpin for update, --pin for the others.   *)
(* All but an unpinned write hold the pin lock throughout.                 *)
(***************************************************************************)
EXTENDS NodeState

CONSTANTS Users, Requests

RequestOps == {"add", "rm", "update", "put", "import"}
AllRequests == [op : RequestOps, root : Cids, to : Cids,
                nodes : SUBSET Cids, flag : BOOLEAN]

\* The slot of a user with no call in progress.
NoRequest == [op |-> "none", root |-> Mfs0, to |-> Mfs0, nodes |-> {}, flag |-> FALSE]

ASSUME RequestAssumption ==
  /\ Requests \subseteq AllRequests
  /\ \A r \in Requests : r.op \notin {"put", "import"} => r.nodes = {}

VARIABLES upc,         \* where each user's call is
          ureq,        \* the request it serves
          uwrite       \* nodes still to be written, then to be pinned

userVars == <<upc, ureq, uwrite>>

UserPhases == {"idle", "lock", "write", "fetch", "pin", "unlock"}

Locks(r) == r.op \in {"put", "import"} => r.flag

UserHolding(u) ==
  upc[u] \in {"write", "fetch", "pin", "unlock"} /\ Locks(ureq[u])

UserInit ==
  /\ upc = [u \in Users |-> "idle"]
  /\ ureq = [u \in Users |-> NoRequest]
  /\ uwrite = [u \in Users |-> {}]

UserTypeOK ==
  /\ upc \in [Users -> UserPhases]
  /\ ureq \in [Users -> AllRequests \cup {NoRequest}]
  /\ uwrite \in [Users -> SUBSET Cids]

UGoTo(u, phase) == upc' = [upc EXCEPT ![u] = phase]

\* The phase a call starts in once it has its lock.
FirstPhase(r) == IF r.op \in {"put", "import"} THEN "write"
                 ELSE IF r.op = "update" \/ (r.op = "add" /\ r.flag) THEN "fetch"
                 ELSE "pin"

\* A call comes in.  Pin add resolves the node first, before any lock, which
\* may bring the root block in from the network.
UserCall(u, r) ==
  /\ upc[u] = "idle"
  /\ ureq' = [ureq EXCEPT ![u] = r]
  /\ uwrite' = [uwrite EXCEPT ![u] = r.nodes]
  /\ store' = IF r.op = "add" THEN store \cup {r.root.hash} ELSE store
  /\ IF Locks(r)
     THEN PinLock(u) /\ UGoTo(u, "lock")
     ELSE UGoTo(u, "write") /\ UNCHANGED lockVars
  /\ UNCHANGED <<rpins, dpins, filesRoot>>

\* Mutant: the node resolved before the lock is taken to be there still.
UserLockedStale(u) ==
  /\ upc[u] = "lock" /\ u \in readers
  /\ UGoTo(u, FirstPhase(ureq[u]))
  /\ UNCHANGED <<ureq, uwrite, dataVars, lockVars>>

\* PinLock returns.  Pinner.Pin stores the node it was given again.
UserLocked(u) ==
  /\ upc[u] = "lock"
  /\ u \in readers
  /\ store' = IF ureq[u].op = "add" THEN store \cup {ureq[u].root.hash} ELSE store
  /\ UGoTo(u, FirstPhase(ureq[u]))
  /\ UNCHANGED <<ureq, uwrite, rpins, dpins, filesRoot, lockVars>>

\* put, import: the blocks are written one by one, in any order.
WriteNode(u, c) ==
  /\ upc[u] = "write"
  /\ c \in uwrite[u]
  /\ store' = store \cup {c.hash}
  /\ uwrite' = [uwrite EXCEPT ![u] = @ \ {c}]
  /\ UNCHANGED <<upc, ureq, rpins, dpins, filesRoot, lockVars>>

WritesDone(u) ==
  /\ upc[u] = "write"
  /\ uwrite[u] = {}
  /\ IF ureq[u].flag
     THEN /\ UGoTo(u, "pin")
          /\ uwrite' = [uwrite EXCEPT ![u] = IF ureq[u].op = "put" THEN ureq[u].nodes ELSE {}]
          /\ UNCHANGED ureq
     ELSE /\ UGoTo(u, "idle")
          /\ ureq' = [ureq EXCEPT ![u] = NoRequest]
          /\ UNCHANGED uwrite
  /\ UNCHANGED <<dataVars, lockVars>>

\* The graph an add or an update has to have locally before it pins: an
\* update reads both roots and then only what the old one does not reach.
Wanted(r) == IF r.op = "update" THEN {r.root, r.to} \cup (Reach[r.to] \ Reach[r.root])
             ELSE Reach[r.root]

Target(r) == IF r.op = "update" THEN r.to ELSE r.root

\* Pinner.Update refuses a root that is not pinned and a target that is.
Refused(r) == r.op = "update" /\ (r.root \notin rpins \/ r.to \in rpins)

\* One missing node arrives from the network: a root, or after a node that
\* links to it.
Fetch(u, c) ==
  /\ upc[u] = "fetch"
  /\ ~Refused(ureq[u])
  /\ c \in Wanted(ureq[u])
  /\ ~Present(c)
  /\ c \in {ureq[u].root, Target(ureq[u])} \/ \E d \in Wanted(ureq[u]) : Present(d) /\ c \in Links[d]
  /\ store' = store \cup {c.hash}
  /\ UNCHANGED <<upc, ureq, uwrite, rpins, dpins, filesRoot, lockVars>>

FetchDone(u) ==
  /\ upc[u] = "fetch"
  /\ ~Refused(ureq[u])
  /\ HashesOf(Wanted(ureq[u])) \subseteq store
  /\ UGoTo(u, "pin")
  /\ UNCHANGED <<ureq, uwrite, dataVars, lockVars>>

\* The call fails: refused, the network or the store fails, the client goes.
UserFail(u) ==
  /\ upc[u] \in {"write", "fetch", "pin"}
  /\ IF Locks(ureq[u])
     THEN UGoTo(u, "unlock") /\ UNCHANGED ureq
     ELSE UGoTo(u, "idle") /\ ureq' = [ureq EXCEPT ![u] = NoRequest]
  /\ uwrite' = [uwrite EXCEPT ![u] = {}]
  /\ UNCHANGED <<dataVars, lockVars>>

\* put: PinWithMode for each node written, without looking below it.
PinWritten(u, c) ==
  /\ upc[u] = "pin"
  /\ c \in uwrite[u]
  /\ PinRecursive({c})
  /\ uwrite' = [uwrite EXCEPT ![u] = @ \ {c}]
  /\ UNCHANGED <<upc, ureq, store, filesRoot, lockVars>>

\* Mutant: an import pins its root without looking below it (other calls that
\* pin are left out).
ChangePinsBlind(r) ==
  \/ r.op = "import" /\ PinRecursive({r.root})
  \/ r.op = "rm" /\ Unpin(r.root, r.flag)
  \/ r.op \notin {"import", "rm"} /\ UNCHANGED <<rpins, dpins>>

\* What the pinner records at the end of a call.  An import pins its root
\* only if the whole graph is there.
ChangePins(r) ==
  \/ r.op = "add" /\ r.flag /\ PinRecursive({r.root})
  \/ r.op = "add" /\ ~r.flag /\ PinDirect(r.root)
  \/ r.op = "rm" /\ Unpin(r.root, r.flag)
  \/ /\ r.op = "update"
     /\ rpins' = (rpins \ (IF r.flag THEN {r.root} ELSE {})) \cup {r.to}
     /\ dpins' = dpins \ {r.to}
  \/ r.op = "import" /\ PinRecursive({c \in {r.root} : Complete(c)})
  \/ r.op = "put" /\ UNCHANGED <<rpins, dpins>>

PinDone(u) ==
  /\ upc[u] = "pin"
  /\ uwrite[u] = {}
  /\ ChangePins(ureq[u])
  /\ UGoTo(u, "unlock")
  /\ UNCHANGED <<ureq, uwrite, store, filesRoot, lockVars>>

UserReturn(u) ==
  /\ upc[u] = "unlock"
  /\ PinUnlock(u)
  /\ UGoTo(u, "idle")
  /\ ureq' = [ureq EXCEPT ![u] = NoRequest]
  /\ UNCHANGED <<uwrite, dataVars>>

UserStep(u) ==
  \/ UserLocked(u)
  \/ \E c \in uwrite[u] : WriteNode(u, c) \/ PinWritten(u, c)
  \/ WritesDone(u)
  \/ \E c \in Wanted(ureq[u]) : Fetch(u, c)
  \/ FetchDone(u) \/ UserFail(u) \/ PinDone(u) \/ UserReturn(u)

UserNext == \E u \in Users : (\E r \in Requests : UserCall(u, r)) \/ UserStep(u)
=============================================================================
