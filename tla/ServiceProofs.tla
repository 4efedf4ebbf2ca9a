---------------------------- MODULE ServiceProofs ----------------------------
(***************************************************************************)
(* Proofs about the services beside the store: the clients of a remote     *)
(* pinning service, the migration of an outdated repository, the daemon    *)
(* with its plugins, and the mounts, for any number of clients, requests,  *)
(* versions, sources and mount commands; and that together they leave      *)
(* nothing behind.  Beside them, the file of the drive, which a server and *)
(* a script write.                                                         *)
(***************************************************************************)
EXTENDS MCServices, DriveFS, Induction, FiniteSetTheorems, SequenceTheorems, TLAPS

-----------------------------------------------------------------------------
(***************************************************************************)
(* Remote pins.                                                            *)
(*                                                                         *)
(* A removal decides once, from a list, which requests it deletes, and     *)
(* deletes them by ID while other clients add requests and the service     *)
(* works on them.  What it has deleted and what it will delete stay one    *)
(* set, that of the list; an ID is never used again.                       *)
(***************************************************************************)
Contents == RemoteCids \union {NoCid} \union UNION {{first[i] : i \in DOMAIN first} : first \in FirstRequests}
RequestSet == [cid : Contents, status : Statuses \union {"none", "gone"}]

Untouched == {"idle", "add", "delegates", "poll", "wait", "list", "confirm", "stat"}
RemotePcs == Untouched \union {"delete"} \union Ended
RemoteClientSet ==
  [pc : RemotePcs, cid : RemoteCids \union {NoCid}, statuses : SUBSET Statuses, flag : BOOLEAN,
   id : RequestIds \union {0}, todo : SUBSET RequestIds]

RemoteTypes ==
  /\ requests \in [RequestIds -> RequestSet]
  /\ rclient \in [RemoteClients -> RemoteClientSet]
  /\ wasPinned \subseteq RequestIds
  /\ removedBy \in [RequestIds -> SUBSET RemoteClients]

\* The requests that a client has deleted, and those it will delete.
Mine(c) == {i \in RequestIds : c \in removedBy[i]}
Doomed(c) == IF rclient[c].pc \in {"confirm", "delete"} THEN rclient[c].todo ELSE {}

\* A client deletes nothing before it was confirmed; what it has deleted and will
\* delete exists, has the content it was asked about and, without --force, is one
\* request.
DeleteInv ==
  \A c \in RemoteClients :
    /\ rclient[c].pc \in Untouched => Mine(c) = {}
    /\ \A i \in Mine(c) \union Doomed(c) : requests[i].cid = rclient[c].cid /\ requests[i].status # "none"
    /\ rclient[c].pc # "confirm" /\ ~rclient[c].flag => Cardinality(Mine(c) \union Doomed(c)) <= 1

\* An add that waits has a request, a removal has none of its own; what is pinned at
\* the service was seen to be.
AddInv ==
  /\ \A i \in RequestIds : requests[i].status = "pinned" => i \in wasPinned
  /\ \A c \in RemoteClients :
       /\ rclient[c].pc \in {"idle", "add", "stat", "list", "confirm", "delete"} => rclient[c].id = 0
       /\ rclient[c].pc \in {"delegates", "poll", "wait"} => rclient[c].id \in RequestIds
  /\ AddMeansPinned

RemoteInv == RemoteTypes /\ DeleteInv /\ AddInv /\ RequestsRemain

\* Requests are finitely many.
LEMMA RequestsFinite ==
  \A S : S \subseteq RequestIds => IsFiniteSet(S) /\ Cardinality(S) \in Nat
<1>1. IsFiniteSet(RequestIds)
  BY RemoteConstants, FS_Interval DEF RequestIds
<1> QED BY <1>1, FS_Subset, FS_CardinalityType

\* A client that runs; one at rest.
LEMMA IdleRemoteType ==
  /\ IdleRemote \in RemoteClientSet /\ IdleRemote.pc = "idle" /\ IdleRemote.id = 0 /\ IdleRemote.todo = {}
BY DEF IdleRemote, RemoteClientSet, RemotePcs, Untouched

\* A client goes on without touching the service: what it will delete is what it
\* had, or a list of requests that it has still to confirm.
Goes(c, r) ==
  /\ rclient' = [rclient EXCEPT ![c] = r] /\ r \in RemoteClientSet
  /\ ServiceAsIs

LEMMA ClientGoes ==
  ASSUME RemoteInv, NEW c \in RemoteClients, NEW r, Goes(c, r),
         Mine(c) = {} \/ (r.cid = rclient[c].cid /\ r.flag = rclient[c].flag),
         rclient[c].pc \in Untouched \/ r.pc \notin Untouched,
         r.pc = "confirm" =>
           \A i \in r.todo : requests[i].cid = r.cid /\ requests[i].status # "none",
         r.pc = "delete" =>
           /\ rclient[c].pc = "confirm" /\ r.todo = rclient[c].todo /\ r.cid = rclient[c].cid
           /\ ~r.flag => Cardinality(r.todo) <= 1,
         r.pc \in {"idle", "add", "stat", "list", "confirm", "delete"} => r.id = 0,
         r.pc \in {"delegates", "poll", "wait"} => r.id \in RequestIds,
         r.pc = "ok" /\ r.id > 0 /\ ~r.flag => r.id \in wasPinned
  PROVE  RemoteInv'
<1> USE DEF RemoteInv
<1>1. /\ rclient' \in [RemoteClients -> RemoteClientSet] /\ rclient'[c] = r
      /\ \A d \in RemoteClients : d # c => rclient'[d] = rclient[d]
  BY DEF RemoteTypes, Goes
<1>2. UNCHANGED <<requests, wasPinned, removedBy>>
  BY DEF Goes, ServiceAsIs
<1>3. RemoteTypes'
  BY <1>1, <1>2 DEF RemoteTypes
<1>4. ASSUME NEW d \in RemoteClients
      PROVE  Mine(d)' = Mine(d) /\ (d # c => Doomed(d)' = Doomed(d))
  BY <1>1, <1>2 DEF Mine, Doomed
<1>5. DeleteInv'
  <2> SUFFICES ASSUME NEW d \in RemoteClients
               PROVE  /\ rclient'[d].pc \in Untouched => Mine(d)' = {}
                      /\ \A i \in Mine(d)' \union Doomed(d)' :
                           requests'[i].cid = rclient'[d].cid /\ requests'[i].status # "none"
                      /\ rclient'[d].pc # "confirm" /\ ~rclient'[d].flag
                           => Cardinality(Mine(d)' \union Doomed(d)') <= 1
    BY DEF DeleteInv
  <2>1. CASE d # c
    BY Zenon, <2>1, <1>1, <1>2, <1>4 DEF DeleteInv
  <2>2. CASE d = c
    <3>1. r.pc \in Untouched => Mine(c) = {}
      BY DEF DeleteInv
    <3>2. Doomed(c)' = IF r.pc \in {"confirm", "delete"} THEN r.todo ELSE {}
      BY <1>1 DEF Doomed
    <3>3. ASSUME NEW i \in Mine(c) \union Doomed(c)'
          PROVE  requests[i].cid = r.cid /\ requests[i].status # "none"
      <4>1. CASE i \in Mine(c)
        BY <4>1 DEF DeleteInv
      <4>2. CASE r.pc = "confirm" /\ i \in r.todo
        BY <4>2
      <4>3. CASE r.pc = "delete" /\ i \in r.todo
        BY <4>3 DEF DeleteInv, Doomed
      <4> QED BY <3>2, <3>3, <4>1, <4>2, <4>3
    <3>4. ASSUME r.pc # "confirm", ~r.flag
          PROVE  Cardinality(Mine(c) \union Doomed(c)') <= 1
      <4>1. CASE r.pc = "delete"
        <5>1. Mine(c) = {}
          BY <4>1 DEF DeleteInv, Untouched
        <5> QED BY <5>1, <4>1, <3>2, <3>4
      <4>2. CASE r.pc # "delete"
        <5>1. Mine(c) \union Doomed(c)' = Mine(c)
          BY <4>2, <3>2, <3>4
        <5>2. CASE Mine(c) = {}
          BY <5>1, <5>2, FS_EmptySet
        <5>3. CASE Mine(c) # {}
          <6>1. rclient[c].pc # "confirm" /\ ~rclient[c].flag
            BY <5>3, <3>4 DEF DeleteInv, Untouched
          <6>2. Cardinality(Mine(c) \union Doomed(c)) <= 1
            BY <6>1 DEF DeleteInv
          <6>3. Mine(c) \union Doomed(c) \subseteq RequestIds /\ Mine(c) \subseteq RequestIds
            BY DEF Mine, Doomed, RemoteTypes, RemoteClientSet
          <6>4. Cardinality(Mine(c)) <= Cardinality(Mine(c) \union Doomed(c))
            BY <6>3, RequestsFinite, FS_Subset
          <6>5. Cardinality(Mine(c)) \in Nat /\ Cardinality(Mine(c) \union Doomed(c)) \in Nat
            BY <6>3, RequestsFinite
          <6> QED BY <5>1, <6>2, <6>4, <6>5
        <5> QED BY <5>2, <5>3
      <4> QED BY <4>1, <4>2
    <3> QED BY <2>2, <3>1, <3>3, <3>4, <1>1, <1>2, <1>4
  <2> QED BY <2>1, <2>2
<1>6. AddInv'
  BY <1>1, <1>2 DEF AddInv, AddMeansPinned
<1>7. RequestsRemain'
  BY <1>2 DEF RequestsRemain
<1> QED BY <1>3, <1>5, <1>6, <1>7

\* The same when only the place of the client changes.
LEMMA ClientMoves ==
  ASSUME RemoteInv, NEW c \in RemoteClients, NEW to \in RemotePcs, ClientTo(c, to), ServiceAsIs,
         to \notin {"idle", "add", "stat", "list", "confirm"},
         rclient[c].pc \in Untouched \/ to \notin Untouched,
         to = "delete" => rclient[c].pc = "confirm" /\ (~rclient[c].flag => Cardinality(rclient[c].todo) <= 1),
         to \in {"delegates", "poll", "wait"} => rclient[c].id \in RequestIds,
         to = "ok" /\ rclient[c].id > 0 /\ ~rclient[c].flag => rclient[c].id \in wasPinned
  PROVE  RemoteInv'
<1> DEFINE r == [rclient[c] EXCEPT !.pc = to]
<1>1. /\ r \in RemoteClientSet /\ r.pc = to /\ r.cid = rclient[c].cid /\ r.flag = rclient[c].flag
      /\ r.id = rclient[c].id /\ r.todo = rclient[c].todo
  BY DEF RemoteInv, RemoteTypes, RemoteClientSet
<1>2. rclient' = [rclient EXCEPT ![c] = r]
  BY DEF ClientTo
<1>3. to = "delete" => r.id = 0
  BY <1>1 DEF RemoteInv, AddInv
<1> HIDE DEF r
<1>4. Goes(c, r)
  BY <1>1, <1>2 DEF Goes
<1> QED BY <1>1, <1>3, <1>4, ClientGoes

\* A command starts, or does not know the service.
LEMMA RemoteStarts ==
  ASSUME RemoteInv, NEW c \in RemoteClients,
         \/ StatRemote(c)
         \/ \E cid \in RemoteCids, flag \in BOOLEAN :
              \/ AddRemotePin(c, cid, flag)
              \/ \E st \in {{"pinned"}, Statuses} : RmRemotePin(c, cid, st, flag)
  PROVE  RemoteInv'
<1>1. PICK r \in RemoteClientSet : GetRemotePinService(c, r) /\ r.pc \in {"add", "list", "stat"} /\ r.id = 0
  <2>1. LET r == [IdleRemote EXCEPT !.pc = "stat", !.statuses = Statuses] IN
        r \in RemoteClientSet /\ r.pc = "stat" /\ r.id = 0
    BY IdleRemoteType DEF RemoteClientSet, RemotePcs, Untouched
  <2>2. {"pinned"} \in SUBSET Statuses /\ Statuses \in SUBSET Statuses
    BY DEF Statuses
  <2>3. CASE StatRemote(c)
    BY <2>1, <2>3 DEF StatRemote
  <2>4. ASSUME NEW cid \in RemoteCids, NEW flag \in BOOLEAN, AddRemotePin(c, cid, flag)
        PROVE  \E r \in RemoteClientSet : GetRemotePinService(c, r) /\ r.pc \in {"add", "list", "stat"} /\ r.id = 0
    <3> DEFINE r == [IdleRemote EXCEPT !.pc = "add", !.cid = cid, !.flag = flag]
    <3>1. r \in RemoteClientSet /\ r.pc = "add" /\ r.id = 0
      BY IdleRemoteType DEF RemoteClientSet, RemotePcs, Untouched
    <3>2. GetRemotePinService(c, r)
      BY <2>4, Zenon DEF AddRemotePin
    <3> QED BY <3>1, <3>2
  <2>5. ASSUME NEW cid \in RemoteCids, NEW flag \in BOOLEAN, NEW st \in {{"pinned"}, Statuses},
               RmRemotePin(c, cid, st, flag)
        PROVE  \E r \in RemoteClientSet : GetRemotePinService(c, r) /\ r.pc \in {"add", "list", "stat"} /\ r.id = 0
    <3> DEFINE r == [IdleRemote EXCEPT !.pc = "list", !.cid = cid, !.statuses = st, !.flag = flag]
    <3>1. r \in RemoteClientSet /\ r.pc = "list" /\ r.id = 0
      BY <2>2, IdleRemoteType DEF RemoteClientSet, RemotePcs, Untouched
    <3>2. GetRemotePinService(c, r)
      BY <2>5, Zenon DEF RmRemotePin
    <3> QED BY <3>1, <3>2
  <2> QED BY <2>3, <2>4, <2>5
<1>2. rclient[c].pc = "idle" /\ Mine(c) = {}
  <2>1. rclient[c].pc = "idle"
    BY <1>1 DEF GetRemotePinService, ClientAt
  <2> QED BY <2>1 DEF RemoteInv, DeleteInv, Untouched
<1>3. CASE rclient' = [rclient EXCEPT ![c] = r] /\ ServiceAsIs
  <2>1. Goes(c, r)
    BY <1>1, <1>3 DEF Goes
  <2> QED BY <2>1, <1>1, <1>2, ClientGoes DEF Untouched
<1>4. CASE ClientTo(c, "error") /\ ServiceAsIs
  <2>1. "error" \in RemotePcs /\ rclient[c].pc \in Untouched
    BY <1>2 DEF RemotePcs, Untouched, Ended
  <2> QED BY <2>1, <1>4, ClientMoves
<1> QED BY <1>1, <1>3, <1>4 DEF GetRemotePinService

\* The steps of a command that do not touch the service.
LEMMA ClientQuietSteps ==
  ASSUME RemoteInv, NEW c \in RemoteClients,
         \/ ConnectDelegates(c) \/ PollStatus(c) \/ PollAgain(c) \/ PollInterrupt(c)
         \/ RmList(c) \/ RmConfirm(c) \/ StatCount(c)
  PROVE  RemoteInv'
<1> USE DEF RemoteInv
<1>0. rclient[c] \in RemoteClientSet
  BY DEF RemoteTypes
<1>1. CASE ConnectDelegates(c)
  <2>1. /\ rclient[c].pc = "delegates" /\ ServiceAsIs
        /\ \/ rclient[c].flag /\ ClientTo(c, "ok")
           \/ ClientTo(c, "error")
           \/ ClientTo(c, "poll")
    BY <1>1 DEF ConnectDelegates, ClientAt
  <2>2. rclient[c].id \in RequestIds
    BY <2>1 DEF AddInv
  <2>3. CASE rclient[c].flag /\ ClientTo(c, "ok")
    BY <2>1, <2>3, ClientMoves DEF RemotePcs, Untouched, Ended
  <2>4. CASE ClientTo(c, "error")
    BY <2>1, <2>4, ClientMoves DEF RemotePcs, Untouched, Ended
  <2>5. CASE ClientTo(c, "poll")
    BY <2>1, <2>2, <2>5, ClientMoves DEF RemotePcs, Untouched
  <2> QED BY <2>1, <2>3, <2>4, <2>5
<1>2. CASE PollStatus(c)
  <2> DEFINE s == requests[rclient[c].id].status
  <2>1. rclient[c].pc = "poll" /\ rclient[c].id \in RequestIds /\ ServiceAsIs
    BY <1>2 DEF PollStatus, ClientAt, AddInv
  <2>2. \/ s = "pinned" /\ ClientTo(c, "ok")
        \/ ClientTo(c, "failed") \/ ClientTo(c, "error") \/ ClientTo(c, "wait")
    BY <1>2 DEF PollStatus
  <2>3. CASE s = "pinned" /\ ClientTo(c, "ok")
    <3>1. rclient[c].id \in wasPinned
      BY <2>1, <2>3 DEF AddInv
    <3> QED BY <2>1, <2>3, <3>1, ClientMoves DEF RemotePcs, Untouched, Ended
  <2>4. CASE ClientTo(c, "failed")
    BY <2>1, <2>4, ClientMoves DEF RemotePcs, Untouched, Ended
  <2>5. CASE ClientTo(c, "error")
    BY <2>1, <2>5, ClientMoves DEF RemotePcs, Untouched, Ended
  <2>6. CASE ClientTo(c, "wait")
    BY <2>1, <2>6, ClientMoves DEF RemotePcs, Untouched, Ended
  <2> QED BY <2>2, <2>3, <2>4, <2>5, <2>6
<1>3. CASE PollAgain(c) \/ PollInterrupt(c)
  <2>1. rclient[c].pc = "wait" /\ rclient[c].id \in RequestIds /\ ServiceAsIs
    BY <1>3 DEF PollAgain, PollInterrupt, ClientAt, AddInv
  <2>2. CASE ClientTo(c, "poll")
    BY <2>1, <2>2, ClientMoves DEF RemotePcs, Untouched, Ended
  <2>3. CASE ClientTo(c, "interrupted")
    BY <2>1, <2>3, ClientMoves DEF RemotePcs, Untouched, Ended
  <2> QED BY <2>2, <2>3, <1>3 DEF PollAgain, PollInterrupt
<1>4. CASE RmList(c)
  <2> DEFINE found == {i \in RequestIds : requests[i].cid = rclient[c].cid /\ requests[i].status \in rclient[c].statuses}
             r == [rclient[c] EXCEPT !.pc = "confirm", !.todo = found]
  <2>1. rclient[c].pc = "list" /\ rclient[c].id = 0 /\ ServiceAsIs
    BY <1>4 DEF RmList, ClientAt, AddInv
  <2>2. CASE rclient' = [rclient EXCEPT ![c] = r]
    <3>1. /\ \A i \in found : requests[i].cid = rclient[c].cid /\ requests[i].status # "none"
          /\ found \in SUBSET RequestIds
      BY <1>0 DEF RemoteClientSet, Statuses
    <3> HIDE DEF found
    <3>2. /\ r \in RemoteClientSet /\ r.pc = "confirm" /\ r.todo = found /\ r.cid = rclient[c].cid
          /\ r.flag = rclient[c].flag /\ r.id = 0
      BY <1>0, <2>1, <3>1 DEF RemoteClientSet, RemotePcs, Untouched
    <3> HIDE DEF r
    <3>3. Goes(c, r)
      BY <2>1, <2>2, <3>2 DEF Goes
    <3> QED BY <2>1, <3>1, <3>2, <3>3, ClientGoes DEF Untouched
  <2>3. CASE ClientTo(c, "error")
    BY <2>1, <2>3, ClientMoves DEF RemotePcs, Untouched, Ended
  <2> QED BY <2>2, <2>3, <1>4 DEF RmList
<1>5. CASE RmConfirm(c)
  <2>1. rclient[c].pc = "confirm" /\ rclient[c].id = 0 /\ ServiceAsIs
    BY <1>5 DEF RmConfirm, ClientAt, AddInv
  <2>2. Cardinality(rclient[c].todo) \in Nat
    BY <1>0, RequestsFinite DEF RemoteClientSet
  <2>3. CASE ClientTo(c, "refused")
    BY <2>1, <2>3, ClientMoves DEF RemotePcs, Untouched, Ended
  <2>4. CASE ClientTo(c, "delete") /\ ~(Cardinality(rclient[c].todo) > 1 /\ ~rclient[c].flag)
    <3>1. ~rclient[c].flag => Cardinality(rclient[c].todo) <= 1
      BY <2>2, <2>4
    <3> QED BY <2>1, <2>4, <3>1, ClientMoves DEF RemotePcs, Untouched, Ended
  <2> QED BY <2>3, <2>4, <1>5 DEF RmConfirm
<1>6. CASE StatCount(c)
  <2>1. rclient[c].pc = "stat" /\ rclient[c].id = 0 /\ ServiceAsIs
    BY <1>6 DEF StatCount, ClientAt, AddInv
  <2>2. CASE \E s \in rclient[c].statuses :
               rclient' = [rclient EXCEPT ![c].statuses = @ \ {s},
                             ![c].todo = @ \union {i \in RequestIds : requests[i].status = s}]
    <3>1. PICK s : rclient' = [rclient EXCEPT ![c].statuses = @ \ {s},
                             ![c].todo = @ \union {i \in RequestIds : requests[i].status = s}]
      BY <2>2
    <3> DEFINE counted == {i \in RequestIds : requests[i].status = s}
               r == [rclient[c] EXCEPT !.statuses = @ \ {s}, !.todo = @ \union counted]
    <3>2. rclient' = [rclient EXCEPT ![c] = r]
      BY <3>1, <1>0 DEF RemoteTypes, RemoteClientSet
    <3>3. counted \in SUBSET RequestIds
      OBVIOUS
    <3> HIDE DEF counted
    <3>4. /\ r \in RemoteClientSet /\ r.pc = "stat" /\ r.id = 0
      BY <3>3, <2>1, <1>0 DEF RemoteClientSet
    <3>5. Mine(c) = {}
      BY <2>1 DEF DeleteInv, Untouched
    <3> HIDE DEF r
    <3>6. Goes(c, r)
      BY <2>1, <3>2, <3>4 DEF Goes
    <3> QED BY <2>1, <3>4, <3>5, <3>6, ClientGoes DEF Untouched
  <2>3. CASE ClientTo(c, "ok")
    BY <2>1, <2>3, ClientMoves DEF RemotePcs, Untouched, Ended
  <2>4. CASE ClientTo(c, "invalid")
    BY <2>1, <2>4, ClientMoves DEF RemotePcs, Untouched, Ended
  <2> QED BY <2>2, <2>3, <2>4, <1>6 DEF StatCount
<1> QED BY <1>1, <1>2, <1>3, <1>4, <1>5, <1>6

\* The service takes a request, under an ID that was never used.
LEMMA RequestPinStep ==
  ASSUME RemoteInv, NEW c \in RemoteClients, RequestPin(c)
  PROVE  RemoteInv'
<1> USE DEF RemoteInv
<1>0. rclient[c].pc = "add" /\ rclient[c] \in RemoteClientSet /\ rclient[c].cid \in Contents
  BY DEF RequestPin, ClientAt, RemoteTypes, RemoteClientSet, Contents
<1>1. CASE ClientTo(c, "error") /\ ServiceAsIs
  BY <1>0, <1>1, ClientMoves DEF RemotePcs, Untouched, Ended
<1>2. ASSUME NEW i \in RequestIds, requests[i].status = "none",
             requests' = [requests EXCEPT ![i] = [cid |-> rclient[c].cid, status |-> "queued"]],
             UNCHANGED <<wasPinned, removedBy>>,
             \/ rclient' = [rclient EXCEPT ![c].pc = "delegates", ![c].id = i]
             \/ ClientTo(c, "error")
      PROVE  RemoteInv'
  <2>1. /\ rclient' \in [RemoteClients -> RemoteClientSet]
        /\ \A d \in RemoteClients : d # c => rclient'[d] = rclient[d]
        /\ rclient'[c].pc \in {"delegates", "error"} /\ (rclient'[c].pc = "delegates" => rclient'[c].id = i)
    BY SMTT(20), <1>0, <1>2 DEF ClientTo, RemoteTypes, RemoteClientSet, RemotePcs, Untouched, Ended
  <2>2. /\ requests' \in [RequestIds -> RequestSet] /\ requests'[i].status = "queued"
        /\ \A j \in RequestIds : j # i => requests'[j] = requests[j]
    BY <1>0, <1>2 DEF RemoteTypes, RequestSet, Statuses
  <2>3. RemoteTypes'
    BY <2>1, <2>2, <1>2 DEF RemoteTypes
  <2>4. ASSUME NEW d \in RemoteClients
        PROVE  Mine(d)' = Mine(d) /\ i \notin Mine(d) \union Doomed(d) /\ Doomed(d)' = Doomed(d)
    <3>1. i \notin Mine(d) \union Doomed(d)
      BY <1>2 DEF DeleteInv
    <3>2. Doomed(d)' = Doomed(d)
      BY <1>0, <2>1 DEF Doomed
    <3> QED BY <3>1, <3>2, <1>2 DEF Mine
  <2>5. DeleteInv'
    <3> SUFFICES ASSUME NEW d \in RemoteClients
                 PROVE  /\ rclient'[d].pc \in Untouched => Mine(d)' = {}
                        /\ \A j \in Mine(d)' \union Doomed(d)' :
                             requests'[j].cid = rclient'[d].cid /\ requests'[j].status # "none"
                        /\ rclient'[d].pc # "confirm" /\ ~rclient'[d].flag
                             => Cardinality(Mine(d)' \union Doomed(d)') <= 1
      BY DEF DeleteInv
    <3>1. CASE d # c
      <4>1. \A j \in Mine(d) \union Doomed(d) : j \in RequestIds
        BY DEF Mine, Doomed, RemoteTypes, RemoteClientSet
      <4> QED BY <3>1, <4>1, <2>1, <2>2, <2>4 DEF DeleteInv
    <3>2. CASE d = c
      <4>1. Mine(c) = {} /\ Doomed(c) = {}
        BY <1>0 DEF DeleteInv, Doomed, Untouched
      <4> QED BY <3>2, <4>1, <2>4, FS_EmptySet
    <3> QED BY <3>1, <3>2
  <2>6. AddInv'
    BY <2>1, <2>2, <1>2 DEF AddInv, AddMeansPinned
  <2>7. RequestsRemain'
    BY <2>2, <1>2 DEF RequestsRemain
  <2> QED BY <2>3, <2>5, <2>6, <2>7
<1> QED BY <1>1, <1>2 DEF RequestPin

\* A removal deletes one of its requests, or ends.
LEMMA RmDeleteStep ==
  ASSUME RemoteInv, NEW c \in RemoteClients, RmDelete(c)
  PROVE  RemoteInv'
<1> USE DEF RemoteInv
<1>0. rclient[c].pc = "delete" /\ rclient[c] \in RemoteClientSet /\ rclient[c].id = 0
  BY DEF RmDelete, ClientAt, RemoteTypes, AddInv
<1>1. CASE ClientTo(c, "ok") /\ ServiceAsIs
  BY <1>0, <1>1, ClientMoves DEF RemotePcs, Untouched, Ended
<1>2. CASE ClientTo(c, "error") /\ ServiceAsIs
  BY <1>0, <1>2, ClientMoves DEF RemotePcs, Untouched, Ended
<1>3. ASSUME NEW i \in rclient[c].todo, requests' = [requests EXCEPT ![i].status = "gone"],
             removedBy' = [removedBy EXCEPT ![i] = @ \union {c}],
             rclient' = [rclient EXCEPT ![c].todo = @ \ {i}], UNCHANGED wasPinned
      PROVE  RemoteInv'
  <2>0. i \in RequestIds
    BY <1>0 DEF RemoteClientSet
  <2>1. /\ rclient' \in [RemoteClients -> RemoteClientSet] /\ rclient'[c].todo = rclient[c].todo \ {i}
        /\ \A d \in RemoteClients : /\ rclient'[d].pc = rclient[d].pc /\ rclient'[d].flag = rclient[d].flag
                                    /\ rclient'[d].cid = rclient[d].cid /\ rclient'[d].id = rclient[d].id
                                    /\ d # c => rclient'[d].todo = rclient[d].todo
    BY <1>0, <1>3 DEF RemoteTypes, RemoteClientSet
  <2>2. /\ requests' \in [RequestIds -> RequestSet] /\ requests'[i].status = "gone"
        /\ \A j \in RequestIds : requests'[j].cid = requests[j].cid
        /\ \A j \in RequestIds : j # i => requests'[j].status = requests[j].status
    BY <2>0, <1>3 DEF RemoteTypes, RequestSet
  <2>3. /\ removedBy' \in [RequestIds -> SUBSET RemoteClients] /\ removedBy'[i] = removedBy[i] \union {c}
        /\ \A j \in RequestIds : j # i => removedBy'[j] = removedBy[j]
    BY <2>0, <1>3 DEF RemoteTypes
  <2>4. RemoteTypes'
    BY <2>1, <2>2, <2>3, <1>3 DEF RemoteTypes
  <2>5. /\ Mine(c)' \union Doomed(c)' = Mine(c) \union Doomed(c)
        /\ \A d \in RemoteClients : d # c => Mine(d)' = Mine(d) /\ Doomed(d)' = Doomed(d)
    <3>1. Mine(c)' = Mine(c) \union {i}
      BY <2>0, <2>3 DEF Mine
    <3>2. Doomed(c) = rclient[c].todo /\ Doomed(c)' = rclient[c].todo \ {i}
      BY <1>0, <2>1 DEF Doomed
    <3>3. \A d \in RemoteClients : d # c => Mine(d)' = Mine(d)
      BY <2>0, <2>3 DEF Mine
    <3>4. \A d \in RemoteClients : d # c => Doomed(d)' = Doomed(d)
      BY <2>1 DEF Doomed
    <3> QED BY <3>1, <3>2, <3>3, <3>4, <1>3
  <2>6. DeleteInv'
    <3> SUFFICES ASSUME NEW d \in RemoteClients
                 PROVE  /\ rclient'[d].pc \in Untouched => Mine(d)' = {}
                        /\ \A j \in Mine(d)' \union Doomed(d)' :
                             requests'[j].cid = rclient'[d].cid /\ requests'[j].status # "none"
                        /\ rclient'[d].pc # "confirm" /\ ~rclient'[d].flag
                             => Cardinality(Mine(d)' \union Doomed(d)') <= 1
      BY DEF DeleteInv
    <3> DEFINE now == Mine(d) \union Doomed(d)
               next == Mine(d)' \union Doomed(d)'
    <3>1. next = now
      BY <2>5
    <3>2. \A j \in now : j \in RequestIds /\ requests[j].cid = rclient[d].cid /\ requests[j].status # "none"
      BY DEF DeleteInv, Mine, Doomed, RemoteTypes, RemoteClientSet
    <3>3. rclient[d].pc # "confirm" /\ ~rclient[d].flag => Cardinality(now) <= 1
      BY DEF DeleteInv
    <3>4. rclient'[d].pc \in Untouched => Mine(d)' = {}
      BY <1>0, <2>1, <2>5 DEF DeleteInv, Untouched
    <3> HIDE DEF now, next
    <3>5. \A j \in next : requests'[j].cid = rclient'[d].cid /\ requests'[j].status # "none"
      BY <3>1, <3>2, <2>1, <2>2
    <3>6. rclient'[d].pc # "confirm" /\ ~rclient'[d].flag => Cardinality(next) <= 1
      BY <3>1, <3>3, <2>1
    <3> QED BY <3>4, <3>5, <3>6 DEF next
  <2>7. AddInv'
    BY <2>1, <2>2, <1>3 DEF AddInv, AddMeansPinned
  <2>8. RequestsRemain'
    BY <2>2, <2>3 DEF RequestsRemain
  <2> QED BY <2>4, <2>6, <2>7, <2>8
<1> QED BY <1>1, <1>2, <1>3 DEF RmDelete

\* The service works on a request.
LEMMA ServiceWorksStep ==
  ASSUME RemoteInv, NEW i \in RequestIds, ServiceWorks(i)
  PROVE  RemoteInv'
<1> USE DEF RemoteInv
<1>1. PICK s \in {"pinning", "pinned", "failed"} :
        /\ requests' = [requests EXCEPT ![i].status = s]
        /\ wasPinned' = IF s = "pinned" THEN wasPinned \union {i} ELSE wasPinned
  BY DEF ServiceWorks
<1>2. UNCHANGED <<rclient, removedBy>>
  BY DEF ServiceWorks
<1>3. /\ requests' \in [RequestIds -> RequestSet] /\ requests'[i].status = s
      /\ \A j \in RequestIds : requests'[j].cid = requests[j].cid
      /\ \A j \in RequestIds : j # i => requests'[j].status = requests[j].status
  BY <1>1 DEF RemoteTypes, RequestSet, Statuses
<1>4. RemoteTypes'
  BY <1>1, <1>2, <1>3 DEF RemoteTypes
<1>5. DeleteInv'
  <2>1. ASSUME NEW d \in RemoteClients
        PROVE  /\ Mine(d)' = Mine(d) /\ Doomed(d)' = Doomed(d)
               /\ \A j \in Mine(d) \union Doomed(d) : j \in RequestIds
    BY <1>2 DEF Mine, Doomed, RemoteTypes, RemoteClientSet
  <2> QED BY <2>1, <1>2, <1>3 DEF DeleteInv
<1>6. AddInv'
  BY <1>1, <1>2, <1>3 DEF AddInv, AddMeansPinned
<1>7. RequestsRemain'
  BY <1>2, <1>3 DEF RequestsRemain
<1> QED BY <1>4, <1>5, <1>6, <1>7

\* The invariant of the pinning service and its clients.
THEOREM RemoteInvariant == RemoteSpec => []RemoteInv
<1>1. RemoteInit => RemoteInv
  <2> SUFFICES ASSUME RemoteInit PROVE RemoteInv
    OBVIOUS
  <2>1. PICK first \in FirstRequests :
          requests = [i \in RequestIds |-> IF i <= Len(first) THEN [cid |-> first[i], status |-> "pinned"]
                                           ELSE [cid |-> NoCid, status |-> "none"]]
    BY DEF RemoteInit
  <2>2. ASSUME NEW i \in RequestIds
        PROVE  requests[i] \in RequestSet /\ requests[i].status # "gone"
    <3>1. first \in Seq({first[j] : j \in DOMAIN first})
      BY RemoteConstants
    <3>2. i \in Nat \ {0} /\ (i <= Len(first) => i \in DOMAIN first)
      BY <3>1, RemoteConstants DEF RequestIds
    <3>3. i <= Len(first) => first[i] \in Contents
      BY <3>2 DEF Contents
    <3>4. NoCid \in Contents
      BY DEF Contents
    <3> QED BY <2>1, <3>3, <3>4 DEF RequestSet, Statuses
  <2>3. \A c \in RemoteClients : rclient[c] = IdleRemote
    BY DEF RemoteInit
  <2>4. RemoteTypes
    <3>1. requests \in [RequestIds -> RequestSet]
      BY <2>1, <2>2
    <3> QED BY <3>1, IdleRemoteType DEF RemoteInit, RemoteTypes
  <2>5. DeleteInv
    <3>1. ASSUME NEW c \in RemoteClients
          PROVE  Mine(c) = {} /\ Doomed(c) = {}
      BY <2>3, IdleRemoteType DEF RemoteInit, Mine, Doomed
    <3>2. ASSUME NEW c \in RemoteClients
          PROVE  Mine(c) \union Doomed(c) = {} /\ Cardinality(Mine(c) \union Doomed(c)) <= 1
      <4>1. Mine(c) \union Doomed(c) = {}
        BY <3>1
      <4> QED BY <4>1, FS_EmptySet
    <3> QED BY <3>1, <3>2 DEF DeleteInv
  <2>6. AddInv
    BY <2>3, IdleRemoteType DEF RemoteInit, AddInv, AddMeansPinned
  <2> QED BY <2>2, <2>4, <2>5, <2>6 DEF RemoteInv, RequestsRemain
<1>2. RemoteInv /\ [RemoteNext]_rpVars => RemoteInv'
  <2> SUFFICES ASSUME RemoteInv, [RemoteNext]_rpVars PROVE RemoteInv'
    OBVIOUS
  <2>1. ASSUME NEW c \in RemoteClients, ClientStep(c) \/ PollInterrupt(c)
        PROVE  RemoteInv'
    BY <2>1, ClientQuietSteps, RequestPinStep, RmDeleteStep DEF ClientStep
  <2>2. ASSUME NEW c \in RemoteClients,
               \/ StatRemote(c)
               \/ \E cid \in RemoteCids, flag \in BOOLEAN :
                    \/ AddRemotePin(c, cid, flag)
                    \/ \E st \in {{"pinned"}, Statuses} : RmRemotePin(c, cid, st, flag)
        PROVE  RemoteInv'
    BY <2>2, RemoteStarts
  <2>3. ASSUME NEW i \in RequestIds, ServiceWorks(i)
        PROVE  RemoteInv'
    BY <2>3, ServiceWorksStep
  <2>4. CASE UNCHANGED rpVars
    BY <2>4 DEF rpVars, RemoteInv, RemoteTypes, DeleteInv, AddInv, AddMeansPinned, RequestsRemain, Mine, Doomed
  <2> QED BY <2>1, <2>2, <2>3, <2>4 DEF RemoteNext
<1> QED BY <1>1, <1>2, PTL DEF RemoteSpec

\* Commands of any number of clients take from the service what they were told to:
\* without --force at most one request and never another content's; an add reports
\* what was pinned; and nothing leaves the service without a removal.
THEOREM RemoteRequestsKept == RemoteSpec => []RequestsKept
<1>1. RemoteInv => RmSparesOthers
  <2> SUFFICES ASSUME RemoteInv, NEW c \in RemoteClients
               PROVE  /\ ~rclient[c].flag => Cardinality(Mine(c)) <= 1
                      /\ \A i \in Mine(c) : requests[i].cid = rclient[c].cid
    BY DEF RmSparesOthers, Mine
  <2>1. CASE Mine(c) = {}
    BY <2>1, FS_EmptySet
  <2>2. CASE Mine(c) # {}
    <3>1. rclient[c].pc # "confirm"
      BY <2>2 DEF RemoteInv, DeleteInv, Untouched
    <3>2. Mine(c) \union Doomed(c) \subseteq RequestIds /\ Mine(c) \subseteq RequestIds
      BY DEF Mine, Doomed, RemoteInv, RemoteTypes, RemoteClientSet
    <3>3. Cardinality(Mine(c)) <= Cardinality(Mine(c) \union Doomed(c))
      BY <3>2, RequestsFinite, FS_Subset
    <3>4. Cardinality(Mine(c)) \in Nat /\ Cardinality(Mine(c) \union Doomed(c)) \in Nat
      BY <3>2, RequestsFinite
    <3> QED BY <3>1, <3>3, <3>4 DEF RemoteInv, DeleteInv
  <2> QED BY <2>1, <2>2
<1>2. RemoteInv => RequestsKept
  BY <1>1 DEF RemoteInv, AddInv, RequestsKept
<1> QED BY <1>2, RemoteInvariant, PTL

-----------------------------------------------------------------------------
(***************************************************************************)
(* Migrations.                                                             *)
(*                                                                         *)
(* The list of what is to run and the version of the repo change together, *)
(* one program at a time; every program of the list is at hand or still    *)
(* among the downloads, all of which the caller waits for before it runs   *)
(* the first.                                                              *)
(***************************************************************************)
Series(v) == [i \in 1 .. MigTarget - v |-> v + i - 1]
Outdated == {"configure", "fetcher", "find", "download"}

MigInv ==
  /\ version \in Nat /\ MigTarget \in Nat
  /\ mpc \in Outdated => version < MigTarget
  /\ mpc = "run" => version <= MigTarget
  /\ mpc \in {"download", "run"} => todo = Series(version)
  /\ mpc = "download" => Needed(version) \subseteq bins \union DOMAIN dl
  /\ mpc = "run" => Needed(version) \subseteq bins

\* What is left of the series after its first program.
LEMMA SeriesGoesOn ==
  ASSUME NEW v \in Nat, MigTarget \in Nat, v <= MigTarget, Series(v) # << >>
  PROVE  Head(Series(v)) = v /\ Tail(Series(v)) = Series(v + 1) /\ v < MigTarget
<1>1. v < MigTarget
  <2> SUFFICES ASSUME v = MigTarget PROVE FALSE
    OBVIOUS
  <2>1. Series(v) = << >>
    BY DEF Series
  <2> QED BY <2>1
<1> DEFINE n == MigTarget - v
<1>2. n \in Nat /\ n > 0 /\ MigTarget - (v + 1) = n - 1
  BY <1>1
<1>3. Series(v) \in Seq(Nat) /\ Len(Series(v)) = n /\ \A i \in 1 .. n : Series(v)[i] = v + i - 1
  <2>1. \A i \in 1 .. n : v + i - 1 \in Nat
    BY <1>2
  <2> HIDE DEF n
  <2>2. Series(v) = [i \in 1 .. n |-> v + i - 1]
    BY DEF Series, n
  <2> QED BY <2>1, <2>2, <1>2
<1>4. Head(Series(v)) = v
  BY <1>2, <1>3
<1>5. Tail(Series(v)) = [i \in 1 .. n - 1 |-> v + i]
  <2> HIDE DEF n
  <2>1. Tail(Series(v)) \in Seq(Nat) /\ Len(Tail(Series(v))) = n - 1
    BY <1>2, <1>3, HeadTailProperties
  <2>2. \A i \in 1 .. n - 1 : Tail(Series(v))[i] = v + i
    BY <1>2, <1>3, HeadTailProperties
  <2>3. [i \in 1 .. n - 1 |-> v + i] \in Seq(Nat) /\ Len([i \in 1 .. n - 1 |-> v + i]) = n - 1
    BY <1>2
  <2> QED BY <2>1, <2>2, <2>3, SeqEqual
<1>6. Series(v + 1) = [i \in 1 .. n - 1 |-> v + i]
  <2>1. \A i \in 1 .. n - 1 : (v + 1) + i - 1 = v + i
    BY <1>2
  <2> QED BY <2>1, <1>2 DEF Series
<1> QED BY <1>1, <1>4, <1>5, <1>6

\* The steps that neither run a program nor touch the list.
LEMMA MigQuietSteps ==
  ASSUME MigInv, mpc' \in Idle \union {"closeOk", "close"}, UNCHANGED version
  PROVE  MigInv'
BY DEF MigInv, Idle, Outdated

\* The steps that lead to the downloads.
LEMMA MigPrepareSteps ==
  ASSUME MigInv, MigStart \/ ReadMigrationConfig \/ GetMigrationFetcher
  PROVE  MigInv'
<1>1. CASE MigStart
  <2>1. version' = version /\ mpc' = RepoVersionOf
    BY <1>1 DEF MigStart
  <2> QED BY <2>1 DEF MigInv, RepoVersionOf, Outdated
<1>2. CASE ReadMigrationConfig
  <2>1. version' = version /\ mpc = "configure" /\ mpc' \in {"fetcher", "failed", "refused"}
    BY <1>2 DEF ReadMigrationConfig
  <2> QED BY <2>1 DEF MigInv, Outdated
<1>3. CASE GetMigrationFetcher
  <2>1. version' = version /\ mpc = "fetcher"
    BY <1>3 DEF GetMigrationFetcher
  <2>2. mpc' \in {"failed", "find"}
    BY <1>3, Zenon DEF GetMigrationFetcher
  <2> QED BY <2>1, <2>2 DEF MigInv, Outdated
<1> QED BY <1>1, <1>2, <1>3

\* The downloads: what is missing stays among them.
LEMMA MigDownloadSteps ==
  ASSUME MigInv, NEW n \in Versions,
         OpenTempNode(n) \/ HttpFetch(n) \/ IpfsFetch(n) \/ UnpackArchive(n) \/ FetchFails(n)
  PROVE  MigInv'
<1>1. /\ UNCHANGED <<version, mpc, bins, todo>>
      /\ dl' = dl \/ \E d : dl' = [dl EXCEPT ![n] = d]
  BY DEF OpenTempNode, HttpFetch, IpfsFetch, UnpackArchive, FetchFails
<1>2. DOMAIN dl' = DOMAIN dl
  BY <1>1
<1> QED BY <1>1, <1>2 DEF MigInv, Needed

\* The list is made, the downloads end, the programs run.
LEMMA MigSeriesSteps ==
  ASSUME MigInv, FindMigrations \/ DownloadsJoin \/ RunMigration
  PROVE  MigInv'
<1> USE DEF MigInv
<1>1. CASE FindMigrations
  <2>1. /\ mpc = "find" /\ mpc' = "download" /\ UNCHANGED version /\ todo' = Series(version)
    BY <1>1 DEF FindMigrations, Series
  <2>2. DOMAIN dl' = Needed(version) \ bins'
    BY <1>1 DEF FindMigrations
  <2> QED BY <2>1, <2>2 DEF Outdated, Needed, Series
<1>2. CASE DownloadsJoin
  <2>1. /\ mpc = "download" /\ UNCHANGED <<version, todo>> /\ mpc' \in {"run", "close"}
        /\ mpc' = "run" => Downloaded = DOMAIN dl
        /\ bins' = bins \union Downloaded
    BY <1>2 DEF DownloadsJoin
  <2>2. mpc' = "run" => Needed(version) \subseteq bins'
    BY <2>1
  <2> QED BY <2>1, <2>2 DEF Outdated, Series, Needed
<1>3. CASE RunMigration
  <2>1. CASE version' = Head(todo) + 1 /\ todo' = Tail(todo) /\ UNCHANGED mpc
    <3>1. mpc = "run" /\ todo = Series(version) /\ todo # << >> /\ UNCHANGED bins /\ version <= MigTarget
      BY <1>3 DEF RunMigration
    <3>2. version < MigTarget /\ version' = version + 1 /\ todo' = Series(version + 1)
      BY <2>1, <3>1, SeriesGoesOn
    <3>3. Needed(version + 1) \subseteq Needed(version)
      <4>1. version \in Nat /\ Versions \subseteq Nat
        BY MigrationConstants
      <4>2. \A m \in Nat : version + 1 <= m => version <= m
        BY <4>1
      <4> QED BY <4>1, <4>2 DEF Needed
    <3> QED BY <2>1, <3>1, <3>2, <3>3 DEF Outdated, Series, Needed
  <2>2. CASE mpc' = "close" /\ UNCHANGED <<version, todo>>
    BY <2>2, MigQuietSteps
  <2> QED BY <2>1, <2>2, <1>3 DEF RunMigration
<1> QED BY <1>1, <1>2, <1>3

\* The invariant of a migration: what is left to run is the series from the version
\* the repo has, and all of it is or will be at hand.
THEOREM MigInvariant == MigSpec => []MigInv
<1>1. MigInit => MigInv
  BY MigrationConstants DEF MigInit, MigInv, Outdated
<1>2. MigInv /\ [MigNext]_mVars => MigInv'
  <2> SUFFICES ASSUME MigInv, [MigNext]_mVars PROVE MigInv'
    OBVIOUS
  <2>1. CASE MigStart \/ ReadMigrationConfig \/ GetMigrationFetcher
    BY <2>1, MigPrepareSteps
  <2>2. CASE FindMigrations \/ DownloadsJoin \/ RunMigration
    BY <2>2, MigSeriesSteps
  <2>3. CASE Migrated \/ FetcherClose \/ MigCrash
    BY <2>3, MigQuietSteps DEF Migrated, FetcherClose, MigCrash, Idle
  <2>4. ASSUME NEW n \in Versions,
               OpenTempNode(n) \/ HttpFetch(n) \/ IpfsFetch(n) \/ UnpackArchive(n) \/ FetchFails(n)
        PROVE  MigInv'
    BY <2>4, MigDownloadSteps
  <2>5. CASE UNCHANGED mVars
    BY <2>5 DEF mVars, MigInv, Series, Needed
  <2> QED BY <2>1, <2>2, <2>3, <2>4, <2>5 DEF MigNext, MigStep
<1> QED BY <1>1, <1>2, PTL DEF MigSpec

\* No program runs before all of the series are at hand, and the series starts where
\* the repo is and ends at the target, after crashes and failures too.
THEOREM MigSeriesWhole == MigSpec => []SeriesWhole
<1>1. MigInv => SeriesWhole
  BY DEF MigInv, SeriesWhole, RunOnlyComplete, SeriesFitsRepo, Series
<1> QED BY <1>1, MigInvariant, PTL

\* A caller that has returned has stopped its temporary node, and one that has not
\* yet got to its downloads has none.
Nodeless == {"ok", "refused", "failed", "configure", "fetcher", "find"}
TempInv == mpc \in Nodeless => temp \in {"none", "closed"}

LEMMA TempSteps ==
  ASSUME TempInv, [MigNext]_mVars
  PROVE  TempInv'
<1> USE DEF TempInv, Nodeless
<1>1. CASE MigStart \/ MigCrash
  BY <1>1 DEF MigStart, MigCrash
<1>2. CASE ReadMigrationConfig \/ GetMigrationFetcher
  <2>1. mpc \in {"configure", "fetcher"} /\ UNCHANGED temp
    BY <1>2 DEF ReadMigrationConfig, GetMigrationFetcher
  <2> QED BY <2>1
<1>3. CASE FindMigrations \/ DownloadsJoin \/ RunMigration \/ Migrated \/ FetcherClose
  <2>1. /\ mpc' \in Nodeless => mpc' = mpc \/ FetcherClose
        /\ mpc' = mpc => UNCHANGED temp
    BY <1>3 DEF FindMigrations, DownloadsJoin, RunMigration, Migrated, FetcherClose
  <2>2. CASE FetcherClose
    BY <2>2 DEF FetcherClose
  <2> QED BY <2>1, <2>2
<1>4. ASSUME NEW n \in Versions,
             OpenTempNode(n) \/ HttpFetch(n) \/ IpfsFetch(n) \/ UnpackArchive(n) \/ FetchFails(n)
      PROVE  TempInv'
  <2>1. mpc = "download" /\ UNCHANGED mpc
    BY <1>4 DEF OpenTempNode, HttpFetch, IpfsFetch, UnpackArchive, FetchFails, Fetching
  <2> QED BY <2>1
<1>5. CASE UNCHANGED mVars
  BY <1>5 DEF mVars
<1> QED BY <1>1, <1>2, <1>3, <1>4, <1>5 DEF MigNext, MigStep

LEMMA TempInvImplies == TempInv => TempNodeGone
BY DEF TempInv, TempNodeGone, Nodeless

\* The temporary node of a migration does not outlive the call that started it.
THEOREM MigTempNodeGone == MigSpec => []TempNodeGone
<1>1. MigInit => TempInv
  BY DEF MigInit, TempInv
<1> QED BY <1>1, TempInvImplies, TempSteps, PTL DEF MigSpec

-----------------------------------------------------------------------------
(***************************************************************************)
(* The daemon.                                                             *)
(*                                                                         *)
(* Plugins are closed by three hands: the loader itself when one of them   *)
(* does not start, the node's process once their loader is its child, and  *)
(* nobody when the process was closing before that.  Who is responsible    *)
(* follows from child and from how far daemonFunc has got; the process is  *)
(* not closed, and so daemonFunc does not go past node.Close, before its   *)
(* child is.                                                               *)
(***************************************************************************)
BeforeNode == {"load", "open", "migrate", "configure", "node", "fatal"}
WithNode == {"start", "child", "api", "mount", "gateway", "serve", "libp2p", "wait", "stopping"}

PluginInv ==
  /\ started = running
  /\ loader \in {"Closed", "Failed"} => running = {}
  /\ child \in {"no", "yes", "skipped", "closed"}
  /\ child = "no" /\ running # {} => pc \in {"start", "child", "killed"}
  /\ child # "no" => pc \notin BeforeNode \union {"start", "child"}
  /\ child = "closed" => running = {}
  /\ child = "yes" => app \notin {"closed", "stopped"}

DeferInv ==
  /\ deferred \in BOOLEAN
  /\ pc \in WithNode => deferred = TRUE
  /\ pc \in BeforeNode => deferred = FALSE
  /\ deferred = FALSE => running = {}
  /\ pc \in {"closeRepo", "exited"} /\ deferred = TRUE => app = "stopped"

CleanInv == pc \in {"load", "exited"} => repo = "closed" /\ tmp = FALSE /\ fetcher = FALSE

DaemonInv == PluginInv /\ DeferInv /\ CleanInv

\* The actions up to the node leave the plugins not started.
LEMMA DaemonBuildSteps ==
  ASSUME DaemonInv, LoadPlugins \/ OpenRepo \/ Migrate \/ Configure \/ NewNode
  PROVE  DaemonInv'
<1> USE DEF DaemonInv, PluginInv, DeferInv, CleanInv, BeforeNode, WithNode
<1>1. CASE LoadPlugins
  BY <1>1 DEF LoadPlugins, LoadFails, Initialize, Inject, Goto
<1>2. CASE OpenRepo
  BY <1>2 DEF OpenRepo, Goto, Return, loaderVars
<1>3. CASE Migrate
  <2>1. /\ pc = "migrate" /\ pc' \in {"return", "configure"}
        /\ UNCHANGED <<loaderVars, app, deferred, child>>
    BY <1>3 DEF Migrate, Goto, Return
  <2> QED BY <2>1 DEF loaderVars
<1>4. CASE Configure
  <2>1. /\ pc = "configure" /\ pc' \in {"return", "fatal", "node"}
        /\ UNCHANGED <<loaderVars, app, deferred, child>>
    BY <1>4 DEF Configure, Goto
  <2> QED BY <2>1 DEF loaderVars
<1>5. CASE NewNode
  BY <1>5 DEF NewNode, Goto, Return, loaderVars
<1> QED BY <1>1, <1>2, <1>3, <1>4, <1>5

\* The plugins start, and become the node's to close or nobody's.
LEMMA DaemonPluginSteps ==
  ASSUME DaemonInv, StartPlugins \/ AddPluginChild \/ ClosePlugins
  PROVE  DaemonInv'
<1> USE DEF DaemonInv, PluginInv, DeferInv, CleanInv, BeforeNode, WithNode
<1>1. CASE StartPlugins
  <2>1. pc = "start" /\ UNCHANGED <<app, child, deferred>>
    BY <1>1 DEF StartPlugins
  <2>2. CASE StartBegin /\ UNCHANGED pc
    BY <2>1, <2>2 DEF StartBegin
  <2>3. CASE StartOne /\ UNCHANGED pc
    BY <2>1, <2>3 DEF StartOne
  <2>4. CASE loader = "Starting" /\ running = {} /\ Return /\ UNCHANGED loaderVars
    BY <2>1, <2>4 DEF Return, loaderVars
  <2>5. CASE loader = "Starting" /\ ToStart # << >> /\ Close /\ Return
    BY <2>1, <2>5 DEF Return, Close
  <2>6. CASE StartDone /\ Goto("child")
    BY <2>1, <2>6 DEF StartDone, Goto
  <2> QED BY <1>1, <2>2, <2>3, <2>4, <2>5, <2>6 DEF StartPlugins
<1>2. CASE AddPluginChild
  BY <1>2 DEF AddPluginChild, Closing, Goto, loaderVars
<1>3. CASE ClosePlugins
  <2>1. /\ app = "closing" /\ child = "yes" /\ child' = "closed"
        /\ UNCHANGED <<pc, app, deferred, repo, tmp, fetcher>>
    BY <1>3 DEF ClosePlugins
  <2>2. started' = {} /\ running' = {}
    BY <1>3 DEF ClosePlugins, Close, loaderVars
  <2> QED BY <2>1, <2>2
<1> QED BY <1>1, <1>2, <1>3

\* From the servers to the wait.
LEMMA DaemonServeSteps ==
  ASSUME DaemonInv,
         ServeHTTPApi \/ MountAndGC \/ AddMigrations \/ ServeHTTPGateway \/ ServeLibp2pAndReady \/ WaitForChannels
  PROVE  DaemonInv'
<1>1. /\ pc \in {"api", "mount", "gateway", "serve", "libp2p", "wait"}
      /\ pc' \in {"mount", "gateway", "serve", "libp2p", "wait", "return"}
      /\ UNCHANGED <<loaderVars, app, deferred, child>>
  BY DEF ServeHTTPApi, MountAndGC, AddMigrations, ServeHTTPGateway, ServeLibp2pAndReady, WaitForChannels, Goto, Return
<1> QED BY <1>1 DEF loaderVars, DaemonInv, PluginInv, DeferInv, CleanInv, BeforeNode, WithNode

\* The deferred calls.
LEMMA DaemonReturnSteps ==
  ASSUME DaemonInv, DeferredNodeClose \/ DeferredNodeClosed \/ DeferredRest
  PROVE  DaemonInv'
<1> USE DEF DaemonInv, PluginInv, DeferInv, CleanInv, BeforeNode, WithNode
<1>1. CASE DeferredNodeClose
  <2>1. CASE deferred = TRUE
    BY <1>1, <2>1 DEF DeferredNodeClose, Goto, loaderVars
  <2>2. CASE deferred = FALSE
    BY <1>1, <2>2 DEF DeferredNodeClose, Goto, loaderVars
  <2> QED BY <2>1, <2>2
<1>2. CASE DeferredNodeClosed
  BY <1>2 DEF DeferredNodeClosed, Goto, loaderVars
<1>3. CASE DeferredRest
  BY <1>3 DEF DeferredRest, Goto, loaderVars
<1> QED BY <1>1, <1>2, <1>3

\* The node stops, whoever asks for it.
LEMMA DaemonStopSteps ==
  ASSUME DaemonInv,
         Interrupt \/ StopOnCancel \/ ShutdownCmd \/ ShutdownReturns \/ ProcessClosed \/ AppStopped
  PROVE  DaemonInv'
<1> USE DEF DaemonInv, PluginInv, DeferInv, CleanInv, BeforeNode, WithNode
<1>1. CASE Interrupt
  <2>1. (pc' = pc \/ pc' = "killed") /\ UNCHANGED <<loaderVars, repo, app, deferred, tmp, fetcher, child>>
    BY <1>1 DEF Interrupt, Goto
  <2> QED BY <2>1 DEF loaderVars
<1>2. CASE StopOnCancel \/ ShutdownCmd
  BY <1>2 DEF StopOnCancel, ShutdownCmd, loaderVars
<1>3. CASE ShutdownReturns
  BY <1>3 DEF ShutdownReturns, loaderVars
<1>4. CASE ProcessClosed
  BY <1>4 DEF ProcessClosed, loaderVars
<1>5. CASE AppStopped
  BY <1>5 DEF AppStopped, loaderVars
<1> QED BY <1>1, <1>2, <1>3, <1>4, <1>5

\* Servers, requests and loops touch nothing of it.
LEMMA DaemonOtherSteps ==
  ASSUME DaemonInv, UNCHANGED <<loaderVars, pc, repo, app, deferred, tmp, fetcher, child>>
  PROVE  DaemonInv'
BY DEF loaderVars, DaemonInv, PluginInv, DeferInv, CleanInv

LEMMA DaemonSteps ==
  ASSUME DaemonInv, [DaemonNext]_dVars
  PROVE  DaemonInv'
<1>1. CASE Main
  BY <1>1, DaemonBuildSteps, DaemonPluginSteps, DaemonServeSteps, DaemonReturnSteps DEF Main
<1>2. CASE Stopping \/ Interrupt
  BY <1>2, DaemonPluginSteps, DaemonStopSteps DEF Stopping
<1>3. CASE CheckVersion \/ CheckerStops
  BY <1>3, DaemonOtherSteps DEF CheckVersion, CheckerStops
<1>4. ASSUME NEW s \in AllServers, ServerStep(s) \/ ServeFails(s)
      PROVE  DaemonInv'
  BY <1>4, DaemonOtherSteps
     DEF ServerStep, ServeFails, ServeStart, ServeGo, ServeClosing, ServeDrained, ServeSend, Serve
<1>5. ASSUME NEW r \in Requests, RequestStart(r) \/ RequestFinish(r)
      PROVE  DaemonInv'
  BY <1>5, DaemonOtherSteps DEF RequestStart, RequestFinish
<1>6. CASE GCTick \/ GCCollected \/ GCStop \/ GCSend
  BY <1>6, DaemonOtherSteps DEF GCTick, GCCollected, GCStop, GCSend, GCStep
<1>7. CASE UNCHANGED dVars
  BY <1>7, DaemonOtherSteps DEF dVars, daemonVars
<1> QED BY <1>1, <1>2, <1>3, <1>4, <1>5, <1>6, <1>7 DEF DaemonNext

LEMMA DaemonInvImplies == DaemonInv => ReturnCleansUp /\ PluginsClosedAtExit
BY DEF DaemonInv, PluginInv, DeferInv, CleanInv, ReturnCleansUp, PluginsClosedAtExit, BeforeNode

\* The daemon returns, by whichever of its returns and however far it had got, with
\* the repo closed, no download directory and no fetcher, and with the plugins it
\* started closed unless the node was closing before they became its child.
THEOREM DaemonCleansUp == DaemonSpec => [](ReturnCleansUp /\ PluginsClosedAtExit)
<1>1. DaemonInit => DaemonInv
  BY DEF DaemonInit, LoaderInit, DaemonInv, PluginInv, DeferInv, CleanInv, BeforeNode, WithNode
<1> QED BY <1>1, DaemonInvImplies, DaemonSteps, PTL DEF DaemonSpec

-----------------------------------------------------------------------------
(***************************************************************************)
(* Mounts.                                                                 *)
(*                                                                         *)
(* Unmounting works by mount point, so nothing says that a teardown takes  *)
(* away the mount it is the teardown of.  What holds is a count: as long   *)
(* as no attempt failed, there are at a mount point at most as many mounts *)
(* as there are processes still to be torn down for it.                    *)
(***************************************************************************)
MountSet ==
  [pc : {"none", "wait", "ready", "ok", "err"}, serve : {"none", "run", "end", "err", "done", "failed"},
   active : BOOLEAN, proc : {"none", "open", "closed"}]
MountCmdSet ==
  [pc : {"idle", "old", "mount", "undo", "assign", "ok", "error"}, todo : SUBSET MountKinds]

MountTypes ==
  /\ kernel \in [MountKinds -> Seq(MountCmds)]
  /\ fmount \in [MountCmds -> [MountKinds -> MountSet]]
  /\ mcmd \in [MountCmds -> MountCmdSet]
  /\ nodeMounts \in [MountKinds -> MountCmds \union {NoCmd}]
  /\ stuck \in BOOLEAN

OpenMounts(k) == {c \in MountCmds : fmount[c][k].proc = "open"}

KernelInv ==
  \A k \in MountKinds :
    /\ IsFiniteSet(OpenMounts(k))
    /\ stuck = FALSE => Len(kernel[k]) <= Cardinality(OpenMounts(k))

\* A mount of c is c's alone until c has succeeded: nobody else closes its process.
OneMountInv(c, k) ==
  /\ fmount[c][k].pc = "none" => fmount[c][k].proc = "none"
  /\ mcmd[c].pc \in {"idle", "old"} => fmount[c][k].pc = "none"
  /\ fmount[c][k].active = TRUE => fmount[c][k].pc = "ok"
  /\ mcmd[c].pc \in {"undo", "assign", "ok", "error"} => fmount[c][k].pc \in {"ok", "err"}
  /\ mcmd[c].pc = "mount" /\ fmount[c][k].pc \notin {"none", "err"} => fmount[c][k].proc = "open"
  /\ mcmd[c].pc = "undo" /\ k \in mcmd[c].todo => fmount[c][k].proc = "open"
  /\ stuck = FALSE /\ (mcmd[c].pc = "error" \/ (mcmd[c].pc = "undo" /\ k \notin mcmd[c].todo))
       => fmount[c][k].active = FALSE
  /\ mcmd[c].pc = "old" /\ k \in mcmd[c].todo => nodeMounts[k] # NoCmd

MountInv ==
  /\ \A c \in MountCmds, k \in MountKinds : OneMountInv(c, k)
  /\ \A k \in MountKinds : nodeMounts[k] # NoCmd => mcmd[nodeMounts[k]].pc \in {"assign", "ok"}

NodeInv ==
  /\ fnode # "open" => \A c \in MountCmds : ~Mounting(c)
  /\ fnode = "closed" => \A c \in MountCmds, k \in MountKinds : fmount[c][k].proc # "open"

FuseInv == MountTypes /\ KernelInv /\ MountInv /\ NodeInv

\* Only the mount of c for k changes.
OnlyMount(c, k) ==
  /\ fmount' \in [MountCmds -> [MountKinds -> MountSet]]
  /\ \A d \in MountCmds, l \in MountKinds : d # c \/ l # k => fmount'[d][l] = fmount[d][l]

OnceStuck == stuck' \in BOOLEAN /\ (stuck = TRUE => stuck' = TRUE)

\* The count, when no process is opened or closed and nothing is mounted.
LEMMA CountStays ==
  ASSUME FuseInv,
         \A c \in MountCmds, k \in MountKinds : fmount'[c][k].proc = "open" <=> fmount[c][k].proc = "open",
         \A l \in MountKinds : Len(kernel'[l]) <= Len(kernel[l]) /\ Len(kernel'[l]) \in Nat,
         OnceStuck
  PROVE  KernelInv'
<1>1. ASSUME NEW l \in MountKinds
      PROVE  OpenMounts(l)' = OpenMounts(l)
  BY DEF OpenMounts
<1>2. ASSUME NEW l \in MountKinds
      PROVE  /\ IsFiniteSet(OpenMounts(l)')
             /\ stuck' = FALSE => Len(kernel'[l]) <= Cardinality(OpenMounts(l)')
  <2> DEFINE S == OpenMounts(l)
             T == OpenMounts(l)'
  <2>1. S = T
    BY <1>1
  <2>2. IsFiniteSet(S) /\ (stuck = FALSE => Len(kernel[l]) <= Cardinality(S))
    BY DEF FuseInv, KernelInv
  <2>3. Cardinality(S) \in Nat
    BY <2>2, FS_CardinalityType
  <2>4. Len(kernel[l]) \in Nat /\ Len(kernel'[l]) \in Nat /\ Len(kernel'[l]) <= Len(kernel[l])
    BY DEF FuseInv, MountTypes
  <2> HIDE DEF S, T
  <2>5. stuck \in BOOLEAN
    BY DEF FuseInv, MountTypes
  <2>6. stuck' = FALSE => stuck = FALSE
    BY <2>5 DEF OnceStuck
  <2>7. IsFiniteSet(T) /\ (stuck' = FALSE => Len(kernel'[l]) <= Cardinality(T))
    BY <2>1, <2>2, <2>3, <2>4, <2>6
  <2> QED BY <2>7 DEF T
<1> QED BY <1>2 DEF KernelInv

\* The count, when one process is closed: what was on top at its mount point went,
\* or the attempt failed.
LEMMA CountFalls ==
  ASSUME FuseInv, NEW c \in MountCmds, NEW k \in MountKinds, OnlyMount(c, k),
         fmount[c][k].proc = "open", fmount'[c][k].proc # "open",
         kernel' \in [MountKinds -> Seq(MountCmds)],
         \A l \in MountKinds : l # k => kernel'[l] = kernel[l],
         stuck' = FALSE => Len(kernel'[k]) = Len(kernel[k]) - 1,
         OnceStuck
  PROVE  KernelInv'
<1>1. ASSUME NEW l \in MountKinds, l # k
      PROVE  OpenMounts(l)' = OpenMounts(l)
  BY <1>1 DEF OpenMounts, OnlyMount
<1>2. OpenMounts(k)' = OpenMounts(k) \ {c} /\ c \in OpenMounts(k)
  BY DEF OpenMounts, OnlyMount
<1>3. ASSUME NEW l \in MountKinds
      PROVE  /\ IsFiniteSet(OpenMounts(l)')
             /\ stuck' = FALSE => Len(kernel'[l]) <= Cardinality(OpenMounts(l)')
  <2> DEFINE S == OpenMounts(l)
             T == OpenMounts(l)'
  <2>1. IF l = k THEN T = S \ {c} /\ c \in S ELSE T = S
    BY <1>1, <1>2
  <2>2. IsFiniteSet(S) /\ (stuck = FALSE => Len(kernel[l]) <= Cardinality(S))
    BY DEF FuseInv, KernelInv
  <2>3. Len(kernel[l]) \in Nat /\ (l # k => kernel'[l] = kernel[l])
        /\ (stuck' = FALSE /\ l = k => Len(kernel'[l]) = Len(kernel[l]) - 1)
    BY DEF FuseInv, MountTypes
  <2>4. stuck' = FALSE => stuck = FALSE
    BY DEF FuseInv, MountTypes, OnceStuck
  <2> HIDE DEF S, T
  <2>5. Cardinality(S) \in Nat
    BY <2>2, FS_CardinalityType
  <2>6. l = k => IsFiniteSet(T) /\ Cardinality(T) = Cardinality(S) - 1
    BY <2>1, <2>2, FS_RemoveElement
  <2>7. IsFiniteSet(T) /\ (stuck' = FALSE => Len(kernel'[l]) <= Cardinality(T))
    BY <2>1, <2>2, <2>3, <2>4, <2>5, <2>6
  <2> QED BY <2>7 DEF T
<1> QED BY <1>3 DEF KernelInv

\* The count, when a file system is mounted.
LEMMA CountRises ==
  ASSUME FuseInv, NEW c \in MountCmds, NEW k \in MountKinds, OnlyMount(c, k),
         fmount[c][k].proc # "open", fmount'[c][k].proc = "open",
         kernel' = [kernel EXCEPT ![k] = Append(@, c)], UNCHANGED stuck
  PROVE  KernelInv'
<1>1. ASSUME NEW l \in MountKinds, l # k
      PROVE  OpenMounts(l)' = OpenMounts(l) /\ kernel'[l] = kernel[l]
  BY <1>1 DEF OpenMounts, OnlyMount, FuseInv, MountTypes
<1>2. OpenMounts(k)' = OpenMounts(k) \union {c} /\ c \notin OpenMounts(k)
  BY DEF OpenMounts, OnlyMount
<1>3. Len(kernel'[k]) = Len(kernel[k]) + 1
  BY DEF FuseInv, MountTypes
<1>4. ASSUME NEW l \in MountKinds
      PROVE  /\ IsFiniteSet(OpenMounts(l)')
             /\ stuck' = FALSE => Len(kernel'[l]) <= Cardinality(OpenMounts(l)')
  <2> DEFINE S == OpenMounts(l)
             T == OpenMounts(l)'
  <2>1. IF l = k THEN T = S \union {c} /\ c \notin S ELSE T = S
    BY <1>1, <1>2
  <2>2. IsFiniteSet(S) /\ (stuck = FALSE => Len(kernel[l]) <= Cardinality(S))
    BY DEF FuseInv, KernelInv
  <2>3. Len(kernel[l]) \in Nat /\ (l # k => kernel'[l] = kernel[l])
        /\ (l = k => Len(kernel'[l]) = Len(kernel[l]) + 1)
    BY <1>1, <1>3 DEF FuseInv, MountTypes
  <2> HIDE DEF S, T
  <2>5. Cardinality(S) \in Nat
    BY <2>2, FS_CardinalityType
  <2>6. l = k => IsFiniteSet(T) /\ Cardinality(T) = Cardinality(S) + 1
    BY <2>1, <2>2, FS_AddElement
  <2>7. IsFiniteSet(T) /\ (stuck' = FALSE => Len(kernel'[l]) <= Cardinality(T))
    BY <2>1, <2>2, <2>3, <2>5, <2>6
  <2> QED BY <2>7 DEF T
<1> QED BY <1>4 DEF KernelInv

\* The fields of a mount that is torn down.
LEMMA TornDown ==
  ASSUME NEW o \in MountSet
  PROVE  /\ LET m == [o EXCEPT !.proc = "closed"] IN
            m \in MountSet /\ m.proc = "closed" /\ m.pc = o.pc /\ m.active = o.active
         /\ LET m == [o EXCEPT !.proc = "closed", !.active = FALSE] IN
            m \in MountSet /\ m.proc = "closed" /\ m.pc = o.pc /\ m.active = FALSE
         /\ LET m == [o EXCEPT !.proc = "closed", !.active = FALSE, !.serve = IF @ = "run" THEN "end" ELSE @] IN
            m \in MountSet /\ m.proc = "closed" /\ m.pc = o.pc /\ m.active = FALSE
BY DEF MountSet

\* It is given another record.
LEMMA MountIsSet ==
  ASSUME fmount \in [MountCmds -> [MountKinds -> MountSet]], NEW c \in MountCmds, NEW k \in MountKinds,
         NEW m \in MountSet, fmount' = [fmount EXCEPT ![c][k] = m]
  PROVE  OnlyMount(c, k) /\ fmount'[c][k] = m
BY DEF OnlyMount

\* A teardown that finds its process open.
LEMMA TeardownEffect ==
  ASSUME FuseInv, NEW c \in MountCmds, NEW k \in MountKinds, fmount[c][k].proc = "open", UnmountTeardown(c, k)
  PROVE  /\ OnlyMount(c, k) /\ fmount'[c][k].proc = "closed" /\ fmount'[c][k].pc = fmount[c][k].pc
         /\ fmount'[c][k].active = FALSE \/ (fmount'[c][k].active = fmount[c][k].active /\ stuck' = TRUE)
         /\ kernel' \in [MountKinds -> Seq(MountCmds)]
         /\ OnceStuck /\ KernelInv'
<1>0. fmount \in [MountCmds -> [MountKinds -> MountSet]] /\ stuck \in BOOLEAN
      /\ kernel \in [MountKinds -> Seq(MountCmds)]
  BY DEF FuseInv, MountTypes
<1>3. fmount[c][k] \in MountSet
  BY <1>0
<1>1. CASE /\ kernel[k] # << >> /\ ForceUnmount(k)
           /\ fmount' = [fmount EXCEPT ![c][k].proc = "closed", ![c][k].active = FALSE]
           /\ UNCHANGED <<stuck, ffaults>> \/ (FuseFault(k) /\ stuck' = TRUE)
  <2>1. OnceStuck
    BY <1>0, <1>1 DEF OnceStuck
  <2>2. /\ OnlyMount(c, k) /\ fmount'[c][k].proc = "closed" /\ fmount'[c][k].pc = fmount[c][k].pc
        /\ fmount'[c][k].active = FALSE
    <3> DEFINE m == [fmount[c][k] EXCEPT !.proc = "closed", !.active = FALSE]
    <3>1. fmount' = [fmount EXCEPT ![c][k] = m]
      BY <1>0, <1>1
    <3>2. m \in MountSet /\ m.proc = "closed" /\ m.pc = fmount[c][k].pc /\ m.active = FALSE
      BY <1>3, TornDown, Zenon
    <3> HIDE DEF m
    <3> QED BY <1>0, <3>1, <3>2, MountIsSet
  <2>3. /\ kernel' \in [MountKinds -> Seq(MountCmds)]
        /\ \A l \in MountKinds : l # k => kernel'[l] = kernel[l]
        /\ Len(kernel'[k]) = Len(kernel[k]) - 1
    <3> DEFINE q == kernel[k]
    <3>1. q \in Seq(MountCmds) /\ q # << >>
      BY <1>0, <1>1
    <3>2. SubSeq(q, 1, Len(q) - 1) \in Seq(MountCmds) /\ Len(SubSeq(q, 1, Len(q) - 1)) = Len(q) - 1
      BY <3>1
    <3> QED BY <1>0, <1>1, <3>2 DEF ForceUnmount
  <2>4. KernelInv'
    BY <2>1, <2>2, <2>3, CountFalls
  <2> QED BY <2>1, <2>2, <2>3, <2>4
<1>2. CASE /\ UNCHANGED kernel /\ stuck' = TRUE
           /\ \/ fmount' = [fmount EXCEPT ![c][k].proc = "closed", ![c][k].active = FALSE,
                                          ![c][k].serve = IF @ = "run" THEN "end" ELSE @]
              \/ fmount' = [fmount EXCEPT ![c][k].proc = "closed"]
  <2>1. OnceStuck
    BY <1>2 DEF OnceStuck
  <2>2. /\ OnlyMount(c, k) /\ fmount'[c][k].proc = "closed" /\ fmount'[c][k].pc = fmount[c][k].pc
        /\ fmount'[c][k].active = FALSE \/ fmount'[c][k].active = fmount[c][k].active
    <3> DEFINE m == [fmount[c][k] EXCEPT !.proc = "closed"]
               n == [fmount[c][k] EXCEPT !.proc = "closed", !.active = FALSE, !.serve = IF @ = "run" THEN "end" ELSE @]
    <3>1. fmount' = [fmount EXCEPT ![c][k] = m] \/ fmount' = [fmount EXCEPT ![c][k] = n]
      BY <1>0, <1>2
    <3>2. m \in MountSet /\ m.proc = "closed" /\ m.pc = fmount[c][k].pc /\ m.active = fmount[c][k].active
      BY <1>3, TornDown, Zenon
    <3>3. n \in MountSet /\ n.proc = "closed" /\ n.pc = fmount[c][k].pc /\ n.active = FALSE
      BY <1>3, TornDown, Zenon
    <3> HIDE DEF m, n
    <3> QED BY <1>0, <3>1, <3>2, <3>3, MountIsSet
  <2>3. kernel' \in [MountKinds -> Seq(MountCmds)] /\ \A l \in MountKinds : l # k => kernel'[l] = kernel[l]
    BY <1>0, <1>2
  <2>4. KernelInv'
    BY <1>2, <2>1, <2>2, <2>3, CountFalls
  <2> QED BY <1>2, <2>1, <2>2, <2>3, <2>4
<1> QED BY <1>1, <1>2 DEF UnmountTeardown

\* What a step does to the rest of the invariant, when the mount of c for k is the
\* only one that changes.
LEMMA MountChanges ==
  ASSUME FuseInv, NEW c \in MountCmds, NEW k \in MountKinds, OnlyMount(c, k),
         kernel' \in [MountKinds -> Seq(MountCmds)], OnceStuck, KernelInv', OneMountInv(c, k)',
         UNCHANGED <<mcmd, nodeMounts, fnode>>,
         fnode = "closed" => fmount'[c][k].proc # "open"
  PROVE  FuseInv'
<1> USE DEF FuseInv
<1>1. MountTypes'
  BY DEF MountTypes, OnlyMount, OnceStuck
<1>2. MountInv'
  <2>1. ASSUME NEW d \in MountCmds, NEW l \in MountKinds, d # c \/ l # k
        PROVE  OneMountInv(d, l)'
    <3>1. OneMountInv(d, l) /\ fmount'[d][l] = fmount[d][l]
      BY <2>1 DEF MountInv, OnlyMount
    <3> QED BY <3>1 DEF OneMountInv, OnceStuck, MountTypes
  <2> QED BY <2>1 DEF MountInv
<1>3. NodeInv'
  <2>1. Mounting(c)' <=> Mounting(c)
    BY DEF Mounting
  <2>2. \A d \in MountCmds : Mounting(d)' <=> Mounting(d)
    BY DEF Mounting
  <2> QED BY <2>2 DEF NodeInv, OnlyMount
<1> QED BY <1>1, <1>2, <1>3

\* The goroutine of one mount, up to where it is ready or has failed.
LEMMA MountGoroutineSteps ==
  ASSUME FuseInv, NEW c \in MountCmds, NEW k \in MountKinds,
         NewMount(c, k) \/ MountWait(c, k) \/ MountReady(c, k)
  PROVE  FuseInv'
<1> USE DEF FuseInv
<1> DEFINE o == fmount[c][k]
<1>0. /\ fmount \in [MountCmds -> [MountKinds -> MountSet]] /\ o \in MountSet
      /\ kernel \in [MountKinds -> Seq(MountCmds)] /\ mcmd[c] \in MountCmdSet /\ OneMountInv(c, k)
  BY DEF MountTypes, MountInv
<1>1. /\ UNCHANGED <<mcmd, nodeMounts, fnode, stuck>> /\ OnceStuck
      /\ o.pc \in {"none", "wait", "ready"} /\ mcmd[c].pc = "mount" /\ fnode = "open"
  <2>1. UNCHANGED <<mcmd, nodeMounts, fnode, stuck>> /\ OnceStuck
    BY DEF NewMount, MountWait, MountReady, MountTypes, OnceStuck
  <2>2. o.pc \in {"none", "wait", "ready"} /\ (o.pc = "none" => mcmd[c].pc = "mount")
    BY DEF NewMount, MountWait, MountReady, MountAt
  <2>3. mcmd[c].pc = "mount"
    BY <1>0, <2>2 DEF OneMountInv, MountCmdSet
  <2> QED BY <2>1, <2>2, <2>3, <1>0 DEF NodeInv, Mounting
<1>2. ASSUME NEW m \in MountSet, fmount' = [fmount EXCEPT ![c][k] = m], UNCHANGED kernel, m.proc = o.proc,
             m.pc \in {"ready", "err", "ok"}, m.active = TRUE => m.pc = "ok",
             o.pc \in {"wait", "ready"} \/ m.pc = "err"
      PROVE  FuseInv'
  <2>1. OnlyMount(c, k) /\ fmount'[c][k] = m
    BY <1>0, <1>2, MountIsSet
  <2>2. \A d \in MountCmds, l \in MountKinds : fmount'[d][l].proc = "open" <=> fmount[d][l].proc = "open"
    BY <2>1, <1>2 DEF OnlyMount
  <2>3. KernelInv'
    BY <2>2, <1>0, <1>1, <1>2, CountStays
  <2>4. OneMountInv(c, k)'
    BY <2>1, <1>0, <1>1, <1>2 DEF OneMountInv
  <2>5. kernel' \in [MountKinds -> Seq(MountCmds)]
    BY <1>0, <1>2
  <2> QED BY <2>1, <2>3, <2>4, <2>5, <1>1, MountChanges
<1>3. ASSUME NEW v \in {"ready", "err", "ok"}, NEW b \in BOOLEAN, b = TRUE => v = "ok"
      PROVE  /\ LET m == [o EXCEPT !.pc = v] IN
                m \in MountSet /\ m.proc = o.proc /\ m.pc = v /\ m.active = o.active
             /\ LET m == [o EXCEPT !.pc = v, !.active = b] IN
                m \in MountSet /\ m.proc = o.proc /\ m.pc = v /\ m.active = b
  <2> HIDE DEF o
  <2> QED BY <1>0 DEF MountSet
<1>4. o.active # TRUE
  BY <1>0, <1>1 DEF OneMountInv
<1>5. ASSUME NEW v \in {"ready", "err"}, fmount' = [fmount EXCEPT ![c][k].pc = v], UNCHANGED kernel,
             o.pc = "wait" \/ v = "err"
      PROVE  FuseInv'
  <2> DEFINE m == [o EXCEPT !.pc = v]
  <2>1. fmount' = [fmount EXCEPT ![c][k] = m]
    BY <1>0, <1>5
  <2>2. m \in MountSet /\ m.proc = o.proc /\ m.pc = v /\ m.active = o.active
    BY <1>3, Zenon
  <2> HIDE DEF m
  <2> QED BY <2>1, <2>2, <1>2, <1>4, <1>5
<1>6. CASE MountReady(c, k)
  <2> DEFINE m == [o EXCEPT !.pc = "ok", !.active = TRUE]
  <2>1. fmount' = [fmount EXCEPT ![c][k] = m] /\ UNCHANGED kernel /\ o.pc = "ready"
    BY <1>0, <1>6 DEF MountReady
  <2>2. m \in MountSet /\ m.proc = o.proc /\ m.pc = "ok"
    BY <1>3, Zenon
  <2> HIDE DEF m
  <2> QED BY <2>1, <2>2, <1>2
<1>7. CASE MountWait(c, k)
  BY <1>7, <1>5 DEF MountWait
<1>8. CASE NewMount(c, k)
  <2>1. CASE fmount' = [fmount EXCEPT ![c][k].pc = "err"] /\ UNCHANGED kernel
    BY <2>1, <1>5
  <2> DEFINE m == [pc |-> "wait", serve |-> "run", active |-> FALSE, proc |-> "open"]
  <2>2. CASE kernel' = [kernel EXCEPT ![k] = Append(@, c)] /\ fmount' = [fmount EXCEPT ![c][k] = m]
    <3>1. m \in MountSet /\ m.pc = "wait" /\ m.active = FALSE /\ m.proc = "open"
      BY DEF MountSet
    <3> HIDE DEF m
    <3>2. OnlyMount(c, k) /\ fmount'[c][k] = m
      BY <1>0, <2>2, <3>1, MountIsSet
    <3>3. o.pc = "none" /\ o.proc # "open"
      BY <1>0, <1>8 DEF NewMount, OneMountInv
    <3>4. KernelInv'
      BY <1>1, <2>2, <3>1, <3>2, <3>3, CountRises
    <3>5. OneMountInv(c, k)'
      BY <3>1, <3>2, <1>1 DEF OneMountInv
    <3>6. kernel' \in [MountKinds -> Seq(MountCmds)]
      BY <1>0, <2>2
    <3> QED BY <3>2, <3>4, <3>5, <3>6, <1>1, MountChanges
  <2> QED BY <2>1, <2>2, <1>8 DEF NewMount
<1> QED BY <1>6, <1>7, <1>8

\* The goroutine that serves a mount.
LEMMA MountServeSteps ==
  ASSUME FuseInv, NEW c \in MountCmds, NEW k \in MountKinds,
         ServeReturns(c, k) \/ ServeInactive(c, k)
  PROVE  FuseInv'
<1> USE DEF FuseInv
<1> DEFINE o == fmount[c][k]
<1>0. /\ fmount \in [MountCmds -> [MountKinds -> MountSet]] /\ o \in MountSet
      /\ kernel \in [MountKinds -> Seq(MountCmds)] /\ OneMountInv(c, k)
  BY DEF MountTypes, MountInv
<1>1. UNCHANGED <<kernel, mcmd, nodeMounts, fnode, stuck>> /\ OnceStuck
  BY DEF ServeReturns, ServeInactive, MountTypes, OnceStuck
<1>2. \E m \in MountSet :
        /\ fmount' = [fmount EXCEPT ![c][k] = m]
        /\ m.proc = o.proc /\ m.pc = o.pc /\ (m.active = o.active \/ m.active = FALSE)
  <2>1. ASSUME NEW v \in {"end", "err"}
        PROVE  LET m == [o EXCEPT !.serve = v] IN
               m \in MountSet /\ m.proc = o.proc /\ m.pc = o.pc /\ m.active = o.active
    <3> HIDE DEF o
    <3> QED BY <1>0 DEF MountSet
  <2>2. LET m == [o EXCEPT !.active = FALSE, !.serve = IF @ = "end" THEN "done" ELSE "failed"] IN
        m \in MountSet /\ m.proc = o.proc /\ m.pc = o.pc /\ m.active = FALSE
    <3> HIDE DEF o
    <3> QED BY <1>0 DEF MountSet
  <2>3. ASSUME NEW v \in {"end", "err"}, fmount' = [fmount EXCEPT ![c][k].serve = v]
        PROVE  fmount' = [fmount EXCEPT ![c][k] = [o EXCEPT !.serve = v]]
    BY <1>0, <2>3
  <2>4. CASE ServeReturns(c, k)
    <3>1. \E v \in {"end", "err"} : fmount' = [fmount EXCEPT ![c][k].serve = v]
      BY <2>4 DEF ServeReturns
    <3> QED BY <3>1, <2>1, <2>3, Zenon
  <2>5. CASE ServeInactive(c, k)
    <3>1. fmount' = [fmount EXCEPT ![c][k] =
                       [o EXCEPT !.active = FALSE, !.serve = IF @ = "end" THEN "done" ELSE "failed"]]
      BY <1>0, <2>5 DEF ServeInactive
    <3> QED BY <3>1, <2>2, Zenon
  <2> QED BY <2>4, <2>5
<1>3. PICK m \in MountSet :
        /\ fmount' = [fmount EXCEPT ![c][k] = m]
        /\ m.proc = o.proc /\ m.pc = o.pc /\ (m.active = o.active \/ m.active = FALSE)
  BY <1>2
<1>4. OnlyMount(c, k) /\ fmount'[c][k] = m
  BY <1>0, <1>3, MountIsSet
<1>5. \A d \in MountCmds, l \in MountKinds : fmount'[d][l].proc = "open" <=> fmount[d][l].proc = "open"
  BY <1>3, <1>4 DEF OnlyMount
<1>6. KernelInv'
  BY <1>0, <1>1, <1>5, CountStays
<1>7. OneMountInv(c, k)'
  BY <1>0, <1>1, <1>3, <1>4 DEF OneMountInv
<1>8. fnode = "closed" => fmount'[c][k].proc # "open"
  BY <1>3, <1>4 DEF NodeInv
<1> QED BY <1>0, <1>1, <1>4, <1>6, <1>7, <1>8, MountChanges

\* A command goes on.
LEMMA CommandGoes ==
  ASSUME FuseInv, NEW c \in MountCmds, NEW to, NEW set \in SUBSET MountKinds,
         to \in {"old", "mount", "undo", "assign", "ok", "error"},
         MountGoes(c, to, set)
  PROVE  /\ mcmd' \in [MountCmds -> MountCmdSet] /\ mcmd'[c].pc = to /\ mcmd'[c].todo = set
         /\ \A d \in MountCmds : d # c => mcmd'[d] = mcmd[d]
<1> DEFINE r == [pc |-> to, todo |-> set]
<1>1. r \in MountCmdSet /\ r.pc = to /\ r.todo = set
  BY DEF MountCmdSet
<1>2. mcmd' = [mcmd EXCEPT ![c] = r]
  BY DEF MountGoes
<1> HIDE DEF r
<1> QED BY <1>1, <1>2 DEF FuseInv, MountTypes

\* A step of a command that leaves the mounts alone.
LEMMA MountCmdQuietSteps ==
  ASSUME FuseInv, NEW c \in MountCmds,
         \/ MountStart(c) \/ MountJoin(c) \/ MountAssign(c)
         \/ (MountOld(c) \/ MountUndo(c)) /\ mcmd[c].todo = {}
  PROVE  FuseInv'
<1> USE DEF FuseInv
<1>0. mcmd[c] \in MountCmdSet /\ \A k \in MountKinds : OneMountInv(c, k) /\ fmount[c][k] \in MountSet
  BY DEF MountTypes, MountInv
<1>1. UNCHANGED <<kernel, fmount, fnode, stuck>>
  BY DEF MountStart, MountJoin, MountAssign, MountOld, MountUndo
<1>2. KernelInv'
  BY <1>1 DEF KernelInv, OpenMounts
<1>3. fnode = "open"
  <2>1. MountStart(c) \/ mcmd[c].pc \in {"mount", "assign", "old", "undo"}
    BY DEF MountJoin, MountAssign, MountOld, MountUndo, MountAt
  <2> QED BY <2>1 DEF MountStart, NodeInv, Mounting
<1>4. NodeInv'
  BY <1>1, <1>3 DEF NodeInv
<1>5. ASSUME NEW to \in {"old", "mount", "undo", "assign", "ok", "error"}, NEW set \in SUBSET MountKinds,
             MountGoes(c, to, set), nodeMounts' \in [MountKinds -> MountCmds \union {NoCmd}],
             \A l \in MountKinds :
               nodeMounts'[l] = nodeMounts[l] \/ (nodeMounts'[l] = c /\ to \in {"assign", "ok"} /\ c # NoCmd),
             mcmd[c].pc \in {"assign", "ok"} => to \in {"assign", "ok"},
             \A k \in MountKinds :
               /\ to = "mount" => fmount[c][k].pc = "none"
               /\ to = "old" => fmount[c][k].pc = "none" /\ (k \in set => nodeMounts[k] # NoCmd)
               /\ to \in {"undo", "assign", "ok", "error"} => fmount[c][k].pc \in {"ok", "err"}
               /\ to = "undo" /\ k \in set => fmount[c][k].proc = "open"
               /\ to = "undo" /\ k \notin set => fmount[c][k].active = FALSE
               /\ to = "error" /\ stuck = FALSE => fmount[c][k].active = FALSE
      PROVE  FuseInv'
  <2>1. /\ mcmd' \in [MountCmds -> MountCmdSet] /\ mcmd'[c].pc = to /\ mcmd'[c].todo = set
        /\ \A d \in MountCmds : d # c => mcmd'[d] = mcmd[d]
    BY <1>5, CommandGoes
  <2>2. MountTypes'
    BY <1>1, <1>5, <2>1 DEF MountTypes
  <2>3. ASSUME NEW d \in MountCmds, NEW l \in MountKinds
        PROVE  OneMountInv(d, l)'
    <3>1. OneMountInv(d, l) /\ (nodeMounts[l] # NoCmd => nodeMounts'[l] # NoCmd)
      BY <1>5 DEF MountInv
    <3>2. CASE d # c
      BY <3>1, <3>2, <2>1, <1>1 DEF OneMountInv
    <3>3. CASE d = c
      BY <3>1, <3>3, <2>1, <1>1, <1>5 DEF OneMountInv
    <3> QED BY <3>2, <3>3
  <2>4. ASSUME NEW l \in MountKinds, nodeMounts'[l] # NoCmd
        PROVE  mcmd'[nodeMounts'[l]].pc \in {"assign", "ok"}
    <3>1. CASE nodeMounts'[l] = c /\ to \in {"assign", "ok"}
      BY <2>1, <3>1
    <3>2. CASE nodeMounts'[l] = nodeMounts[l]
      <4> DEFINE d == nodeMounts[l]
      <4>1. d \in MountCmds /\ mcmd[d].pc \in {"assign", "ok"}
        BY <2>4, <3>2 DEF MountInv, MountTypes
      <4> HIDE DEF d
      <4>2. mcmd'[d].pc \in {"assign", "ok"}
        BY <4>1, <2>1, <1>5
      <4> QED BY <3>2, <4>2 DEF d
    <3> QED BY <3>1, <3>2, <1>5
  <2> QED BY <2>2, <2>3, <2>4, <1>2, <1>4 DEF MountInv
<1>6. CASE MountStart(c)
  <2>1. /\ mcmd[c].pc = "idle" /\ MountGoes(c, "old", {k \in MountKinds : nodeMounts[k] # NoCmd})
        /\ UNCHANGED nodeMounts
    BY <1>6 DEF MountStart, MountAt
  <2>2. \A k \in MountKinds : fmount[c][k].pc = "none"
    BY <1>0, <2>1 DEF OneMountInv
  <2> QED BY <2>1, <2>2, <1>5 DEF MountTypes
<1>7. CASE MountJoin(c)
  <2> DEFINE failed == \E k \in MountKinds : fmount[c][k].pc = "err"
             oks == {k \in MountKinds : fmount[c][k].pc = "ok"}
  <2>1. /\ mcmd[c].pc = "mount" /\ \A k \in MountKinds : fmount[c][k].pc \in {"ok", "err"}
        /\ UNCHANGED nodeMounts
        /\ MountGoes(c, IF failed THEN "undo" ELSE "assign", IF failed THEN oks ELSE MountKinds)
    BY <1>7 DEF MountJoin, MountAt
  <2>2. \A k \in MountKinds : /\ k \in oks => fmount[c][k].proc = "open"
                              /\ k \notin oks => fmount[c][k].active = FALSE
    BY <1>0, <2>1 DEF OneMountInv, MountSet
  <2>3. oks \in SUBSET MountKinds /\ nodeMounts' \in [MountKinds -> MountCmds \union {NoCmd}]
    BY <2>1 DEF MountTypes
  <2>4. CASE failed
    <3>1. MountGoes(c, "undo", oks)
      BY <2>1, <2>4
    <3> HIDE DEF oks, failed
    <3> QED BY <2>1, <2>2, <2>3, <3>1, <1>5
  <2>5. CASE ~failed
    <3>1. MountGoes(c, "assign", MountKinds)
      BY <2>1, <2>5
    <3> HIDE DEF oks, failed
    <3> QED BY <2>1, <3>1, <1>5 DEF MountTypes
  <2> QED BY <2>4, <2>5
<1>8. CASE MountAssign(c)
  <2>0. c # NoCmd
    BY MountConstants DEF NoCmd
  <2>1. mcmd[c].pc = "assign" /\ \A k \in MountKinds : fmount[c][k].pc \in {"ok", "err"}
    BY <1>0, <1>8 DEF MountAssign, MountAt, OneMountInv
  <2>2. ASSUME NEW k \in mcmd[c].todo, nodeMounts' = [nodeMounts EXCEPT ![k] = c],
               MountGoes(c, "assign", mcmd[c].todo \ {k})
        PROVE  FuseInv'
    <3>1. mcmd[c].todo \ {k} \in SUBSET MountKinds /\ k \in MountKinds
      BY <1>0 DEF MountCmdSet
    <3>2. /\ nodeMounts' \in [MountKinds -> MountCmds \union {NoCmd}]
          /\ \A l \in MountKinds : nodeMounts'[l] = nodeMounts[l] \/ nodeMounts'[l] = c
      BY <2>2 DEF MountTypes
    <3> QED BY <2>0, <2>1, <2>2, <3>1, <3>2, <1>5
  <2>3. CASE MountGoes(c, "ok", {}) /\ UNCHANGED nodeMounts
    BY <2>1, <2>3, <1>5 DEF MountTypes
  <2> QED BY <2>2, <2>3, <1>8 DEF MountAssign
<1>9. CASE (MountOld(c) \/ MountUndo(c)) /\ mcmd[c].todo = {}
  <2>1. CASE MountOld(c)
    <3>1. mcmd[c].pc = "old" /\ MountGoes(c, "mount", {}) /\ UNCHANGED nodeMounts
      BY <1>9, <2>1 DEF MountOld, MountAt
    <3>2. \A k \in MountKinds : fmount[c][k].pc = "none"
      BY <1>0, <3>1 DEF OneMountInv
    <3> QED BY <3>1, <3>2, <1>5 DEF MountTypes
  <2>2. CASE MountUndo(c)
    <3>1. mcmd[c].pc = "undo" /\ MountGoes(c, "error", {}) /\ UNCHANGED nodeMounts
      BY <1>9, <2>2 DEF MountUndo, MountAt
    <3>2. \A k \in MountKinds : /\ fmount[c][k].pc \in {"ok", "err"}
                                /\ stuck = FALSE => fmount[c][k].active = FALSE
      BY <1>0, <1>9, <3>1 DEF OneMountInv
    <3> QED BY <3>1, <3>2, <1>5 DEF MountTypes
  <2> QED BY <1>9, <2>1, <2>2
<1> QED BY <1>6, <1>7, <1>8, <1>9

\* A command unmounts one mount: an old one, or one of its own that it undoes.
LEMMA MountCmdUnmounts ==
  ASSUME FuseInv, NEW c \in MountCmds, NEW k \in MountKinds, k \in mcmd[c].todo, UNCHANGED <<nodeMounts, fnode>>,
         \/ mcmd[c].pc = "old" /\ Unmount(nodeMounts[k], k) /\ MountGoes(c, "old", mcmd[c].todo \ {k})
         \/ mcmd[c].pc = "undo" /\ Unmount(c, k) /\ MountGoes(c, "undo", mcmd[c].todo \ {k})
  PROVE  FuseInv'
<1> USE DEF FuseInv
<1>0. /\ kernel \in [MountKinds -> Seq(MountCmds)] /\ mcmd[c] \in MountCmdSet
      /\ fmount \in [MountCmds -> [MountKinds -> MountSet]] /\ stuck \in BOOLEAN
  BY DEF MountTypes
<1>1. PICK d \in MountCmds :
        /\ Unmount(d, k)
        /\ \/ d = c /\ mcmd[c].pc = "undo"
           \/ d # c /\ mcmd[c].pc = "old" /\ mcmd[d].pc \in {"assign", "ok"}
  <2>1. CASE mcmd[c].pc = "old"
    <3> DEFINE d == nodeMounts[k]
    <3>1. d # NoCmd
      BY <2>1 DEF MountInv, OneMountInv
    <3>2. d \in MountCmds /\ mcmd[d].pc \in {"assign", "ok"}
      BY <3>1 DEF MountInv, MountTypes
    <3> QED BY <2>1, <3>2
  <2>2. CASE mcmd[c].pc = "undo"
    BY <2>2
  <2> QED BY <2>1, <2>2
<1>2. PICK to \in {"old", "undo"} : mcmd[c].pc = to /\ MountGoes(c, to, mcmd[c].todo \ {k})
  OBVIOUS
<1>3. mcmd[c].todo \ {k} \in SUBSET MountKinds
  BY <1>0 DEF MountCmdSet
<1>4. /\ mcmd' \in [MountCmds -> MountCmdSet] /\ mcmd'[c].pc = to /\ mcmd'[c].todo = mcmd[c].todo \ {k}
      /\ \A e \in MountCmds : e # c => mcmd'[e] = mcmd[e]
  BY <1>2, <1>3, CommandGoes
<1>5. /\ OnlyMount(d, k) /\ fmount'[d][k].pc = fmount[d][k].pc
      /\ \/ fmount'[d][k] = fmount[d][k] /\ (fmount[d][k].active = FALSE \/ fmount[d][k].proc # "open")
         \/ fmount'[d][k].active = FALSE
         \/ fmount'[d][k].active = fmount[d][k].active /\ stuck' = TRUE
      /\ fmount'[d][k].proc = "none" => fmount[d][k].proc = "none"
      /\ fmount[d][k].proc = "none" => fmount'[d][k].proc = "none"
      /\ kernel' \in [MountKinds -> Seq(MountCmds)] /\ OnceStuck /\ KernelInv'
  <2>1. CASE fmount[d][k].active /\ fmount[d][k].proc = "open"
    <3>1. UnmountTeardown(d, k)
      BY <1>1, <2>1 DEF Unmount
    <3> QED BY <2>1, <3>1, TeardownEffect
  <2>2. CASE ~(fmount[d][k].active /\ fmount[d][k].proc = "open")
    <3>1. UNCHANGED <<kernel, fmount, stuck>>
      BY <1>1, <2>2 DEF Unmount
    <3>2. fmount[d][k].active = FALSE \/ fmount[d][k].proc # "open"
      <4>1. fmount[d][k].active \in BOOLEAN
        BY <1>0 DEF MountSet
      <4> QED BY <2>2, <4>1
    <3>3. KernelInv'
      BY <3>1 DEF KernelInv, OpenMounts
    <3> QED BY <1>0, <3>1, <3>2, <3>3 DEF OnlyMount, OnceStuck
  <2> QED BY <2>1, <2>2
<1>6. MountTypes'
  BY <1>4, <1>5 DEF MountTypes, OnlyMount, OnceStuck
<1>7. ASSUME NEW e \in MountCmds, NEW l \in MountKinds
      PROVE  OneMountInv(e, l)'
  <2>1. OneMountInv(e, l)
    BY DEF MountInv
  <2>2. CASE l # k
    <3>1. fmount'[e][l] = fmount[e][l]
      BY <1>5, <2>2 DEF OnlyMount
    <3>2. mcmd'[e].pc = mcmd[e].pc /\ (l \in mcmd'[e].todo <=> l \in mcmd[e].todo)
      BY <1>2, <1>4, <2>2
    <3>3. stuck' = FALSE => stuck = FALSE
      BY <1>0, <1>5 DEF OnceStuck
    <3> QED BY <2>1, <3>1, <3>2, <3>3 DEF OneMountInv
  <2>3. CASE l = k /\ e # d
    <3>1. fmount'[e][k] = fmount[e][k]
      BY <1>5, <2>3 DEF OnlyMount
    <3>2. mcmd'[e].pc = mcmd[e].pc /\ (k \in mcmd'[e].todo => k \in mcmd[e].todo)
      BY <1>2, <1>4
    <3>3. stuck' = FALSE => stuck = FALSE
      BY <1>0, <1>5 DEF OnceStuck
    <3>4. mcmd[e].pc = "undo" => mcmd'[e] = mcmd[e]
      BY <1>1, <1>4, <2>3
    <3> QED BY <2>1, <2>3, <3>1, <3>2, <3>3, <3>4 DEF OneMountInv
  <2>4. CASE l = k /\ e = d
    <3>1. /\ mcmd[d].pc \in {"undo", "assign", "ok"} /\ mcmd'[d].pc = mcmd[d].pc
          /\ mcmd'[d].pc = "undo" => d = c /\ k \notin mcmd'[d].todo /\ fmount[d][k].proc = "open"
      BY <1>1, <1>2, <1>4, <2>1, <2>4 DEF OneMountInv
    <3>2. fmount'[d][k].active = FALSE \/ stuck' = TRUE \/ mcmd'[d].pc # "undo"
      BY <1>5, <3>1
    <3> QED BY <2>1, <2>4, <1>5, <3>1, <3>2 DEF OneMountInv
  <2> QED BY <2>2, <2>3, <2>4
<1>8. ASSUME NEW l \in MountKinds, nodeMounts'[l] # NoCmd
      PROVE  mcmd'[nodeMounts'[l]].pc \in {"assign", "ok"}
  <2> DEFINE e == nodeMounts[l]
  <2>1. e \in MountCmds /\ mcmd[e].pc \in {"assign", "ok"} /\ nodeMounts'[l] = e
    BY <1>8 DEF MountInv, MountTypes
  <2> HIDE DEF e
  <2> QED BY <2>1, <1>2, <1>4
<1>9. NodeInv'
  <2>1. fnode = "open"
    BY <1>2 DEF NodeInv, Mounting
  <2> QED BY <2>1 DEF NodeInv
<1> QED BY <1>5, <1>6, <1>7, <1>8, <1>9 DEF MountInv

\* Somebody unmounts by hand; the node closes.
LEMMA MountNodeSteps ==
  ASSUME FuseInv, (\E k \in MountKinds : UserUnmounts(k)) \/ FuseNodeClose \/ NodeTeardown
  PROVE  FuseInv'
<1> USE DEF FuseInv
<1>0. /\ kernel \in [MountKinds -> Seq(MountCmds)] /\ stuck \in BOOLEAN
      /\ fmount \in [MountCmds -> [MountKinds -> MountSet]]
  BY DEF MountTypes
<1>1. ASSUME NEW k \in MountKinds, UserUnmounts(k)
      PROVE  FuseInv'
  <2>1. UNCHANGED <<fmount, mcmd, nodeMounts, fnode, stuck>> /\ OnceStuck
    BY <1>0, <1>1 DEF UserUnmounts, OnceStuck
  <2>2. /\ kernel' \in [MountKinds -> Seq(MountCmds)]
        /\ \A l \in MountKinds : Len(kernel'[l]) <= Len(kernel[l]) /\ Len(kernel'[l]) \in Nat
    <3> DEFINE q == kernel[k]
               p == SubSeq(q, 1, Len(q) - 1)
    <3>1. q \in Seq(MountCmds) /\ q # << >>
      BY <1>0, <1>1 DEF UserUnmounts
    <3>2. p \in Seq(MountCmds) /\ Len(p) = Len(q) - 1 /\ Len(q) \in Nat
      BY <3>1
    <3>3. kernel' = [kernel EXCEPT ![k] = p]
      BY <1>1 DEF UserUnmounts, ForceUnmount
    <3> HIDE DEF p
    <3>4. ASSUME NEW l \in MountKinds
          PROVE  Len(kernel'[l]) <= Len(kernel[l]) /\ Len(kernel'[l]) \in Nat
      BY <1>0, <3>2, <3>3
    <3>5. kernel' \in [MountKinds -> Seq(MountCmds)]
      BY <1>0, <3>2, <3>3
    <3> QED BY <3>4, <3>5
  <2>3. KernelInv'
    BY <2>1, <2>2, CountStays
  <2>4. MountTypes'
    BY <2>1, <2>2 DEF MountTypes
  <2>5. MountInv' /\ NodeInv'
    BY <2>1 DEF MountInv, OneMountInv, NodeInv, Mounting
  <2> QED BY <2>3, <2>4, <2>5
<1>2. CASE FuseNodeClose
  <2>1. /\ UNCHANGED <<kernel, fmount, mcmd, nodeMounts, stuck>>
        /\ fnode' = "closing" /\ \A c \in MountCmds : ~Mounting(c)
    BY <1>2 DEF FuseNodeClose
  <2>2. NodeInv'
    BY <2>1 DEF NodeInv, Mounting
  <2>3. KernelInv' /\ MountTypes' /\ MountInv'
    BY <2>1 DEF KernelInv, OpenMounts, MountTypes, MountInv, OneMountInv
  <2> QED BY <2>2, <2>3
<1>3. CASE NodeTeardown
  <2>1. ASSUME NEW c \in MountCmds, NEW k \in MountKinds,
               fmount[c][k].proc = "open", UnmountTeardown(c, k), UNCHANGED fnode
        PROVE  FuseInv'
    <3>1. /\ OnlyMount(c, k) /\ fmount'[c][k].proc = "closed" /\ fmount'[c][k].pc = fmount[c][k].pc
          /\ fmount'[c][k].active = FALSE \/ (fmount'[c][k].active = fmount[c][k].active /\ stuck' = TRUE)
          /\ kernel' \in [MountKinds -> Seq(MountCmds)]
          /\ OnceStuck /\ KernelInv'
      BY <2>1, TeardownEffect
    <3>2. UNCHANGED <<mcmd, nodeMounts>> /\ fnode = "closing"
      BY <1>3 DEF NodeTeardown
    <3>3. mcmd[c].pc \in {"ok", "error"} /\ OneMountInv(c, k)
      <4>1. OneMountInv(c, k) /\ mcmd[c].pc \in {"idle", "ok", "error"}
        BY <3>2 DEF MountInv, NodeInv, Mounting
      <4> QED BY <2>1, <4>1 DEF OneMountInv
    <3>4. OneMountInv(c, k)'
      BY <3>1, <3>2, <3>3 DEF OneMountInv
    <3> QED BY <3>1, <3>2, <3>4, <2>1, MountChanges
  <2>2. CASE /\ \A c \in MountCmds, k \in MountKinds : fmount[c][k].proc # "open"
             /\ fnode' = "closed" /\ UNCHANGED <<kernel, fmount, stuck, ffaults>>
    <3>1. UNCHANGED <<kernel, fmount, mcmd, nodeMounts, stuck>> /\ fnode = "closing"
      BY <1>3, <2>2 DEF NodeTeardown
    <3>2. NodeInv'
      BY <3>1, <2>2 DEF NodeInv, Mounting
    <3>3. KernelInv' /\ MountTypes' /\ MountInv'
      BY <3>1 DEF KernelInv, OpenMounts, MountTypes, MountInv, OneMountInv
    <3> QED BY <3>2, <3>3
  <2> QED BY <2>1, <2>2, <1>3 DEF NodeTeardown
<1> QED BY <1>1, <1>2, <1>3

LEMMA MountInits == FuseInit => FuseInv
<1> SUFFICES ASSUME FuseInit PROVE FuseInv
  OBVIOUS
<1>1. NoMount \in MountSet /\ NoMount.pc = "none" /\ NoMount.proc = "none" /\ NoMount.active = FALSE
  BY DEF NoMount, MountSet
<1>2. \A c \in MountCmds, k \in MountKinds : fmount[c][k] = NoMount
  BY DEF FuseInit
<1>3. \A c \in MountCmds : mcmd[c] \in MountCmdSet /\ mcmd[c].pc = "idle" /\ mcmd[c].todo = {}
  <2> DEFINE r == [pc |-> "idle", todo |-> {}]
  <2>1. r \in MountCmdSet /\ r.pc = "idle" /\ r.todo = {}
    BY DEF MountCmdSet
  <2>2. mcmd = [c \in MountCmds |-> r]
    BY DEF FuseInit
  <2> HIDE DEF r
  <2> QED BY <2>1, <2>2
<1>4. MountTypes
  <2>1. fmount \in [MountCmds -> [MountKinds -> MountSet]]
    BY <1>1 DEF FuseInit
  <2>2. mcmd \in [MountCmds -> MountCmdSet]
    BY <1>3 DEF FuseInit
  <2>3. kernel \in [MountKinds -> Seq(MountCmds)]
    <3>1. << >> \in Seq(MountCmds)
      OBVIOUS
    <3> QED BY <3>1 DEF FuseInit
  <2>4. nodeMounts \in [MountKinds -> MountCmds \union {NoCmd}] /\ stuck \in BOOLEAN
    BY DEF FuseInit
  <2> QED BY <2>1, <2>2, <2>3, <2>4 DEF MountTypes
<1>5. KernelInv
  <2> SUFFICES ASSUME NEW k \in MountKinds
               PROVE  IsFiniteSet(OpenMounts(k)) /\ Len(kernel[k]) <= Cardinality(OpenMounts(k))
    BY DEF KernelInv
  <2>1. OpenMounts(k) = {}
    BY <1>1, <1>2 DEF OpenMounts
  <2>2. kernel[k] = << >>
    BY DEF FuseInit
  <2> QED BY <2>1, <2>2, FS_EmptySet
<1>6. MountInv
  BY <1>1, <1>2, <1>3 DEF MountInv, OneMountInv, FuseInit
<1>7. NodeInv
  BY DEF NodeInv, FuseInit
<1> QED BY <1>4, <1>5, <1>6, <1>7 DEF FuseInv

LEMMA MountSteps ==
  ASSUME FuseInv, [FuseNext]_fuVars
  PROVE  FuseInv'
<1>1. ASSUME NEW c \in MountCmds, MountStart(c) \/ MountJoin(c) \/ MountAssign(c)
      PROVE  FuseInv'
  BY <1>1, MountCmdQuietSteps
<1>2. ASSUME NEW c \in MountCmds, MountOld(c) \/ MountUndo(c)
      PROVE  FuseInv'
  <2>0. mcmd[c].todo \subseteq MountKinds
    BY DEF FuseInv, MountTypes, MountCmdSet
  <2>1. CASE mcmd[c].todo = {}
    BY <1>2, <2>1, MountCmdQuietSteps
  <2>2. CASE mcmd[c].todo # {}
    <3>1. PICK k \in mcmd[c].todo :
            /\ UNCHANGED <<nodeMounts, fnode>>
            /\ \/ mcmd[c].pc = "old" /\ Unmount(nodeMounts[k], k) /\ MountGoes(c, "old", mcmd[c].todo \ {k})
               \/ mcmd[c].pc = "undo" /\ Unmount(c, k) /\ MountGoes(c, "undo", mcmd[c].todo \ {k})
      BY <1>2, <2>2, Zenon DEF MountOld, MountUndo, MountAt
    <3> QED BY <2>0, <3>1, MountCmdUnmounts
  <2> QED BY <2>1, <2>2
<1>3. ASSUME NEW c \in MountCmds, NEW k \in MountKinds,
             \/ NewMount(c, k) \/ MountWait(c, k) \/ MountReady(c, k)
             \/ ServeReturns(c, k) \/ ServeInactive(c, k)
      PROVE  FuseInv'
  BY <1>3, MountGoroutineSteps, MountServeSteps
<1>4. CASE (\E k \in MountKinds : UserUnmounts(k)) \/ FuseNodeClose \/ NodeTeardown
  BY <1>4, MountNodeSteps
<1>5. CASE UNCHANGED fuVars
  BY <1>5 DEF fuVars, FuseInv, MountTypes, KernelInv, OpenMounts, MountInv, OneMountInv, NodeInv, Mounting
<1> QED BY <1>1, <1>2, <1>3, <1>4, <1>5 DEF FuseNext, MountStep

LEMMA FuseInvImplies == FuseInv => NoMountLeft /\ FailedLeavesNone
<1> SUFFICES ASSUME FuseInv PROVE NoMountLeft /\ FailedLeavesNone
  OBVIOUS
<1>0. stuck \in BOOLEAN
  BY DEF FuseInv, MountTypes
<1>1. ASSUME NEW k \in MountKinds, fnode = "closed", stuck = FALSE
      PROVE  kernel[k] = << >>
  <2>1. OpenMounts(k) = {}
    BY <1>1 DEF FuseInv, NodeInv, OpenMounts
  <2>2. Len(kernel[k]) <= 0
    BY <1>1, <2>1, FS_EmptySet DEF FuseInv, KernelInv
  <2>3. kernel[k] \in Seq(MountCmds)
    BY DEF FuseInv, MountTypes
  <2> QED BY <2>2, <2>3
<1>2. NoMountLeft
  BY <1>0, <1>1 DEF NoMountLeft
<1>3. ASSUME NEW c \in MountCmds, MountAt(c, "error"), stuck = FALSE, NEW k \in MountKinds
      PROVE  fmount[c][k].active = FALSE
  BY <1>3 DEF FuseInv, MountInv, OneMountInv, MountAt
<1>4. FailedLeavesNone
  BY <1>0, <1>3, Zenon DEF FailedLeavesNone
<1> QED BY <1>2, <1>4

\* A closed node leaves nothing mounted and a failed command nothing active, for any
\* number of commands and kinds and whoever else unmounts, unless an attempt to unmount
\* failed.
THEOREM MountsGone == FuseSpec => [](NoMountLeft /\ FailedLeavesNone)
<1> QED BY FuseInvImplies, MountInits, MountSteps, PTL DEF FuseSpec

-----------------------------------------------------------------------------
(***************************************************************************)
(* All of it together.                                                     *)
(*                                                                         *)
(* A behaviour of MCServices is one of a component; the others keep what   *)
(* they had at rest, so the invariants of the components stand beside each *)
(* other.                                                                  *)
(***************************************************************************)
ServicesInv == DaemonInv /\ TempInv /\ FuseInv

\* A step of the whole is a step of each component or leaves it alone.
LEMMA ServicesStep ==
  ASSUME [Next]_vars
  PROVE  [DaemonNext]_dVars /\ [MigNext]_mVars /\ [FuseNext]_fuVars
BY Zenon DEF Next, On, vars

\* Whoever returns, fails or is closed leaves nothing behind: the daemon its repo, its
\* plugins and its downloads, a migration its temporary node, a failed mount command
\* or a closed node its mounts.
THEOREM ServicesLeaveNothing == Spec => []NothingLeftBehind
<1>1. Init => ServicesInv
  <2> SUFFICES ASSUME Init PROVE ServicesInv
    OBVIOUS
  <2>1. DaemonInit /\ MigInit /\ FuseInit
    BY DEF Init
  <2>2. DaemonInv
    BY <2>1 DEF DaemonInit, LoaderInit, DaemonInv, PluginInv, DeferInv, CleanInv, BeforeNode, WithNode
  <2>3. TempInv
    BY <2>1 DEF MigInit, TempInv
  <2>4. FuseInv
    BY <2>1, MountInits
  <2> QED BY <2>2, <2>3, <2>4 DEF ServicesInv
<1>2. ServicesInv /\ [Next]_vars => ServicesInv'
  BY ServicesStep, DaemonSteps, TempSteps, MountSteps DEF ServicesInv
<1>3. ServicesInv => NothingLeftBehind
  BY DaemonInvImplies, TempInvImplies, FuseInvImplies DEF ServicesInv, NothingLeftBehind
<1> QED BY <1>1, <1>2, <1>3, PTL DEF Spec

-----------------------------------------------------------------------------
(***************************************************************************)
(* The virtual file system of the drive.                                   *)
(*                                                                         *)
(* A tree only grows, and what was added to it is found again in every     *)
(* tree that extends it: `find` takes the oldest child, so what a walk met *)
(* or made in a tree is what it meets in a greater one.                    *)
(***************************************************************************)
TreeNode == [dir : Nat, name : STRING, type : {"file", "folder"}]
Tree == Seq(TreeNode)
Extends(v, w) == Len(v) <= Len(w) /\ \A i \in 1 .. Len(v) : w[i] = v[i]

LEMMA ExtendsSelf == \A v \in Tree : Extends(v, v)
BY DEF Tree, Extends

LEMMA ExtendsMore ==
  ASSUME NEW u \in Tree, NEW v \in Tree, NEW w \in Tree, Extends(u, v), Extends(v, w)
  PROVE  Extends(u, w)
<1>1. PICK l \in Nat, m \in Nat, n \in Nat : l = Len(u) /\ m = Len(v) /\ n = Len(w)
  BY DEF Tree
<1>2. l <= m /\ m <= n /\ (\A i \in 1 .. l : v[i] = u[i]) /\ (\A i \in 1 .. m : w[i] = v[i])
  BY <1>1 DEF Extends
<1> QED BY <1>1, <1>2 DEF Extends

LEMMA ExtendsAppend ==
  ASSUME NEW v \in Tree, NEW e \in TreeNode
  PROVE  /\ Append(v, e) \in Tree /\ Extends(v, Append(v, e))
         /\ Len(Append(v, e)) = Len(v) + 1 /\ Append(v, e)[Len(v) + 1] = e
<1> HIDE DEF TreeNode
<1> QED BY DEF Tree, Extends

\* FindChild: the least of the hits.
Hits(v, dir, name, types) == {i \in 1 .. Len(v) : v[i].dir = dir /\ v[i].name = name /\ v[i].type \in types}
IsFound(v, dir, name, types, k) ==
  /\ k = NoNode <=> Hits(v, dir, name, types) = {}
  /\ k # NoNode => k \in Hits(v, dir, name, types) /\ \A j \in Hits(v, dir, name, types) : k <= j

LEMMA FindChildIs ==
  ASSUME NEW v \in Tree, NEW dir, NEW name, NEW types
  PROVE  /\ IsFound(v, dir, name, types, FindChild(v, dir, name, types))
         /\ FindChild(v, dir, name, types) \in 1 .. Len(v) \union {NoNode}
<1> DEFINE H == Hits(v, dir, name, types)
<1>1. H \in SUBSET (1 .. Len(v)) /\ H \in SUBSET Nat /\ NoNode \notin 1 .. Len(v)
  BY DEF Tree, Hits, NoNode
<1>2. FindChild(v, dir, name, types) = IF H = {} THEN NoNode ELSE CHOOSE i \in H : \A j \in H : i <= j
  BY Zenon DEF FindChild, Hits
<1> HIDE DEF H
<1>3. H # {} => \E i \in H : \A j \in H : i <= j
  BY <1>1, LeastNat
<1>4. PICK k : k = FindChild(v, dir, name, types)
  OBVIOUS
<1>5. CASE H = {}
  <2>1. k = NoNode
    BY <1>2, <1>4, <1>5
  <2> QED BY <1>4, <1>5, <2>1 DEF IsFound, H
<1>6. CASE H # {}
  <2>1. k \in H /\ \A j \in H : k <= j
    BY <1>2, <1>3, <1>4, <1>6
  <2>2. k \in 1 .. Len(v) /\ k # NoNode
    BY <1>1, <2>1
  <2> QED BY <1>4, <1>6, <2>1, <2>2 DEF IsFound, H
<1> QED BY <1>5, <1>6

\* Two numbers that are found in one place are one.
LEMMA FoundIs ==
  ASSUME NEW v \in Tree, NEW dir, NEW name, NEW types, NEW k \in Hits(v, dir, name, types),
         \A j \in Hits(v, dir, name, types) : k <= j
  PROVE  FindChild(v, dir, name, types) = k
<1>1. PICK f : f = FindChild(v, dir, name, types) /\ IsFound(v, dir, name, types, f)
  BY FindChildIs
<1>2. f \in Hits(v, dir, name, types) /\ \A j \in Hits(v, dir, name, types) : f <= j
  BY <1>1 DEF IsFound
<1>3. f \in Nat /\ k \in Nat /\ f <= k /\ k <= f
  <2>1. \A j \in Hits(v, dir, name, types) : j \in Nat
    BY DEF Hits
  <2> QED BY <1>2, <2>1
<1> QED BY <1>1, <1>3

\* What is found in a tree is found in one that extends it.
LEMMA FoundAgain ==
  ASSUME NEW v \in Tree, NEW w \in Tree, Extends(v, w), NEW dir, NEW name, NEW types,
         FindChild(v, dir, name, types) # NoNode
  PROVE  FindChild(w, dir, name, types) = FindChild(v, dir, name, types)
<1>1. PICK k : k = FindChild(v, dir, name, types) /\ IsFound(v, dir, name, types, k)
  BY FindChildIs
<1>2. k \in Hits(v, dir, name, types) /\ \A j \in Hits(v, dir, name, types) : k <= j
  BY <1>1 DEF IsFound
<1>3. PICK l \in Nat, m \in Nat : l = Len(v) /\ m = Len(w) /\ l <= m /\ \A i \in 1 .. l : w[i] = v[i]
  BY DEF Tree, Extends
<1>4. k \in 1 .. l
  BY <1>2, <1>3 DEF Hits
<1>5. k \in Hits(w, dir, name, types)
  <2>1. k \in 1 .. m /\ w[k] = v[k]
    BY <1>3, <1>4
  <2> QED BY <1>2, <1>3, <2>1 DEF Hits
<1>6. ASSUME NEW j \in Hits(w, dir, name, types) PROVE k <= j
  <2>1. j \in 1 .. m
    BY <1>3 DEF Hits
  <2>2. CASE j \in 1 .. l
    <3>1. j \in Hits(v, dir, name, types)
      BY <1>3, <2>2 DEF Hits
    <3> QED BY <1>2, <3>1
  <2>3. CASE j \notin 1 .. l
    BY <1>3, <1>4, <2>1, <2>3
  <2> QED BY <2>2, <2>3
<1>7. FindChild(w, dir, name, types) = k
  BY <1>5, <1>6, FoundIs
<1> QED BY <1>1, <1>7

\* What is not found, and is pushed next, is what is found.
LEMMA FoundNew ==
  ASSUME NEW v \in Tree, NEW w \in Tree, Extends(v, w), NEW dir, NEW name, NEW types,
         FindChild(v, dir, name, types) = NoNode, NEW k, k = Len(v) + 1, Len(v) < Len(w),
         w[k].dir = dir, w[k].name = name, w[k].type \in types
  PROVE  FindChild(w, dir, name, types) = k
<1>1. Hits(v, dir, name, types) = {}
  <2>1. IsFound(v, dir, name, types, NoNode)
    BY FindChildIs
  <2> QED BY <2>1 DEF IsFound
<1>2. PICK l \in Nat, m \in Nat : l = Len(v) /\ m = Len(w) /\ l < m /\ \A i \in 1 .. l : w[i] = v[i]
  BY DEF Tree, Extends
<1>3. l + 1 \in Hits(w, dir, name, types)
  BY <1>2 DEF Hits
<1>4. ASSUME NEW j \in Hits(w, dir, name, types) PROVE l + 1 <= j
  <2>1. j \in 1 .. m
    BY <1>2 DEF Hits
  <2>2. CASE j \in 1 .. l
    <3>1. j \in Hits(v, dir, name, types)
      BY <1>2, <2>2 DEF Hits
    <3> QED BY <1>1, <3>1
  <2>3. CASE j \notin 1 .. l
    BY <1>2, <2>1, <2>3
  <2> QED BY <2>2, <2>3
<1>5. FindChild(w, dir, name, types) = l + 1
  BY <1>3, <1>4, FoundIs
<1> QED BY <1>2, <1>5

\* addFolder, part by part.
FolderStates == [v : Tree, at : Nat]
IsWalk(v, path, h) ==
  /\ h \in [0 .. Len(path) -> FolderStates]
  /\ h[0] = [v |-> v, at |-> 0]
  /\ \A i \in 1 .. Len(path) : h[i] = FolderStep(h[i - 1], path[i])

LEMMA FolderStepIs ==
  ASSUME NEW s \in FolderStates, NEW piece \in STRING, NEW next, next = FindChild(s.v, s.at, piece, {"folder"}),
         NEW e, e = [dir |-> s.at, name |-> piece, type |-> "folder"]
  PROVE  /\ FolderStep(s, piece) \in FolderStates /\ e \in TreeNode
         /\ next # NoNode => next \in Nat /\ FolderStep(s, piece) = [v |-> s.v, at |-> next]
         /\ next = NoNode => FolderStep(s, piece) = [v |-> Append(s.v, e), at |-> Len(s.v) + 1]
         /\ Extends(s.v, FolderStep(s, piece).v)
<1>1. s.v \in Tree /\ s.at \in Nat /\ Len(s.v) \in Nat
  BY DEF FolderStates, Tree
<1>2. e \in TreeNode
  BY <1>1 DEF TreeNode
<1>3. next \in 1 .. Len(s.v) \union {NoNode}
  BY <1>1, FindChildIs
<1>4. next # NoNode => next \in Nat
  BY <1>1, <1>3
<1>5. Append(s.v, e) \in Tree /\ Extends(s.v, Append(s.v, e))
  BY <1>1, <1>2, ExtendsAppend
<1>6. CASE next # NoNode
  <2>1. FolderStep(s, piece) = [v |-> s.v, at |-> next]
    BY <1>6, Zenon DEF FolderStep
  <2>2. Extends(s.v, s.v)
    BY <1>1, ExtendsSelf
  <2> QED BY <1>1, <1>2, <1>4, <1>6, <2>1, <2>2 DEF FolderStates
<1>7. CASE next = NoNode
  <2>1. FolderStep(s, piece) = [v |-> Append(s.v, e), at |-> Len(s.v) + 1]
    BY <1>7, Zenon DEF FolderStep
  <2>2. PICK w \in Tree, n \in Nat : w = Append(s.v, e) /\ n = Len(s.v) + 1 /\ Extends(s.v, w)
    <3>1. Len(s.v) + 1 \in Nat
      BY <1>1
    <3> QED BY <1>5, <3>1, Zenon
  <2> QED BY <1>2, <1>7, <2>1, <2>2 DEF FolderStates
<1> QED BY <1>6, <1>7

LEMMA AddFolderWalks ==
  ASSUME NEW v \in Tree, NEW path \in Seq(STRING)
  PROVE  \E h : IsWalk(v, path, h) /\ AddFolder(v, path) = h[Len(path)].v
<1>1. PICK n \in Nat : n = Len(path)
  OBVIOUS
<1> DEFINE body(h) == [i \in 0 .. Len(path) |->
                         IF i = 0 THEN [v |-> v, at |-> 0] ELSE FolderStep(h[i - 1], path[i])]
           upTo == CHOOSE h : h = body(h)
           more == [j \in Nat |-> [s \in FolderStates |-> IF j < n THEN FolderStep(s, path[j + 1]) ELSE s]]
<1>2. \A j \in Nat, s \in FolderStates : (IF j < n THEN FolderStep(s, path[j + 1]) ELSE s) \in FolderStates
  <2> TAKE j \in Nat, s \in FolderStates
  <2>1. CASE j < n
    <3>1. path[j + 1] \in STRING
      <4>1. j + 1 \in 1 .. Len(path)
        BY <1>1, <2>1
      <4> QED BY <4>1, ElementOfSeq
    <3> QED BY <2>1, <3>1, FolderStepIs
  <2> QED BY <2>1
<1>3. [v |-> v, at |-> 0] \in FolderStates
  BY DEF FolderStates
<1> HIDE DEF FolderStates
<1>4. more \in Steps(FolderStates)
  BY <1>2 DEF Steps
<1>5. PICK h \in [0 .. n -> FolderStates] :
        \A i \in 0 .. n : h[i] = IF i = 0 THEN [v |-> v, at |-> 0] ELSE more[i - 1][h[i - 1]]
  <2> HIDE DEF more
  <2>1. RecursiveUpto(FolderStates, [v |-> v, at |-> 0], more, n)
    BY <1>3, <1>4, BoundedRecursion
  <2> QED BY <2>1, Zenon DEF RecursiveUpto
<1>6. \A i \in 0 .. n : h[i] = body(h)[i]
  <2> TAKE i \in 0 .. n
  <2>1. CASE i = 0
    BY <1>1, <1>5, <2>1
  <2>2. CASE i # 0
    <3>1. i - 1 \in Nat /\ i - 1 < n /\ (i - 1) + 1 = i /\ i - 1 \in 0 .. n
      BY <2>2
    <3>2. h[i - 1] \in FolderStates
      BY <1>5, <3>1
    <3>3. more[i - 1][h[i - 1]] = FolderStep(h[i - 1], path[i])
      BY <3>1, <3>2
    <3> QED BY <1>1, <1>5, <2>2, <3>3
  <2> QED BY <2>1, <2>2
<1>7. \E g : g = body(g)
  BY <1>1, <1>5, <1>6
<1> HIDE DEF more
<1>8. upTo = body(upTo)
  <2> HIDE DEF body
  <2> QED BY <1>7, Zenon
<1>9. AddFolder(v, path) = upTo[n].v
  BY <1>1 DEF AddFolder
<1> HIDE DEF upTo
<1>10. \A i \in 0 .. n : upTo[i] = IF i = 0 THEN [v |-> v, at |-> 0] ELSE FolderStep(upTo[i - 1], path[i])
  BY <1>1, <1>8
<1> DEFINE P == {i \in Nat : i <= n => upTo[i] \in FolderStates}
<1>11. 0 \in P
  BY <1>3, <1>10
<1>12. ASSUME NEW i \in Nat, i \in P PROVE i + 1 \in P
  <2> SUFFICES ASSUME i + 1 <= n PROVE upTo[i + 1] \in FolderStates
    <3>1. i + 1 \in Nat
      OBVIOUS
    <3> QED BY <3>1, Zenon
  <2>1. i + 1 \in 0 .. n /\ i + 1 # 0 /\ (i + 1) - 1 = i /\ i + 1 \in 1 .. Len(path) /\ i <= n
    BY <1>1
  <2>2. path[i + 1] \in STRING
    BY <2>1, ElementOfSeq
  <2>3. upTo[i] \in FolderStates
    BY <1>12, <2>1
  <2>4. upTo[i + 1] = FolderStep(upTo[i], path[i + 1])
    BY <1>10, <2>1
  <2>5. FolderStep(upTo[i], path[i + 1]) \in FolderStates
    BY <2>2, <2>3, FolderStepIs
  <2> QED BY <2>4, <2>5
<1>13. \A i \in 0 .. n : upTo[i] \in FolderStates
  <2>1. Nat \subseteq P
    <3> HIDE DEF P
    <3> QED BY <1>11, <1>12, NatSetInduction
  <2> QED BY <2>1
<1>14. upTo = [i \in 0 .. n |-> upTo[i]]
  BY <1>1, <1>8
<1>15. upTo \in [0 .. n -> FolderStates]
  BY <1>13, <1>14
<1>16. upTo[0] = [v |-> v, at |-> 0] /\ \A i \in 1 .. n : upTo[i] = FolderStep(upTo[i - 1], path[i])
  BY <1>10
<1>17. IsWalk(v, path, upTo)
  BY <1>1, <1>15, <1>16 DEF IsWalk
<1> QED BY <1>1, <1>9, <1>17

\* A walk only adds to the tree.
LEMMA WalkGrows ==
  ASSUME NEW v, NEW path \in Seq(STRING), NEW h, IsWalk(v, path, h)
  PROVE  \A j \in 0 .. Len(path) : \A i \in 0 .. j : Extends(h[i].v, h[j].v)
<1>1. PICK n \in Nat : n = Len(path)
  OBVIOUS
<1>2. h \in [0 .. n -> FolderStates] /\ \A i \in 1 .. n : h[i] = FolderStep(h[i - 1], path[i])
  BY <1>1 DEF IsWalk
<1>3. \A i \in 0 .. n : h[i].v \in Tree
  BY <1>2 DEF FolderStates
<1> DEFINE P == {j \in Nat : j <= n => \A i \in 0 .. j : Extends(h[i].v, h[j].v)}
<1>4. 0 \in P
  <2>1. \A i \in 0 .. 0 : i = 0
    OBVIOUS
  <2>2. Extends(h[0].v, h[0].v)
    <3>1. h[0].v \in Tree
      BY <1>3
    <3> QED BY <3>1, ExtendsSelf
  <2> QED BY <2>1, <2>2
<1>5. ASSUME NEW j \in Nat, j \in P PROVE j + 1 \in P
  <2> SUFFICES ASSUME j + 1 <= n PROVE \A i \in 0 .. j + 1 : Extends(h[i].v, h[j + 1].v)
    <3>1. j + 1 \in Nat
      OBVIOUS
    <3> QED BY <3>1, Zenon
  <2>1. j \in 0 .. n /\ j + 1 \in 0 .. n /\ j + 1 \in 1 .. n /\ (j + 1) - 1 = j /\ j <= n
    OBVIOUS
  <2>2. path[j + 1] \in STRING
    BY <1>1, <2>1, ElementOfSeq
  <2>3. h[j] \in FolderStates /\ h[j + 1] = FolderStep(h[j], path[j + 1])
    BY <1>2, <2>1
  <2>4. Extends(h[j].v, h[j + 1].v)
    BY <2>2, <2>3, FolderStepIs
  <2>5. ASSUME NEW i \in 0 .. j + 1 PROVE Extends(h[i].v, h[j + 1].v)
    <3>1. CASE i = j + 1
      BY <1>3, <2>1, <3>1, ExtendsSelf
    <3>2. CASE i # j + 1
      <4>1. i \in 0 .. j /\ i \in 0 .. n
        BY <2>1, <3>2
      <4>2. Extends(h[i].v, h[j].v)
        BY <1>5, <2>1, <4>1
      <4>3. h[i].v \in Tree /\ h[j].v \in Tree /\ h[j + 1].v \in Tree
        BY <1>3, <2>1, <4>1
      <4> QED BY <2>4, <4>2, <4>3, ExtendsMore
    <3> QED BY <3>1, <3>2
  <2> QED BY <2>5
<1>6. Nat \subseteq P
  <2> HIDE DEF P
  <2> QED BY <1>4, <1>5, NatSetInduction
<1> QED BY <1>1, <1>6

\* In a tree that extends what a walk made, the same walk makes nothing.
LEMMA WalkSettled ==
  ASSUME NEW v, NEW path \in Seq(STRING), NEW h, IsWalk(v, path, h),
         NEW w \in Tree, Extends(h[Len(path)].v, w), NEW g, IsWalk(w, path, g)
  PROVE  g[Len(path)].v = w
<1>1. PICK n \in Nat : n = Len(path)
  OBVIOUS
<1>2. h \in [0 .. n -> FolderStates] /\ \A i \in 1 .. n : h[i] = FolderStep(h[i - 1], path[i])
  BY <1>1 DEF IsWalk
<1>3. g \in [0 .. n -> FolderStates] /\ \A i \in 1 .. n : g[i] = FolderStep(g[i - 1], path[i])
  BY <1>1 DEF IsWalk
<1>4. \A i \in 0 .. n : h[i].v \in Tree /\ Extends(h[i].v, w)
  <2> TAKE i \in 0 .. n
  <2>1. h[i].v \in Tree /\ h[n].v \in Tree
    BY <1>2 DEF FolderStates
  <2>2. Extends(h[i].v, h[n].v)
    <3>1. n \in 0 .. Len(path) /\ i \in 0 .. n
      BY <1>1
    <3> QED BY <3>1, WalkGrows
  <2> QED BY <1>1, <2>1, <2>2, ExtendsMore
<1> DEFINE P == {i \in Nat : i <= n => g[i].v = w /\ g[i].at = h[i].at}
<1>5. 0 \in P
  BY DEF IsWalk
<1>6. ASSUME NEW i \in Nat, i \in P PROVE i + 1 \in P
  <2> SUFFICES ASSUME i + 1 <= n PROVE g[i + 1].v = w /\ g[i + 1].at = h[i + 1].at
    <3>1. i + 1 \in Nat
      OBVIOUS
    <3> QED BY <3>1, Zenon
  <2>1. i \in 0 .. n /\ i + 1 \in 0 .. n /\ i + 1 \in 1 .. n /\ (i + 1) - 1 = i /\ i <= n
    OBVIOUS
  <2>2. PICK piece \in STRING : piece = path[i + 1]
    BY <1>1, <2>1, ElementOfSeq
  <2>3. PICK s \in FolderStates, r \in FolderStates : s = h[i] /\ r = g[i]
    BY <1>2, <1>3, <2>1
  <2>4. h[i + 1] = FolderStep(s, piece) /\ g[i + 1] = FolderStep(r, piece)
    BY <1>2, <1>3, <2>1, <2>2, <2>3
  <2>5. r.v = w /\ r.at = s.at /\ s.v \in Tree /\ Extends(s.v, w) /\ h[i + 1].v \in Tree /\ Extends(h[i + 1].v, w)
    BY <1>4, <1>6, <2>1, <2>3
  <2>6. PICK next : next = FindChild(s.v, s.at, piece, {"folder"})
    OBVIOUS
  <2>7. PICK again : again = FindChild(r.v, r.at, piece, {"folder"})
    OBVIOUS
  <2>8. CASE next # NoNode
    <3>1. again = next
      BY <2>5, <2>6, <2>7, <2>8, FoundAgain
    <3>2. h[i + 1] = [v |-> s.v, at |-> next]
      BY <2>4, <2>6, <2>8, FolderStepIs
    <3>3. g[i + 1] = [v |-> r.v, at |-> again]
      BY <2>4, <2>7, <2>8, <3>1, FolderStepIs
    <3> QED BY <2>5, <3>1, <3>2, <3>3
  <2>9. CASE next = NoNode
    <3>1. PICK e : e = [dir |-> s.at, name |-> piece, type |-> "folder"]
      OBVIOUS
    <3>2. e \in TreeNode /\ h[i + 1] = [v |-> Append(s.v, e), at |-> Len(s.v) + 1]
      BY <2>4, <2>6, <2>9, <3>1, FolderStepIs
    <3>3. PICK l \in Nat : l = Len(s.v)
      BY <2>5 DEF Tree
    <3>4. h[i + 1].v = Append(s.v, e) /\ h[i + 1].at = l + 1
      BY <3>2, <3>3
    <3>5. Len(Append(s.v, e)) = l + 1 /\ Append(s.v, e)[l + 1] = e
      BY <2>5, <3>2, <3>3, ExtendsAppend
    <3>6. l < Len(w) /\ w[l + 1] = e
      <4>1. PICK u : u = Append(s.v, e) /\ Extends(u, w) /\ Len(u) = l + 1 /\ u[l + 1] = e
        BY <2>5, <3>4, <3>5
      <4>2. Len(w) \in Nat /\ l + 1 \in 1 .. l + 1
        BY DEF Tree
      <4>3. Len(u) <= Len(w) /\ \A k \in 1 .. Len(u) : w[k] = u[k]
        BY <4>1 DEF Extends
      <4> QED BY <4>1, <4>2, <4>3
    <3>7. e.dir = s.at /\ e.name = piece /\ e.type \in {"folder"}
      BY <3>1
    <3>8. FindChild(w, s.at, piece, {"folder"}) = l + 1
      <4>1. /\ Len(s.v) < Len(w) /\ w[Len(s.v) + 1].dir = s.at /\ w[Len(s.v) + 1].name = piece
            /\ w[Len(s.v) + 1].type \in {"folder"}
        BY <3>3, <3>6, <3>7
      <4>2. FindChild(w, s.at, piece, {"folder"}) = Len(s.v) + 1
        <5>1. PICK sv \in Tree, at \in {s.at} : sv = s.v /\ at = s.at
          BY <2>5
        <5>2. PICK k : k = Len(sv) + 1
          OBVIOUS
        <5>3. FindChild(sv, at, piece, {"folder"}) = NoNode
          BY <2>6, <2>9, <5>1
        <5>4. Extends(sv, w)
          BY <2>5, <5>1
        <5>5. Len(sv) < Len(w) /\ w[k].dir = at /\ w[k].name = piece /\ w[k].type \in {"folder"}
          BY <4>1, <5>1, <5>2
        <5>6. FindChild(w, at, piece, {"folder"}) = k
          BY <5>2, <5>3, <5>4, <5>5, FoundNew
        <5> QED BY <5>1, <5>2, <5>6
      <4> QED BY <3>3, <4>2
    <3>9. again = l + 1 /\ again # NoNode
      BY <2>5, <2>7, <3>3, <3>8 DEF NoNode
    <3>10. g[i + 1] = [v |-> r.v, at |-> again]
      BY <2>4, <2>7, <3>9, FolderStepIs
    <3> QED BY <2>5, <3>4, <3>9, <3>10
  <2> QED BY <2>8, <2>9
<1>7. Nat \subseteq P
  <2> HIDE DEF P
  <2> QED BY <1>5, <1>6, NatSetInduction
<1> QED BY <1>1, <1>7

\* addFolder: the tree grows, and what is there is not made again.
LEMMA AddFolderIs ==
  ASSUME NEW v \in Tree, NEW path \in Seq(STRING)
  PROVE  /\ AddFolder(v, path) \in Tree /\ Extends(v, AddFolder(v, path))
         /\ \A w \in Tree : Extends(AddFolder(v, path), w) => AddFolder(w, path) = w
<1>1. PICK h : IsWalk(v, path, h) /\ AddFolder(v, path) = h[Len(path)].v
  BY AddFolderWalks
<1>2. PICK n \in Nat : n = Len(path)
  OBVIOUS
<1>3. h[n] \in FolderStates /\ h[0].v = v
  BY <1>1, <1>2 DEF IsWalk
<1>4. Extends(h[0].v, h[n].v)
  <2>1. n \in 0 .. Len(path) /\ 0 \in 0 .. n
    BY <1>2
  <2> QED BY <1>1, <2>1, WalkGrows
<1>5. ASSUME NEW w \in Tree, Extends(AddFolder(v, path), w) PROVE AddFolder(w, path) = w
  <2>1. PICK g : IsWalk(w, path, g) /\ AddFolder(w, path) = g[Len(path)].v
    BY AddFolderWalks
  <2> QED BY <1>1, <1>5, <2>1, WalkSettled
<1>6. h[n].v \in Tree
  BY <1>3 DEF FolderStates
<1> QED BY <1>1, <1>2, <1>3, <1>4, <1>5, <1>6

\* What findNode gives.
LEMMA FindNodeType ==
  ASSUME NEW v \in Tree, NEW path \in Seq(STRING)
  PROVE  FindNode(v, path) \in Nat \union {NoNode} /\ (Len(path) = 0 => FindNode(v, path) = 0)
<1>1. PICK n \in Nat : n = Len(path)
  OBVIOUS
<1> DEFINE U == Nat \union {NoNode}
           step(k, piece) == IF k = NoNode \/ ~IsFolder(v, k) THEN NoNode ELSE FindChild(v, k, piece, {"file", "folder"})
           body(h) == [i \in 0 .. Len(path) |-> IF i = 0 THEN 0 ELSE step(h[i - 1], path[i])]
           at == CHOOSE h : h = body(h)
           more == [j \in Nat |-> [k \in U |-> step(k, path[j + 1])]]
<1>2. \A k, piece : step(k, piece) \in U
  <2>1. \A k, piece : FindChild(v, k, piece, {"file", "folder"}) \in U
    <3> TAKE k, piece
    <3>1. FindChild(v, k, piece, {"file", "folder"}) \in 1 .. Len(v) \union {NoNode}
      BY FindChildIs
    <3> QED BY <3>1
  <2> QED BY <2>1
<1>3. FindNode(v, path) = at[n]
  BY <1>1 DEF FindNode
<1> HIDE DEF step
<1>4. 0 \in U /\ more \in Steps(U)
  BY <1>2 DEF Steps
<1> HIDE DEF U
<1>5. PICK h \in [0 .. n -> U] : \A i \in 0 .. n : h[i] = IF i = 0 THEN 0 ELSE more[i - 1][h[i - 1]]
  <2> HIDE DEF more
  <2>1. RecursiveUpto(U, 0, more, n)
    BY <1>4, BoundedRecursion
  <2> QED BY <2>1, Zenon DEF RecursiveUpto
<1>6. \A i \in 0 .. n : h[i] = body(h)[i]
  <2> TAKE i \in 0 .. n
  <2>1. CASE i = 0
    BY <1>1, <1>5, <2>1
  <2>2. CASE i # 0
    <3>1. i - 1 \in Nat /\ (i - 1) + 1 = i /\ i - 1 \in 0 .. n
      BY <2>2
    <3>2. more[i - 1][h[i - 1]] = step(h[i - 1], path[i])
      BY <1>5, <3>1
    <3> QED BY <1>1, <1>5, <2>2, <3>2
  <2> QED BY <2>1, <2>2
<1>7. \E g : g = body(g)
  BY <1>1, <1>5, <1>6
<1> HIDE DEF more
<1>8. at = body(at)
  <2> HIDE DEF body
  <2> QED BY <1>7, Zenon
<1> HIDE DEF at
<1>9. at[n] = IF n = 0 THEN 0 ELSE step(at[n - 1], path[n])
  <2>1. n \in 0 .. Len(path)
    BY <1>1
  <2>2. at[n] = body(at)[n]
    BY <1>8, Zenon
  <2> QED BY <2>1, <2>2
<1>10. at[n] \in U /\ (n = 0 => at[n] = 0)
  BY <1>2, <1>4, <1>9
<1> QED BY <1>1, <1>3, <1>10 DEF U

\* addFile: a node more, or none; a file of the root is added.
LEMMA AddFileIs ==
  ASSUME NEW v \in Tree, NEW path \in Seq(STRING) \ {<<>>}
  PROVE  /\ AddFile(v, path) \in Tree /\ Extends(v, AddFile(v, path))
         /\ Len(path) = 1 => FindChild(AddFile(v, path), 0, path[1], {"file"}) # NoNode
<1>0. PICK n \in Nat : n = Len(path) /\ n >= 1
  BY EmptySeq
<1>1. PICK front \in Seq(STRING) : front = Front(path) /\ (Len(path) = 1 => Len(front) = 0)
  <2>1. \A i \in 1 .. n - 1 : path[i] \in STRING
    BY <1>0, ElementOfSeq
  <2>2. SubSeq(path, 1, n - 1) \in Seq(STRING) /\ Len(SubSeq(path, 1, n - 1)) = n - 1
    BY <1>0, <2>1
  <2>3. PICK front \in Seq(STRING) : front = SubSeq(path, 1, n - 1) /\ Len(front) = n - 1
    BY <2>2, Zenon
  <2>4. front = Front(path)
    BY <1>0, <2>3, Zenon DEF Front
  <2>5. n = 1 => Len(front) = 0
    BY <2>3
  <2> QED BY <1>0, <2>4, <2>5
<1>2. PICK name \in STRING : name = Last(path) /\ (Len(path) = 1 => name = path[1])
  <2>1. path[n] \in STRING
    BY <1>0, ElementOfSeq
  <2> QED BY <1>0, <2>1 DEF Last
<1>3. PICK folder \in Nat \union {NoNode} : folder = FindNode(v, front) /\ (Len(path) = 1 => folder = 0)
  BY <1>1, FindNodeType
<1>4. CASE folder = NoNode \/ ~IsFolder(v, folder)
  <2>1. AddFile(v, path) = v
    BY <1>1, <1>3, <1>4, Zenon DEF AddFile
  <2>2. Len(path) # 1
    BY <1>3, <1>4 DEF NoNode, IsFolder
  <2> QED BY <2>1, <2>2, ExtendsSelf
<1>5. CASE ~(folder = NoNode \/ ~IsFolder(v, folder))
  <2>1. PICK e : e = [dir |-> folder, name |-> name, type |-> "file"]
    OBVIOUS
  <2>2. e \in TreeNode /\ e.dir = folder /\ e.name = name /\ e.type \in {"file"}
    BY <1>3, <1>5, <2>1 DEF TreeNode
  <2>3. AddFile(v, path) = Append(v, e)
    BY <1>1, <1>2, <1>3, <1>5, <2>1, Zenon DEF AddFile
  <2>4. PICK w \in Tree : w = Append(v, e) /\ Extends(v, w) /\ Len(w) = Len(v) + 1 /\ w[Len(v) + 1] = e
    BY <2>2, ExtendsAppend
  <2>5. ASSUME Len(path) = 1 PROVE FindChild(w, 0, path[1], {"file"}) # NoNode
    <3>1. PICK l \in Nat : l = Len(v)
      BY DEF Tree
    <3>2. l + 1 \in Hits(w, 0, path[1], {"file"})
      BY <1>2, <1>3, <2>2, <2>4, <2>5, <3>1 DEF Hits
    <3>3. PICK k : k = FindChild(w, 0, path[1], {"file"}) /\ IsFound(w, 0, path[1], {"file"}, k)
      BY FindChildIs
    <3> QED BY <3>2, <3>3 DEF IsFound
  <2> QED BY <2>3, <2>4, <2>5
<1> QED BY <1>4, <1>5

LEMMA RequestType ==
  ASSUME NEW r \in DriveIds
  PROVE  /\ DriveRequests[r].kind \in {"file", "folder"} /\ DriveRequests[r].path \in Seq(STRING) \ {<<>>}
         /\ DriveRequests[r].kind = "file" => Len(DriveRequests[r].path) = 1
BY DriveConstants DEF DriveIds

\* What a request adds is in the tree then, and stays there as the tree grows.
LEMMA AddedIs ==
  ASSUME NEW v \in Tree, NEW r \in DriveIds, NEW w, w = DriveAdded(v, DriveRequests[r].kind, DriveRequests[r].path)
  PROVE  w \in Tree /\ Extends(v, w) /\ InTree(w, r)
<1>1. PICK kind \in {"file", "folder"}, path \in Seq(STRING) \ {<<>>} :
        kind = DriveRequests[r].kind /\ path = DriveRequests[r].path /\ (kind = "file" => Len(path) = 1)
  BY RequestType
<1>2. CASE kind = "file"
  <2>1. w = AddFile(v, path)
    BY <1>1, <1>2 DEF DriveAdded
  <2>2. w \in Tree /\ Extends(v, w) /\ FindChild(w, 0, path[1], {"file"}) # NoNode
    BY <1>1, <1>2, <2>1, AddFileIs
  <2> QED BY <1>1, <1>2, <2>2 DEF InTree, IsFile
<1>3. CASE kind = "folder"
  <2>1. w = AddFolder(v, path)
    BY <1>1, <1>3 DEF DriveAdded
  <2>2. w \in Tree /\ Extends(v, w)
    BY <2>1, AddFolderIs
  <2>3. AddFolder(w, path) = w
    BY <2>1, <2>2, AddFolderIs, ExtendsSelf
  <2> QED BY <1>1, <1>3, <2>2, <2>3 DEF InTree, IsFile
<1> QED BY <1>2, <1>3

LEMMA InTreeStays ==
  ASSUME NEW v \in Tree, NEW w \in Tree, Extends(v, w), NEW r \in DriveIds, InTree(v, r)
  PROVE  InTree(w, r)
<1>1. PICK kind \in {"file", "folder"}, path \in Seq(STRING) \ {<<>>} :
        kind = DriveRequests[r].kind /\ path = DriveRequests[r].path
  BY RequestType
<1>2. CASE kind = "file"
  <2>1. FindChild(v, 0, path[1], {"file"}) # NoNode
    BY <1>1, <1>2 DEF InTree, IsFile
  <2>2. FindChild(w, 0, path[1], {"file"}) # NoNode
    BY <2>1, FoundAgain
  <2> QED BY <1>1, <1>2, <2>2 DEF InTree, IsFile
<1>3. CASE kind = "folder"
  <2>1. AddFolder(v, path) = v
    BY <1>1, <1>3 DEF InTree, IsFile
  <2>2. AddFolder(w, path) = w
    BY <2>1, AddFolderIs
  <2> QED BY <1>1, <1>3, <2>2 DEF InTree, IsFile
<1> QED BY <1>2, <1>3

\* The inductive invariant of the drive's file.
DriveStates == {"new", "uploaded", "truncate", "write", "ok", "warned", "error"}
ScriptStates == {"new", "truncate", "write", "done", "died"}
DriveTypes ==
  /\ drive \in Tree \union {Broken} /\ driveFaults \in Nat /\ beside \in SUBSET DriveIds
  /\ dreq \in [DriveIds -> [pc : DriveStates, vfs : Tree, saves : Int]]
  /\ script \in [pc : ScriptStates, vfs : Tree, saves : Int, todo : Seq(Seq(STRING) \ {<<>>})]
\* One request of the server at a time changes the file; what runs beside the script is known.
OneAtATime ==
  /\ \A q \in InSection, r \in InSection : q = r
  /\ script.pc \in Saving => InSection \in SUBSET beside
\* Whatever will be written holds what was answered with success.
KeptIn(v) == \A r \in DriveIds \ beside : dreq[r].pc = "ok" => InTree(v, r)
AllKept ==
  /\ drive # Broken => KeptIn(drive)
  /\ \A q \in InSection : KeptIn(dreq[q].vfs) /\ InTree(dreq[q].vfs, q)
  /\ script.pc \in Saving => KeptIn(script.vfs)
BrokenKnown == drive = Broken => \/ \E r \in DriveIds : dreq[r].pc = "write"
                                 \/ script.pc = "write" \/ driveFaults > 0
DriveInv == DriveTypes /\ OneAtATime /\ AllKept /\ BrokenKnown

LEMMA BrokenIsNoTree == Broken \notin Tree
<1> SUFFICES ASSUME Broken \in Tree PROVE FALSE
  OBVIOUS
<1>1. Len(Broken) = 1 /\ Broken[1].type = "broken"
  BY DEF Broken
<1>2. Broken[1] \in TreeNode
  <2> HIDE DEF TreeNode
  <2>1. 1 \in 1 .. Len(Broken)
    BY <1>1
  <2> QED BY <2>1, ElementOfSeq DEF Tree
<1>3. Broken[1].type \in {"file", "folder"}
  BY <1>2 DEF TreeNode
<1> QED BY <1>1, <1>3

LEMMA DriveInitInv == DriveInit => DriveInv
<1> SUFFICES ASSUME DriveInit PROVE DriveInv
  OBVIOUS
<1>1. <<>> \in Tree /\ Broken # <<>>
  BY DEF Tree, Broken
<1>2. DrivePaths \in Seq(Seq(STRING) \ {<<>>})
  BY DriveConstants
<1> HIDE DEF Tree
<1>3. DriveTypes
  BY <1>1, <1>2 DEF DriveInit, DriveTypes, DriveStates, ScriptStates
<1>4. \A r \in DriveIds : dreq[r].pc = "new"
  BY DEF DriveInit
<1>5. InSection = {} /\ script.pc = "new"
  BY <1>4 DEF InSection, Saving, DriveInit
<1>6. OneAtATime
  BY <1>5 DEF OneAtATime
<1>7. AllKept
  BY <1>4, <1>5 DEF AllKept, KeptIn, Saving
<1>8. BrokenKnown
  BY <1>1 DEF BrokenKnown, DriveInit
<1> QED BY <1>3, <1>6, <1>7, <1>8 DEF DriveInv

\* A request that is answered without having changed the file.
LEMMA DriveAnswers ==
  ASSUME DriveInv, NEW r \in DriveIds, NEW answer \in {"uploaded", "warned", "error"}, DriveAnswer(r, answer),
         UNCHANGED <<drive, script, beside>>, driveFaults' \in Nat,
         dreq[r].pc # "write" \/ driveFaults' > 0, driveFaults > 0 => driveFaults' > 0
  PROVE  DriveInv'
<1>1. /\ dreq' = [dreq EXCEPT ![r] = [pc |-> answer, vfs |-> <<>>, saves |-> 0]]
      /\ <<>> \in Tree
  BY DEF DriveAnswer, DriveAt, Tree
<1> HIDE DEF Tree
<1>2. DriveTypes'
  BY <1>1 DEF DriveInv, DriveTypes, DriveStates
<1>3. (\A q \in DriveIds \ {r} : dreq'[q] = dreq[q]) /\ dreq'[r].pc = answer
  BY <1>1 DEF DriveInv, DriveTypes
<1>4. InSection' = InSection \ {r}
  BY <1>3 DEF InSection, Saving
<1>5. OneAtATime'
  BY <1>4 DEF DriveInv, OneAtATime
<1>6. \A q \in DriveIds : dreq'[q].pc = "ok" => dreq[q].pc = "ok"
  BY <1>3
<1>7. ASSUME NEW v, KeptIn(v) PROVE KeptIn(v)'
  BY <1>6, <1>7 DEF KeptIn, InTree, IsFile
<1>8. AllKept'
  BY <1>3, <1>4, <1>7 DEF DriveInv, AllKept, InTree, IsFile, InSection
<1>9. BrokenKnown'
  <2>1. CASE driveFaults' > 0
    BY <2>1 DEF BrokenKnown
  <2>2. CASE ~(driveFaults' > 0)
    <3>1. dreq[r].pc # "write" /\ ~(driveFaults > 0)
      BY <2>2
    <3> QED BY <1>3, <3>1 DEF DriveInv, BrokenKnown
  <2> QED BY <2>1, <2>2
<1> QED BY <1>2, <1>5, <1>8, <1>9 DEF DriveInv

LEMMA DriveLoadInv ==
  ASSUME DriveInv, NEW r \in DriveIds, DriveLoad(r)
  PROVE  DriveInv'
<1>1. InSection = {} /\ UNCHANGED <<drive, script, driveFaults>>
  BY DEF DriveLoad, DriveUpdate
<1> HIDE DEF Tree
<1>2. CASE drive = Broken
  <2>1. \E answer \in {"warned", "error"} : DriveAnswer(r, answer)
    <3>1. DriveAnswer(r, IF IsFile(r) THEN "warned" ELSE "error")
      BY <1>2 DEF DriveLoad, DriveUpdate
    <3> QED BY <3>1
  <2>2. UNCHANGED beside
    BY <1>2 DEF DriveLoad, DriveUpdate
  <2>3. dreq[r].pc # "write" /\ driveFaults' \in Nat
    BY <1>1 DEF InSection, Saving, DriveInv, DriveTypes
  <2> QED BY <1>1, <2>1, <2>2, <2>3, DriveAnswers
<1>3. CASE drive # Broken
  <2>1. PICK w : w = DriveAdded(drive, DriveRequests[r].kind, DriveRequests[r].path)
    OBVIOUS
  <2>2. PICK n \in Int : dreq' = [dreq EXCEPT ![r] = [pc |-> "truncate", vfs |-> w, saves |-> n]]
    <3>1. dreq' = [dreq EXCEPT ![r] = [pc |-> "truncate", vfs |-> w, saves |-> IF IsFile(r) THEN 2 ELSE 1]]
      BY <1>3, <2>1 DEF DriveLoad, DriveUpdate
    <3>2. (IF IsFile(r) THEN 2 ELSE 1) \in Int
      OBVIOUS
    <3> QED BY <3>1, <3>2, Zenon
  <2>3. beside' = IF script.pc \in Saving THEN beside \union {r} ELSE beside
    BY <1>3 DEF DriveLoad, DriveUpdate
  <2>4. drive \in Tree
    BY <1>3 DEF DriveInv, DriveTypes
  <2>5. w \in Tree /\ Extends(drive, w) /\ InTree(w, r)
    BY <2>1, <2>4, AddedIs
  <2>6. DriveTypes'
    BY <1>1, <2>2, <2>3, <2>5 DEF DriveInv, DriveTypes, DriveStates
  <2>7. (\A q \in DriveIds \ {r} : dreq'[q] = dreq[q]) /\ dreq'[r].pc = "truncate" /\ dreq'[r].vfs = w
    BY <2>2 DEF DriveInv, DriveTypes
  <2>8. InSection' = {r}
    BY <1>1, <2>7 DEF InSection, Saving
  <2>9. OneAtATime'
    BY <1>1, <2>3, <2>8 DEF OneAtATime
  <2>10. \A q \in DriveIds : dreq'[q].pc = "ok" => dreq[q].pc = "ok"
    BY <2>7
  <2>11. beside \in SUBSET beside'
    BY <2>3
  <2>12. ASSUME NEW v, KeptIn(v) PROVE KeptIn(v)'
    BY <2>10, <2>11, <2>12 DEF KeptIn, InTree, IsFile
  <2>13. KeptIn(w)
    <3>1. KeptIn(drive)
      BY <1>3 DEF DriveInv, AllKept
    <3> QED BY <2>4, <2>5, <3>1, InTreeStays DEF KeptIn
  <2>14. AllKept'
    <3>1. KeptIn(w)'
      BY <2>12, <2>13
    <3>2. InTree(w, r)'
      BY <2>5 DEF InTree, IsFile
    <3>3. (drive # Broken => KeptIn(drive))'
      BY <1>1, <2>12 DEF DriveInv, AllKept
    <3>4. (script.pc \in Saving => KeptIn(script.vfs))'
      BY <1>1, <2>12 DEF DriveInv, AllKept
    <3> QED BY <2>7, <2>8, <3>1, <3>2, <3>3, <3>4 DEF AllKept
  <2>15. BrokenKnown'
    BY <1>1, <1>3 DEF BrokenKnown
  <2> QED BY <2>6, <2>9, <2>14, <2>15 DEF DriveInv
<1> QED BY <1>2, <1>3

LEMMA DriveTruncateInv ==
  ASSUME DriveInv, NEW r \in DriveIds, DriveTruncate(r)
  PROVE  DriveInv'
<1>1. /\ UNCHANGED <<script, driveFaults, beside>> /\ drive' = Broken /\ dreq[r].pc = "truncate"
      /\ dreq' = [dreq EXCEPT ![r].pc = "write"]
  BY DEF DriveTruncate
<1> HIDE DEF Tree
<1>2. DriveTypes'
  BY <1>1 DEF DriveInv, DriveTypes, DriveStates
<1>3. /\ \A q \in DriveIds \ {r} : dreq'[q] = dreq[q]
      /\ dreq'[r].pc = "write" /\ dreq'[r].vfs = dreq[r].vfs
  BY <1>1 DEF DriveInv, DriveTypes
<1>4. InSection' = InSection
  BY <1>1, <1>3 DEF InSection, Saving
<1>5. OneAtATime'
  BY <1>1, <1>4 DEF DriveInv, OneAtATime
<1>6. \A q \in DriveIds : dreq'[q].vfs = dreq[q].vfs /\ (dreq'[q].pc = "ok" => dreq[q].pc = "ok")
  BY <1>3
<1>7. ASSUME NEW v, KeptIn(v) PROVE KeptIn(v)'
  BY <1>1, <1>6, <1>7 DEF KeptIn, InTree, IsFile
<1>8. AllKept'
  BY <1>1, <1>4, <1>6, <1>7 DEF DriveInv, AllKept, InTree, IsFile, InSection
<1>9. BrokenKnown'
  BY <1>3 DEF BrokenKnown
<1> QED BY <1>2, <1>5, <1>8, <1>9 DEF DriveInv

LEMMA DriveWriteInv ==
  ASSUME DriveInv, NEW r \in DriveIds, DriveWrite(r)
  PROVE  DriveInv'
<1>1. UNCHANGED <<script, driveFaults, beside>> /\ drive' = dreq[r].vfs /\ dreq[r].pc = "write"
  BY DEF DriveWrite
<1> HIDE DEF Tree
<1>2. /\ dreq[r] \in [pc : DriveStates, vfs : Tree, saves : Int] /\ drive' \in Tree /\ drive' # Broken
      /\ <<>> \in Tree
  BY <1>1, BrokenIsNoTree, EmptySeq DEF DriveInv, DriveTypes, Tree
<1>3. /\ dreq' \in [DriveIds -> [pc : DriveStates, vfs : Tree, saves : Int]]
      /\ \A q \in DriveIds \ {r} : dreq'[q] = dreq[q]
      /\ \/ dreq'[r].pc = "truncate" /\ dreq'[r].vfs = dreq[r].vfs
         \/ dreq'[r].pc = "ok"
  <2>1. CASE dreq[r].saves > 1
    <3>1. dreq' = [dreq EXCEPT ![r].pc = "truncate", ![r].saves = @ - 1]
      BY <2>1 DEF DriveWrite
    <3>2. dreq[r].saves - 1 \in Int
      BY <1>2
    <3> QED BY <1>2, <3>1, <3>2 DEF DriveInv, DriveTypes, DriveStates
  <2>2. CASE ~(dreq[r].saves > 1)
    <3>1. dreq' = [dreq EXCEPT ![r] = [pc |-> "ok", vfs |-> <<>>, saves |-> 0]]
      BY <2>2 DEF DriveWrite, DriveAnswer, DriveAt
    <3> QED BY <1>2, <3>1 DEF DriveInv, DriveTypes, DriveStates
  <2> QED BY <2>1, <2>2
<1>4. DriveTypes'
  BY <1>1, <1>2, <1>3 DEF DriveInv, DriveTypes
<1>5. r \in InSection /\ InSection = {r}
  <2>1. r \in InSection
    BY <1>1 DEF InSection, Saving
  <2> QED BY <2>1 DEF DriveInv, OneAtATime
<1>6. InSection' \in SUBSET {r}
  BY <1>3, <1>5 DEF InSection, Saving
<1>7. OneAtATime'
  BY <1>1, <1>5, <1>6 DEF DriveInv, OneAtATime
<1>8. KeptIn(dreq[r].vfs) /\ InTree(dreq[r].vfs, r)
  BY <1>5 DEF DriveInv, AllKept
<1>9. KeptIn(drive)'
  <2>1. ASSUME NEW v, v = dreq[r].vfs PROVE KeptIn(v)'
    <3>1. \A q \in DriveIds \ beside : dreq'[q].pc = "ok" => InTree(v, q)
      <4> TAKE q \in DriveIds \ beside
      <4>1. CASE q = r
        BY <1>8, <2>1, <4>1
      <4>2. CASE q # r
        BY <1>3, <1>8, <2>1, <4>2 DEF KeptIn
      <4> QED BY <4>1, <4>2
    <3> QED BY <1>1, <3>1 DEF KeptIn, InTree, IsFile
  <2> QED BY <1>1, <2>1
<1>10. AllKept'
  <2>1. \A q \in InSection' : KeptIn(dreq[q].vfs)' /\ InTree(dreq[q].vfs, q)'
    <3> TAKE q \in InSection'
    <3>1. q = r /\ dreq'[r].vfs = drive'
      BY <1>1, <1>3, <1>6 DEF InSection, Saving
    <3>2. InTree(drive, q)'
      BY <1>1, <1>8, <3>1 DEF InTree, IsFile
    <3> QED BY <1>9, <3>1, <3>2
  <2>2. ASSUME script.pc \in Saving PROVE KeptIn(script.vfs)'
    <3>1. r \in beside /\ KeptIn(script.vfs)
      BY <1>5, <2>2 DEF DriveInv, OneAtATime, AllKept
    <3> QED BY <1>1, <1>3, <3>1 DEF KeptIn, InTree, IsFile
  <2> QED BY <1>1, <1>9, <2>1, <2>2 DEF AllKept
<1>11. BrokenKnown'
  BY <1>2 DEF BrokenKnown
<1> QED BY <1>4, <1>7, <1>10, <1>11 DEF DriveInv

LEMMA DriveCrashInv ==
  ASSUME DriveInv, DriveCrash
  PROVE  DriveInv'
<1>1. /\ UNCHANGED <<drive, script, beside>> /\ driveFaults' = driveFaults + 1
      /\ dreq' = [q \in DriveIds |-> IF dreq[q].pc \in Saving \union {"uploaded"} THEN DriveAt("error") ELSE dreq[q]]
  BY DEF DriveCrash, DriveFault
<1>2. DriveAt("error").pc = "error" /\ DriveAt("error") \in [pc : DriveStates, vfs : Tree, saves : Int]
  BY DEF DriveAt, DriveStates, Tree
<1> HIDE DEF Tree
<1>3. DriveTypes'
  BY <1>1, <1>2 DEF DriveInv, DriveTypes
<1>4. \A q \in DriveIds : (dreq'[q] = dreq[q] /\ dreq[q].pc \notin Saving) \/ dreq'[q].pc = "error"
  BY <1>1, <1>2
<1>5. InSection' = {}
  BY <1>4 DEF InSection, Saving
<1>6. OneAtATime'
  BY <1>5 DEF OneAtATime
<1>7. ASSUME NEW v, KeptIn(v) PROVE KeptIn(v)'
  <2>1. \A q \in DriveIds : dreq'[q].pc = "ok" => dreq[q].pc = "ok"
    BY <1>4
  <2> QED BY <1>1, <1>7, <2>1 DEF KeptIn, InTree, IsFile
<1>8. AllKept'
  BY <1>1, <1>5, <1>7 DEF DriveInv, AllKept
<1>9. BrokenKnown'
  BY <1>1 DEF DriveInv, DriveTypes, BrokenKnown
<1> QED BY <1>3, <1>6, <1>8, <1>9 DEF DriveInv

\* A step of the script: what it will write extends a tree that kept everything.
LEMMA ScriptSteps ==
  ASSUME DriveInv, UNCHANGED dreq, DriveTypes', beside \in SUBSET beside',
         script'.pc \in Saving => /\ InSection \in SUBSET beside'
                                  /\ \E v \in Tree : KeptIn(v) /\ Extends(v, script'.vfs),
         drive' \in {drive, Broken} \/ (drive' \in Tree /\ KeptIn(drive')),
         drive' = Broken => (drive = Broken /\ script.pc # "write") \/ script'.pc = "write" \/ driveFaults' > 0,
         driveFaults > 0 => driveFaults' > 0
  PROVE  DriveInv'
<1> HIDE DEF Tree
<1>1. InSection' = InSection
  BY DEF InSection
<1>2. OneAtATime'
  BY <1>1 DEF DriveInv, OneAtATime
<1>3. ASSUME NEW v, KeptIn(v) PROVE KeptIn(v)'
  BY <1>3 DEF KeptIn, InTree, IsFile
<1>4. (drive # Broken => KeptIn(drive))'
  <2>1. drive' # Broken => KeptIn(drive')
    BY DEF DriveInv, AllKept
  <2> QED BY <1>3, <2>1
<1>5. ASSUME script'.pc \in Saving PROVE KeptIn(script.vfs)'
  <2>1. PICK v \in Tree : KeptIn(v) /\ Extends(v, script'.vfs)
    BY <1>5
  <2>2. script'.vfs \in Tree
    BY DEF DriveTypes
  <2>3. KeptIn(script'.vfs)
    BY <2>1, <2>2, InTreeStays DEF KeptIn
  <2> QED BY <1>3, <2>3
<1>6. AllKept'
  BY <1>1, <1>3, <1>4, <1>5 DEF DriveInv, AllKept, InTree, IsFile
<1>7. BrokenKnown'
  BY DEF DriveInv, BrokenKnown
<1> QED BY <1>2, <1>6, <1>7 DEF DriveInv

LEMMA ScriptLoadInv ==
  ASSUME DriveInv, ScriptLoad
  PROVE  DriveInv'
<1>1. UNCHANGED <<drive, dreq, driveFaults>> /\ script.pc = "new" /\ beside' = beside \union InSection
  BY DEF ScriptLoad
<1> HIDE DEF Tree
<1>2. InSection \in SUBSET DriveIds /\ beside \in SUBSET beside' /\ beside' \in SUBSET DriveIds
  BY <1>1 DEF InSection, DriveInv, DriveTypes
<1>3. CASE drive = Broken
  <2>1. script' = [script EXCEPT !.pc = "died"]
    BY <1>3 DEF ScriptLoad
  <2>2. script'.pc = "died"
    BY <2>1 DEF DriveInv, DriveTypes
  <2>3. DriveTypes'
    BY <1>1, <1>2, <2>1 DEF DriveInv, DriveTypes, ScriptStates
  <2>4. script'.pc \notin Saving
    BY <2>2 DEF Saving
  <2> QED BY <1>1, <1>2, <2>3, <2>4, ScriptSteps
<1>4. CASE drive # Broken
  <2>1. PICK path \in Seq(STRING) \ {<<>>}, rest \in Seq(Seq(STRING) \ {<<>>}) :
          path = Head(DrivePaths) /\ rest = Tail(DrivePaths)
    <3> DEFINE Paths == Seq(STRING) \ {<<>>}
    <3>1. DrivePaths \in Seq(Paths) /\ DrivePaths # <<>>
      BY DriveConstants
    <3> HIDE DEF Paths
    <3>2. Head(DrivePaths) \in Paths /\ Tail(DrivePaths) \in Seq(Paths)
      BY <3>1
    <3> QED BY <3>2, Zenon DEF Paths
  <2>2. PICK n \in Int : n = Len(DrivePaths) + 1
    BY DriveConstants
  <2>3. drive \in Tree /\ KeptIn(drive)
    BY <1>4 DEF DriveInv, DriveTypes, AllKept
  <2>4. PICK w \in Tree : w = AddFolder(drive, path) /\ Extends(drive, w)
    BY <2>3, AddFolderIs
  <2>5. script' = [pc |-> "truncate", vfs |-> w, saves |-> n, todo |-> rest]
    BY <1>4, <2>1, <2>2, <2>4, Zenon DEF ScriptLoad
  <2>6. DriveTypes'
    BY <1>1, <1>2, <2>5 DEF DriveInv, DriveTypes, ScriptStates
  <2>7. script'.vfs = w
    BY <2>5
  <2> QED BY <1>1, <1>2, <1>4, <2>3, <2>4, <2>6, <2>7, ScriptSteps
<1> QED BY <1>3, <1>4

LEMMA ScriptTruncateInv ==
  ASSUME DriveInv, ScriptTruncate
  PROVE  DriveInv'
<1>1. /\ UNCHANGED <<dreq, driveFaults, beside>> /\ script.pc \in Saving
      /\ drive' = Broken /\ script' = [script EXCEPT !.pc = "write"]
  BY DEF ScriptTruncate, Saving
<1> HIDE DEF Tree
<1>2. DriveTypes' /\ script'.pc = "write" /\ script'.vfs = script.vfs
  BY <1>1 DEF DriveInv, DriveTypes, ScriptStates
<1>3. script.vfs \in Tree /\ KeptIn(script.vfs) /\ Extends(script.vfs, script'.vfs) /\ InSection \in SUBSET beside
  BY <1>1, <1>2, ExtendsSelf DEF DriveInv, DriveTypes, AllKept, OneAtATime
<1> QED BY <1>1, <1>2, <1>3, ScriptSteps

LEMMA ScriptWriteInv ==
  ASSUME DriveInv, ScriptWrite
  PROVE  DriveInv'
<1>1. UNCHANGED <<dreq, driveFaults, beside>> /\ script.pc \in Saving /\ drive' = script.vfs
  BY DEF ScriptWrite, Saving
<1> HIDE DEF Tree
<1>2. /\ script \in [pc : ScriptStates, vfs : Tree, saves : Int, todo : Seq(Seq(STRING) \ {<<>>})]
      /\ script.vfs \in Tree /\ KeptIn(script.vfs) /\ InSection \in SUBSET beside
  BY <1>1 DEF DriveInv, DriveTypes, AllKept, OneAtATime
<1>3. PICK answer \in {"truncate", "done"} : answer = IF script.saves > 1 THEN "truncate" ELSE "done"
  OBVIOUS
<1>4. PICK w \in Tree : w = (IF script.todo = <<>> THEN script.vfs ELSE AddFile(script.vfs, Head(script.todo))) /\ Extends(script.vfs, w)
  <2>1. CASE script.todo = <<>>
    BY <1>2, <2>1, ExtendsSelf
  <2>2. CASE script.todo # <<>>
    <3>1. Head(script.todo) \in Seq(STRING) \ {<<>>}
      BY <1>2, <2>2
    <3> QED BY <1>2, <2>2, <3>1, AddFileIs
  <2> QED BY <2>1, <2>2
<1>5. PICK rest \in Seq(Seq(STRING) \ {<<>>}) : rest = IF script.todo = <<>> THEN <<>> ELSE Tail(script.todo)
  <2>1. script.todo \in Seq(Seq(STRING) \ {<<>>})
    BY <1>2
  <2>2. script.todo # <<>> => Tail(script.todo) \in Seq(Seq(STRING) \ {<<>>})
    BY <2>1
  <2>3. <<>> \in Seq(Seq(STRING) \ {<<>>})
    OBVIOUS
  <2> QED BY <2>2, <2>3, Zenon
<1>6. PICK n \in Int : n = script.saves - 1
  BY <1>2
<1>7. script' = [pc |-> answer, vfs |-> w, saves |-> n, todo |-> rest]
  BY <1>3, <1>4, <1>5, <1>6, Zenon DEF ScriptWrite
<1>8. DriveTypes'
  BY <1>1, <1>2, <1>7 DEF DriveInv, DriveTypes, ScriptStates
<1>9. drive' # Broken /\ script'.vfs = w
  BY <1>1, <1>2, <1>7, BrokenIsNoTree
<1> QED BY <1>1, <1>2, <1>4, <1>8, <1>9, ScriptSteps

LEMMA ScriptDiesInv ==
  ASSUME DriveInv, ScriptDies
  PROVE  DriveInv'
<1>1. /\ UNCHANGED <<drive, dreq, beside>> /\ driveFaults' = driveFaults + 1
      /\ script' = [script EXCEPT !.pc = "died", !.vfs = <<>>]
  BY DEF ScriptDies, DriveFault
<1>2. <<>> \in Tree
  BY DEF Tree
<1> HIDE DEF Tree
<1>3. DriveTypes' /\ script'.pc = "died" /\ driveFaults' > 0
  <2>1. script \in [pc : ScriptStates, vfs : Tree, saves : Int, todo : Seq(Seq(STRING) \ {<<>>})]
    BY DEF DriveInv, DriveTypes
  <2>2. "died" \in ScriptStates
    BY DEF ScriptStates
  <2>3. script' \in [pc : ScriptStates, vfs : Tree, saves : Int, todo : Seq(Seq(STRING) \ {<<>>})]
    BY <1>1, <1>2, <2>1, <2>2, Zenon
  <2>4. script'.pc = "died"
    BY <1>1, <2>1
  <2> QED BY <1>1, <2>3, <2>4 DEF DriveInv, DriveTypes
<1>4. script'.pc \notin Saving
  BY <1>3 DEF Saving
<1> QED BY <1>1, <1>3, <1>4, ScriptSteps

LEMMA DriveKeepsAll == DriveInv => DriveKept
<1> SUFFICES ASSUME DriveInv PROVE DriveKept
  OBVIOUS
<1>1. drive # Broken => \A r \in DriveIds \ beside : dreq[r].pc = "ok" => InTree(drive, r)
  BY DEF DriveInv, AllKept, KeptIn
<1>2. drive = Broken => "write" \in {dreq[r].pc : r \in DriveIds} \union {script.pc} \/ driveFaults > 0
  BY DEF DriveInv, BrokenKnown
<1> QED BY <1>1, <1>2 DEF DriveKept

\* The invariant of the drive's file: the server changes it for one request at a time, and
\* whatever a request or the script is about to write holds what was answered before
\* (app/api/fs/add-file/route.ts:63, utils/saveVirtualFs.ts:13).
THEOREM DriveInvariant == DriveSpec => []DriveInv
<1>1. DriveInit => DriveInv
  BY DriveInitInv
<1>2. DriveInv /\ [DriveNext]_drVars => DriveInv'
  <2> SUFFICES ASSUME DriveInv, [DriveNext]_drVars PROVE DriveInv'
    OBVIOUS
  <2>1. ASSUME NEW r \in DriveIds, DriveUpload(r) PROVE DriveInv'
    <3>1. PICK answer \in {"uploaded", "warned", "error"} : DriveAnswer(r, answer)
      BY <2>1 DEF DriveUpload
    <3>2. UNCHANGED <<drive, script, driveFaults, beside>> /\ dreq[r].pc # "write"
      BY <2>1 DEF DriveUpload
    <3>3. driveFaults' \in Nat
      BY <3>2 DEF DriveInv, DriveTypes
    <3> QED BY <3>1, <3>2, <3>3, DriveAnswers
  <2>2. ASSUME NEW r \in DriveIds, DriveSaveFails(r) PROVE DriveInv'
    <3>1. \E answer \in {"uploaded", "warned", "error"} : DriveAnswer(r, answer)
      <4>1. DriveAnswer(r, IF IsFile(r) THEN "warned" ELSE "error")
        BY <2>2 DEF DriveSaveFails
      <4> QED BY <4>1
    <3>2. UNCHANGED <<drive, script, beside>> /\ driveFaults' = driveFaults + 1
      BY <2>2 DEF DriveSaveFails, DriveFault
    <3>3. driveFaults' \in Nat /\ driveFaults' > 0
      BY <3>2 DEF DriveInv, DriveTypes
    <3> QED BY <3>1, <3>2, <3>3, DriveAnswers
  <2>3. CASE DriveNext
    BY <2>1, <2>2, <2>3, DriveLoadInv, DriveTruncateInv, DriveWriteInv, DriveCrashInv,
       ScriptLoadInv, ScriptTruncateInv, ScriptWriteInv, ScriptDiesInv DEF DriveNext
  <2>4. CASE UNCHANGED drVars
    BY <2>4 DEF drVars, DriveInv, DriveTypes, OneAtATime, AllKept, KeptIn, BrokenKnown, InSection, InTree, IsFile
  <2> QED BY <2>3, <2>4
<1> QED BY <1>1, <1>2, PTL DEF DriveSpec

\* DriveKept for any requests, paths and faults: what the server answered with success
\* is in the file, and the file can be read unless a save is in progress or was cut off.
THEOREM DriveKeepsWhatItAnswered == DriveSpec => []DriveKept
BY DriveInvariant, DriveKeepsAll, PTL
=============================================================================
