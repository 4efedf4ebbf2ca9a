-------------------------- MODULE P2PForwardProofs --------------------------
(***************************************************************************)
(* Proofs about stream forwarding, for any number of addresses, peers,     *)
(* connections and concurrent calls.                                       *)
(***************************************************************************)
EXTENDS P2PForward, FiniteSetTheorems, TLAPS

\* Two calls never own the same socket.
SocketInv ==
  /\ SocketsOwned
  /\ \A f, g \in Forwarders : f # g => faddr[f] \cap faddr[g] = {}
  /\ \A k, l \in Closers : k # l => todo[k] \cap todo[l] = {}
  /\ \A f \in Forwarders, k \in Closers : faddr[f] \cap todo[k] = {}
  /\ \A f \in Forwarders : fpc[f] = "idle" => faddr[f] = {}

\* A stream id is never used again, in the registry or out of it.
IdInv ==
  /\ \A c \in Conns : cst[c] = "open" => sid[c] < nextID
  /\ \A c, d \in Conns : cst[c] = "open" /\ cst[d] = "open" /\ sid[c] = sid[d] => c = d

\* Only an open stream has workers and a place in the registry, and a worker
\* past a close has closed that end.
WorkerInv ==
  /\ \A c \in streams : cst[c] = "open"
  /\ \A c \in Conns : \A w \in Workers :
       /\ wpc[c][w] # "idle" => cst[c] = "open"
       /\ wpc[c][w] \in {"remote", "deregister"} => c \notin lopen
       /\ wpc[c][w] = "deregister" => c \notin ropen

IInv == TypeOK /\ SocketInv /\ IdInv /\ WorkerInv /\ RegistryCounts /\ OpenStreamsListed

LEMMA InitInv == Init => IInv
<1> SUFFICES ASSUME Init PROVE IInv
  OBVIOUS
<1>1. TypeOK
  BY DEF Init, TypeOK, ConnStates
<1>2. SocketInv
  BY DEF Init, SocketInv, SocketsOwned
<1>3. IdInv /\ WorkerInv /\ OpenStreamsListed
  BY DEF Init, IdInv, WorkerInv, OpenStreamsListed
<1>4. RegistryCounts
  <2> SUFFICES ASSUME NEW p \in Peers
               PROVE  /\ conns[p] = Cardinality({c \in streams : cpeer[c] = p})
                      /\ p \in tagged <=> \E c \in streams : cpeer[c] = p
    BY DEF RegistryCounts
  <2>1. {c \in streams : cpeer[c] = p} = {} /\ streams = {}
    BY DEF Init
  <2>2. conns[p] = 0 /\ tagged = {}
    BY DEF Init
  <2> QED BY <2>1, <2>2, FS_EmptySet
<1> QED BY <1>1, <1>2, <1>3, <1>4 DEF IInv

-----------------------------------------------------------------------------
(***************************************************************************)
(* The listeners' steps only touch the sockets.                            *)
(***************************************************************************)

LEMMA ListenStep == IInv /\ ListenNext => IInv'
<1> SUFFICES ASSUME IInv, ListenNext PROVE IInv'
  OBVIOUS
<1> USE DEF IInv
<1>1. UNCHANGED <<connVars, registryVars, wpc>>
  BY DEF ListenNext, ForwardLocalListen, ForwardLocalRegister, ForwardRemote,
         CloseListeners, CloseSocket, CloseProtocols
<1>2. (IdInv /\ WorkerInv /\ RegistryCounts /\ OpenStreamsListed)'
  BY <1>1 DEF IdInv, WorkerInv, RegistryCounts, OpenStreamsListed, connVars, registryVars
<1>3. ASSUME NEW f \in Forwarders, NEW a \in Addrs, ForwardLocalListen(f, a)
      PROVE  (TypeOK /\ SocketInv)'
  <2>1. TypeOK'
    BY <1>3 DEF ForwardLocalListen, TypeOK, connVars, registryVars
  <2>2. faddr[f] = {}
    BY <1>3 DEF ForwardLocalListen, SocketInv
  <2>3. \A g \in Forwarders : a \notin faddr[g]
    BY <1>3 DEF ForwardLocalListen, SocketInv, SocketsOwned
  <2>4. (\A k \in Closers : a \notin todo[k]) /\ a \notin listenersLocal
    BY <1>3 DEF ForwardLocalListen, SocketInv, SocketsOwned
  <2>5. /\ bound' = bound \cup {a}
        /\ faddr'[f] = {a} /\ \A g \in Forwarders \ {f} : faddr'[g] = faddr[g]
        /\ fpc'[f] = "register" /\ \A g \in Forwarders \ {f} : fpc'[g] = fpc[g]
        /\ UNCHANGED <<listenersLocal, todo>>
    BY <1>3 DEF ForwardLocalListen, TypeOK
  <2>7. SocketsOwned'
    BY <2>2, <2>3, <2>4, <2>5 DEF SocketInv, SocketsOwned
  <2> QED BY <2>1, <2>3, <2>4, <2>5, <2>7 DEF SocketInv
<1>4. ASSUME NEW f \in Forwarders, ForwardLocalRegister(f)
      PROVE  (TypeOK /\ SocketInv)'
  <2>1. TypeOK'
    BY <1>4 DEF ForwardLocalRegister, TypeOK, connVars, registryVars
  <2>2. faddr[f] \cap listenersLocal = {}
    BY <1>4 DEF SocketInv, SocketsOwned
  <2>3. /\ listenersLocal' = listenersLocal \cup faddr[f]
        /\ faddr'[f] = {} /\ \A g \in Forwarders \ {f} : faddr'[g] = faddr[g]
        /\ \A g \in Forwarders \ {f} : fpc'[g] = fpc[g]
        /\ UNCHANGED <<bound, todo>>
    BY <1>4, <2>2 DEF ForwardLocalRegister, TypeOK
  <2>5. SocketsOwned'
    <3>1. \A g \in Forwarders : faddr'[g] \cap listenersLocal' = {}
      BY <2>3 DEF SocketInv, SocketsOwned
    <3>2. \A k \in Closers : todo'[k] \cap listenersLocal' = {}
      BY <2>3 DEF SocketInv, SocketsOwned
    <3> QED BY <2>3, <3>1, <3>2 DEF SocketInv, SocketsOwned
  <2> QED BY <2>1, <2>3, <2>5 DEF SocketInv
<1>5. ASSUME NEW k \in Closers, NEW m \in SUBSET listenersLocal, CloseListeners(k, m)
      PROVE  (TypeOK /\ SocketInv)'
  <2>1. TypeOK'
    BY <1>5 DEF CloseListeners, TypeOK, connVars, registryVars
  <2>2. /\ listenersLocal' = listenersLocal \ m
        /\ todo[k] = {} /\ todo'[k] = m /\ \A l \in Closers \ {k} : todo'[l] = todo[l]
        /\ UNCHANGED <<bound, faddr, fpc>>
    BY <1>5 DEF CloseListeners, TypeOK
  <2>4. SocketsOwned'
    <3>1. \A l \in Closers : todo'[l] \cap listenersLocal' = {}
      BY <2>2 DEF SocketInv, SocketsOwned
    <3> QED BY <2>2, <3>1 DEF SocketInv, SocketsOwned
  <2>5. \A i, j \in Closers : i # j => todo'[i] \cap todo'[j] = {}
    BY <2>2 DEF SocketInv, SocketsOwned
  <2>6. \A f \in Forwarders, l \in Closers : faddr'[f] \cap todo'[l] = {}
    BY <2>2 DEF SocketInv, SocketsOwned
  <2> QED BY <2>1, <2>2, <2>4, <2>5, <2>6 DEF SocketInv
<1>6. ASSUME NEW k \in Closers, NEW a \in Addrs, CloseSocket(k, a)
      PROVE  (TypeOK /\ SocketInv)'
  <2>1. TypeOK'
    BY <1>6 DEF CloseSocket, TypeOK, connVars, registryVars
  <2>2. /\ bound' = bound \ {a}
        /\ a \in todo[k] /\ todo'[k] = todo[k] \ {a}
        /\ \A l \in Closers \ {k} : todo'[l] = todo[l]
        /\ UNCHANGED <<listenersLocal, faddr, fpc>>
    BY <1>6 DEF CloseSocket, TypeOK
  <2>3. /\ a \notin listenersLocal
        /\ \A f \in Forwarders : a \notin faddr[f]
        /\ \A l \in Closers \ {k} : a \notin todo[l]
    BY <2>2 DEF SocketInv, SocketsOwned
  <2>5. SocketsOwned'
    BY <2>2, <2>3 DEF SocketInv, SocketsOwned
  <2> QED BY <2>1, <2>2, <2>5 DEF SocketInv
<1>7. ASSUME NEW p \in Protos, ForwardRemote(p)
      PROVE  (TypeOK /\ SocketInv)'
  BY <1>7 DEF ForwardRemote, TypeOK, SocketInv, SocketsOwned, connVars, registryVars
<1>8. ASSUME NEW m \in SUBSET listenersP2P, CloseProtocols(m)
      PROVE  (TypeOK /\ SocketInv)'
  BY <1>8 DEF CloseProtocols, TypeOK, SocketInv, SocketsOwned, connVars, registryVars
<1> QED BY <1>2, <1>3, <1>4, <1>5, <1>6, <1>7, <1>8 DEF ListenNext

-----------------------------------------------------------------------------
(***************************************************************************)
(* Setting a stream up.                                                    *)
(***************************************************************************)

LEMMA SetupStep == IInv /\ SetupNext => IInv'
<1> SUFFICES ASSUME IInv, NEW c \in Conns,
                    \/ \E a \in Addrs : AcceptConn(c, a)
                    \/ SetupStream(c) \/ MatchStream(c) \/ DispatchStream(c)
                    \/ HandleStream(c) \/ ReportRemote(c) \/ Register(c)
             PROVE  IInv'
  BY DEF SetupNext
<1> USE DEF IInv
<1>1. SocketInv'
  BY DEF SocketInv, SocketsOwned, AcceptConn, SetupStream, MatchStream, DispatchStream,
         HandleStream, ReportRemote, Register, listenVars
<1>2. CASE \/ \E a \in Addrs : AcceptConn(c, a)
           \/ SetupStream(c) \/ MatchStream(c) \/ DispatchStream(c)
           \/ HandleStream(c) \/ ReportRemote(c)
  <2>1. /\ UNCHANGED <<listenVars, registryVars, cpeer, cproto, wpc>>
        /\ cst[c] # "open" /\ cst'[c] # "open"
        /\ cst' \in [Conns -> ConnStates]
        /\ \A d \in Conns \ {c} : cst'[d] = cst[d]
        /\ lopen' \subseteq Conns /\ ropen' \subseteq Conns
        /\ lopen' \ {c} = lopen \ {c} /\ ropen' \ {c} = ropen \ {c}
    BY <1>2 DEF AcceptConn, SetupStream, MatchStream, DispatchStream, HandleStream,
                ReportRemote, TypeOK, ConnStates
  <2>2. TypeOK'
    BY <2>1 DEF TypeOK, listenVars, registryVars
  <2>3. IdInv' /\ RegistryCounts'
    BY <2>1 DEF IdInv, RegistryCounts, registryVars
  <2>4. WorkerInv'
    BY <2>1 DEF WorkerInv, TypeOK, registryVars
  <2>5. OpenStreamsListed'
    BY <2>1 DEF OpenStreamsListed, registryVars
  <2> QED BY <1>1, <2>2, <2>3, <2>4, <2>5
<1>3. CASE Register(c)
  <2>1. /\ cst[c] = "register" /\ cst' = [cst EXCEPT ![c] = "open"]
        /\ tagged' = tagged \cup {cpeer[c]}
        /\ conns' = [conns EXCEPT ![cpeer[c]] = @ + 1]
        /\ sid' = [sid EXCEPT ![c] = nextID]
        /\ streams' = streams \cup {c}
        /\ nextID' = nextID + 1
        /\ wpc' = [wpc EXCEPT ![c] = [in |-> "copy", out |-> "copy", cmd |-> "idle"]]
        /\ UNCHANGED <<listenVars, cpeer, cproto, lopen, ropen>>
    BY <1>3 DEF Register
  <2>2. c \notin streams
    BY <2>1 DEF WorkerInv
  <2>3. TypeOK'
    <3>1. [in |-> "copy", out |-> "copy", cmd |-> "idle"]
            \in [Workers -> {"idle", "copy", "local", "remote", "deregister", "done"}]
      BY DEF Workers
    <3>2. wpc' \in [Conns -> [Workers -> {"idle", "copy", "local", "remote", "deregister", "done"}]]
      BY <2>1, <3>1 DEF TypeOK
    <3> QED BY <2>1, <3>2 DEF TypeOK, ConnStates, listenVars
  <2>4. IdInv'
    BY <2>1, <2>2 DEF IdInv, TypeOK
  <2>5. WorkerInv'
    <3>1. \A w \in Workers : wpc'[c][w] \in {"copy", "idle"}
      BY <2>1 DEF TypeOK, Workers
    <3> QED BY <2>1, <3>1 DEF WorkerInv, TypeOK
  <2>6. OpenStreamsListed'
    BY <2>1 DEF OpenStreamsListed, TypeOK
  <2>7. RegistryCounts'
    <3> SUFFICES ASSUME NEW p \in Peers
                 PROVE  /\ conns'[p] = Cardinality({d \in streams' : cpeer'[d] = p})
                        /\ p \in tagged' <=> \E d \in streams' : cpeer'[d] = p
      BY DEF RegistryCounts
    <3> DEFINE Old == {d \in streams : cpeer[d] = p}
    <3>1. IsFiniteSet(Old)
      BY FS_Subset, ConnsAssumption DEF TypeOK
    <3>2. conns[p] = Cardinality(Old) /\ (p \in tagged <=> \E d \in streams : cpeer[d] = p)
      BY DEF RegistryCounts
    <3>3. CASE cpeer[c] = p
      <4>1. {d \in streams' : cpeer'[d] = p} = Old \cup {c}
        BY <2>1, <3>3
      <4>2. Cardinality(Old \cup {c}) = Cardinality(Old) + 1
        BY <2>2, <3>1, FS_AddElement
      <4>3. conns'[p] = conns[p] + 1
        BY <2>1, <3>3 DEF TypeOK
      <4> QED BY <2>1, <3>2, <3>3, <4>1, <4>2, <4>3
    <3>4. CASE cpeer[c] # p
      <4>1. {d \in streams' : cpeer'[d] = p} = Old
        BY <2>1, <3>4
      <4>2. conns'[p] = conns[p]
        BY <2>1, <3>4 DEF TypeOK
      <4> QED BY <2>1, <3>2, <3>4, <4>1, <4>2
    <3> QED BY <3>3, <3>4
  <2> QED BY <1>1, <2>3, <2>4, <2>5, <2>6, <2>7
<1> QED BY <1>2, <1>3

-----------------------------------------------------------------------------
(***************************************************************************)
(* Ending a stream.  The step that could go wrong is a second Deregister   *)
(* of the same stream: its id is no longer in the map.                     *)
(***************************************************************************)

LEMMA EndStep == IInv /\ EndNext => IInv'
<1> SUFFICES ASSUME IInv, NEW c \in Conns, NEW w \in Workers,
                    \/ StreamClose(c) \/ CopyEOF(c, w) \/ CopyBroken(c, w)
                    \/ CloseLocal(c, w) \/ CloseRemote(c, w) \/ Deregister(c, w)
             PROVE  IInv'
  BY DEF EndNext, WorkerStep, Workers
<1> USE DEF IInv
<1>1. SocketInv'
  BY DEF SocketInv, SocketsOwned, StreamClose, CopyEOF, CopyBroken, CloseLocal,
         CloseRemote, Deregister, listenVars
<1>2. CASE StreamClose(c) \/ CopyEOF(c, w) \/ CopyBroken(c, w)
  <2>1. PICK v \in Workers :
          /\ wpc[c][v] # "idle" \/ c \in streams
          /\ wpc' = [wpc EXCEPT ![c][v] = "local"]
          /\ UNCHANGED <<listenVars, connVars, registryVars>>
    BY <1>2 DEF StreamClose, CopyEOF, CopyBroken, WGoTo, Workers
  <2>2. TypeOK'
    BY <2>1 DEF TypeOK, listenVars, connVars, registryVars
  <2>3. WorkerInv'
    BY <2>1 DEF WorkerInv, TypeOK, connVars, registryVars
  <2>4. (IdInv /\ RegistryCounts /\ OpenStreamsListed)'
    BY <2>1 DEF IdInv, RegistryCounts, OpenStreamsListed, connVars, registryVars
  <2> QED BY <1>1, <2>2, <2>3, <2>4
<1>3. CASE CloseLocal(c, w)
  <2>1. /\ wpc[c][w] = "local" /\ lopen' = lopen \ {c}
        /\ wpc' = [wpc EXCEPT ![c][w] = "remote"]
        /\ UNCHANGED <<listenVars, cst, cpeer, cproto, ropen, registryVars>>
    BY <1>3 DEF CloseLocal, WGoTo
  <2>2. TypeOK'
    BY <2>1 DEF TypeOK, listenVars, registryVars
  <2>3. WorkerInv'
    BY <2>1 DEF WorkerInv, TypeOK, registryVars
  <2>4. (IdInv /\ RegistryCounts /\ OpenStreamsListed)'
    BY <2>1 DEF IdInv, RegistryCounts, OpenStreamsListed, registryVars
  <2> QED BY <1>1, <2>2, <2>3, <2>4
<1>4. CASE CloseRemote(c, w)
  <2>1. /\ wpc[c][w] = "remote" /\ ropen' = ropen \ {c}
        /\ wpc' = [wpc EXCEPT ![c][w] = "deregister"]
        /\ UNCHANGED <<listenVars, cst, cpeer, cproto, lopen, registryVars>>
    BY <1>4 DEF CloseRemote, WGoTo
  <2>2. TypeOK'
    BY <2>1 DEF TypeOK, listenVars, registryVars
  <2>3. WorkerInv'
    BY <2>1 DEF WorkerInv, TypeOK, registryVars
  <2>4. (IdInv /\ RegistryCounts /\ OpenStreamsListed)'
    BY <2>1 DEF IdInv, RegistryCounts, OpenStreamsListed, registryVars
  <2> QED BY <1>1, <2>2, <2>3, <2>4
<1>5. CASE Deregister(c, w)
  <2>1. /\ wpc[c][w] = "deregister"
        /\ wpc' = [wpc EXCEPT ![c][w] = "done"]
        /\ UNCHANGED <<listenVars, connVars, sid, nextID>>
        /\ streams' \subseteq streams
    BY <1>5 DEF Deregister, WGoTo, Forget
  <2>2. WorkerInv' /\ IdInv'
    BY <2>1 DEF WorkerInv, IdInv, TypeOK, connVars
  <2>3. CASE \A d \in streams : sid[d] # sid[c]
    <3>1. UNCHANGED <<streams, conns, tagged>>
      BY <1>5, <2>3 DEF Deregister
    <3>2. TypeOK'
      BY <2>1, <3>1 DEF TypeOK, listenVars, connVars
    <3>3. (RegistryCounts /\ OpenStreamsListed)'
      BY <2>1, <3>1 DEF RegistryCounts, OpenStreamsListed, connVars
    <3> QED BY <1>1, <2>2, <3>2, <3>3
  <2>4. ASSUME NEW d \in streams, sid[d] = sid[c], Forget(d)
        PROVE  IInv'
    <3>1. \A p \in Peers :
            /\ conns'[p] = Cardinality({e \in streams' : cpeer'[e] = p})
            /\ conns'[p] \in Nat
            /\ p \in tagged' <=> \E e \in streams' : cpeer'[e] = p
      <4> TAKE p \in Peers
      <4> DEFINE Old == {e \in streams : cpeer[e] = p}
      <4>1. IsFiniteSet(Old)
        BY FS_Subset, ConnsAssumption DEF TypeOK
      <4>2. conns[p] = Cardinality(Old) /\ (p \in tagged <=> \E e \in streams : cpeer[e] = p)
        BY DEF RegistryCounts
      <4>3. CASE cpeer[d] = p
        <5>1. {e \in streams' : cpeer'[e] = p} = Old \ {d}
          BY <2>1, <2>4, <4>3 DEF Forget, connVars
        <5>2. d \in Old
          BY <4>3
        <5>3. Cardinality(Old \ {d}) = Cardinality(Old) - 1 /\ IsFiniteSet(Old \ {d})
          BY <4>1, <5>2, FS_RemoveElement
        <5>4. Cardinality(Old \ {d}) \in Nat /\ (Cardinality(Old \ {d}) = 0 <=> Old \ {d} = {})
          BY <5>3, FS_CardinalityType, FS_EmptySet
        <5>5. conns'[p] = conns[p] - 1
          BY <2>4, <4>3 DEF Forget, TypeOK
        <5>6. p \in tagged' <=> ~(conns[p] - 1 < 1)
          BY <2>4, <4>2, <4>3, <5>2 DEF Forget, TypeOK
        <5>7. (\E e \in streams' : cpeer'[e] = p) <=> Old \ {d} # {}
          BY <5>1
        <5>8. conns[p] - 1 = Cardinality(Old \ {d})
          BY <4>2, <5>3
        <5>9. conns[p] - 1 < 1 <=> Old \ {d} = {}
          BY <5>4, <5>8
        <5> HIDE DEF Old
        <5> QED BY <5>1, <5>4, <5>5, <5>6, <5>7, <5>8, <5>9
      <4>4. CASE cpeer[d] # p
        <5>1. {e \in streams' : cpeer'[e] = p} = Old
          BY <2>1, <2>4, <4>4 DEF Forget, connVars
        <5>2. conns'[p] = conns[p]
          BY <2>4, <4>4 DEF Forget, TypeOK
        <5>3. p \in tagged' <=> p \in tagged
          BY <2>4, <4>4 DEF Forget
        <5>4. (\E e \in streams' : cpeer'[e] = p) <=> (\E e \in streams : cpeer[e] = p)
          BY <5>1
        <5> QED BY <4>2, <5>1, <5>2, <5>3, <5>4 DEF TypeOK
      <4> QED BY <4>3, <4>4
    <3>2. TypeOK'
      <4>1. conns' \in [Peers -> Nat]
        <5>1. conns' = [p \in Peers |-> conns'[p]]
          BY <2>4 DEF Forget, TypeOK
        <5> QED BY <3>1, <5>1
      <4>2. tagged' \subseteq Peers
        BY <2>4 DEF Forget, TypeOK
      <4> QED BY <2>1, <4>1, <4>2 DEF TypeOK, listenVars, connVars
    <3>3. OpenStreamsListed'
      <4>1. c = d
        BY <2>1, <2>4 DEF IdInv, WorkerInv, TypeOK
      <4>2. c \notin lopen \cup ropen
        BY <2>1 DEF WorkerInv
      <4> QED BY <2>1, <2>4, <4>1, <4>2 DEF OpenStreamsListed, Forget, connVars
    <3> QED BY <1>1, <2>2, <3>1, <3>2, <3>3 DEF RegistryCounts
  <2> QED BY <1>5, <2>3, <2>4 DEF Deregister
<1> QED BY <1>2, <1>3, <1>4, <1>5

-----------------------------------------------------------------------------
\* The inductive invariant holds in every reachable state.
THEOREM Invariance == Spec => []IInv
<1>1. ASSUME IInv, UNCHANGED vars PROVE IInv'
  <2> USE <1>1 DEF IInv, vars, listenVars, connVars, registryVars
  <2>1. TypeOK'
    BY DEF TypeOK
  <2>2. SocketInv'
    BY DEF SocketInv, SocketsOwned
  <2>3. IdInv' /\ WorkerInv'
    BY DEF IdInv, WorkerInv
  <2>4. RegistryCounts' /\ OpenStreamsListed'
    BY DEF RegistryCounts, OpenStreamsListed
  <2> QED BY <2>1, <2>2, <2>3, <2>4
<1>2. IInv /\ [Next]_vars => IInv'
  BY <1>1, ListenStep, SetupStep, EndStep DEF Next
<1> QED BY <1>2, InitInv, PTL DEF Spec

\* Every variable of the forwarding service keeps its type; in particular no
\* peer's stream count becomes negative.
THEOREM TypeCorrect == Spec => []TypeOK
BY Invariance, PTL DEF IInv

\* Every listening socket has one owner.
THEOREM SocketsSafe == Spec => []SocketsOwned
BY Invariance, PTL DEF IInv, SocketInv

\* The registry's counts and tags are those of its streams.
THEOREM RegistrySafe == Spec => []RegistryCounts
BY Invariance, PTL DEF IInv

\* A stream that has left the registry has both ends closed.
THEOREM StreamsListed == Spec => []OpenStreamsListed
BY Invariance, PTL DEF IInv
=============================================================================
