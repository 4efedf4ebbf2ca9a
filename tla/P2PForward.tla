----------------------------- MODULE P2PForward -----------------------------
(***************************************************************************)
(* Stream forwarding (p2p/): listeners on local sockets and on libp2p      *)
(* protocols, the streams they set up, and the registry of streams with    *)
(* its per-peer count and connection-manager tag.                          *)
(*                                                                         *)
(* A connection goes through                                               *)
(*   accepted locally:   none -> dial -> register -> open                  *)
(*   incoming:           none -> matched -> dialLocal -> greet             *)
(*                                               -> register -> open       *)
(* and may end as dead (set-up failed) or dropped (its listener was closed *)
(* between the protocol match and the handler).  An open stream has two    *)
(* copiers, and a `p2p stream close` may reset it; each of the three       *)
(* closes both ends and then deregisters.                                  *)
(***************************************************************************)
EXTENDS Integers, FiniteSets

CONSTANTS Addrs,       \* local addresses listeners may be bound to
          Protos,      \* protocol names
          Peers,
          Conns,       \* connections, each used once
          Forwarders,  \* concurrent `p2p forward` calls
          Closers      \* concurrent `p2p close` calls

ASSUME ConnsAssumption == IsFiniteSet(Conns)

VARIABLES bound,       \* addresses with an open listening socket
          listenersLocal, listenersP2P,    \* the two Listeners maps
          fpc, faddr,  \* ForwardLocal calls: where they are, their socket
          todo,        \* Listeners.Close calls: sockets still to be closed
          cst,         \* where each connection is
          cpeer, cproto,
          lopen, ropen,    \* connections whose local, remote end is open
          streams, sid, nextID,    \* StreamRegistry: members, their ids
          conns, tagged,   \* streams per peer; peers with the stream tag
          wpc          \* the copiers and the closing command of a stream

listenVars == <<bound, listenersLocal, listenersP2P, fpc, faddr, todo>>
registryVars == <<streams, sid, nextID, conns, tagged>>
connVars == <<cst, cpeer, cproto, lopen, ropen>>
vars == <<listenVars, connVars, registryVars, wpc>>

Workers == {"in", "out", "cmd"}
ConnStates == {"none", "dial", "matched", "dialLocal", "greet", "register",
               "open", "dead", "dropped"}

TypeOK ==
  /\ bound \subseteq Addrs
  /\ listenersLocal \subseteq Addrs
  /\ listenersP2P \subseteq Protos
  /\ fpc \in [Forwarders -> {"idle", "register"}]
  /\ faddr \in [Forwarders -> SUBSET Addrs]
  /\ todo \in [Closers -> SUBSET Addrs]
  /\ cst \in [Conns -> ConnStates]
  /\ cpeer \in [Conns -> Peers]
  /\ cproto \in [Conns -> Protos]
  /\ lopen \subseteq Conns
  /\ ropen \subseteq Conns
  /\ streams \subseteq Conns
  /\ sid \in [Conns -> Nat]
  /\ nextID \in Nat
  /\ conns \in [Peers -> Nat]
  /\ tagged \subseteq Peers
  /\ wpc \in [Conns -> [Workers -> {"idle", "copy", "local", "remote", "deregister", "done"}]]

Init ==
  /\ bound = {}
  /\ listenersLocal = {}
  /\ listenersP2P = {}
  /\ fpc = [f \in Forwarders |-> "idle"]
  /\ faddr = [f \in Forwarders |-> {}]
  /\ todo = [k \in Closers |-> {}]
  /\ cst = [c \in Conns |-> "none"]
  /\ cpeer \in [Conns -> Peers]
  /\ cproto \in [Conns -> Protos]
  /\ lopen = {}
  /\ ropen = {}
  /\ streams = {}
  /\ sid = [c \in Conns |-> 0]
  /\ nextID = 0
  /\ conns = [p \in Peers |-> 0]
  /\ tagged = {}
  /\ wpc = [c \in Conns |-> [w \in Workers |-> "idle"]]

-----------------------------------------------------------------------------
(***************************************************************************)
(* Listeners.                                                              *)
(***************************************************************************)

\* ForwardLocal, first half: bind the socket (an address in use is refused).
ForwardLocalListen(f, a) ==
  /\ fpc[f] = "idle"
  /\ a \notin bound
  /\ bound' = bound \cup {a}
  /\ fpc' = [fpc EXCEPT ![f] = "register"]
  /\ faddr' = [faddr EXCEPT ![f] = {a}]
  /\ UNCHANGED <<listenersLocal, listenersP2P, todo, connVars, registryVars, wpc>>

\* Second half: register it under its address and start accepting.  If the
\* address is already registered the call fails, and the socket stays open.
ForwardLocalRegister(f) ==
  /\ fpc[f] = "register"
  /\ listenersLocal' = IF faddr[f] \cap listenersLocal = {}
                       THEN listenersLocal \cup faddr[f] ELSE listenersLocal
  /\ fpc' = [fpc EXCEPT ![f] = "idle"]
  /\ faddr' = [faddr EXCEPT ![f] = {}]
  /\ UNCHANGED <<bound, listenersP2P, todo, connVars, registryVars, wpc>>

ForwardRemote(p) ==
  /\ p \notin listenersP2P
  /\ listenersP2P' = listenersP2P \cup {p}
  /\ UNCHANGED <<bound, listenersLocal, fpc, faddr, todo, connVars, registryVars, wpc>>

\* Mutant: the listeners stay in the map until their sockets are closed.
CloseListenersLate(k, matched) ==
  /\ todo[k] = {}
  /\ todo' = [todo EXCEPT ![k] = matched]
  /\ UNCHANGED <<bound, listenersLocal, listenersP2P, fpc, faddr, connVars, registryVars, wpc>>

\* Listeners.Close: the matching listeners leave the map under the lock...
CloseListeners(k, matched) ==
  /\ todo[k] = {}
  /\ listenersLocal' = listenersLocal \ matched
  /\ todo' = [todo EXCEPT ![k] = matched]
  /\ UNCHANGED <<bound, listenersP2P, fpc, faddr, connVars, registryVars, wpc>>

\* ... and their sockets are closed after it, one by one.
CloseSocket(k, a) ==
  /\ a \in todo[k]
  /\ bound' = bound \ {a}
  /\ todo' = [todo EXCEPT ![k] = @ \ {a}]
  /\ UNCHANGED <<listenersLocal, listenersP2P, fpc, faddr, connVars, registryVars, wpc>>

\* The same for the protocol listeners, which own no socket.
CloseProtocols(matched) ==
  /\ listenersP2P' = listenersP2P \ matched
  /\ UNCHANGED <<bound, listenersLocal, fpc, faddr, todo, connVars, registryVars, wpc>>

ListenNext ==
  \/ \E f \in Forwarders : (\E a \in Addrs : ForwardLocalListen(f, a)) \/ ForwardLocalRegister(f)
  \/ \E p \in Protos : ForwardRemote(p)
  \/ \E k \in Closers : \/ \E matched \in SUBSET listenersLocal : CloseListeners(k, matched)
                        \/ \E a \in Addrs : CloseSocket(k, a)
  \/ \E matched \in SUBSET listenersP2P : CloseProtocols(matched)

-----------------------------------------------------------------------------
(***************************************************************************)
(* Setting up a stream.                                                    *)
(***************************************************************************)

\* acceptConns takes a connection from a socket that has been registered.
AcceptConn(c, a) ==
  /\ cst[c] = "none"
  /\ a \in bound
  /\ \A f \in Forwarders : a \notin faddr[f]
  /\ cst' = [cst EXCEPT ![c] = "dial"]
  /\ lopen' = lopen \cup {c}
  /\ UNCHANGED <<listenVars, cpeer, cproto, ropen, registryVars, wpc>>

\* setupStream: dial the peer, or close the local end.
SetupStream(c) ==
  /\ cst[c] = "dial"
  /\ \/ cst' = [cst EXCEPT ![c] = "register"] /\ ropen' = ropen \cup {c} /\ UNCHANGED lopen
     \/ cst' = [cst EXCEPT ![c] = "dead"] /\ lopen' = lopen \ {c} /\ UNCHANGED ropen
  /\ UNCHANGED <<listenVars, cpeer, cproto, registryVars, wpc>>

\* An incoming stream whose protocol has a listener.
MatchStream(c) ==
  /\ cst[c] = "none"
  /\ cproto[c] \in listenersP2P
  /\ cst' = [cst EXCEPT ![c] = "matched"]
  /\ ropen' = ropen \cup {c}
  /\ UNCHANGED <<listenVars, cpeer, cproto, lopen, registryVars, wpc>>

\* The handler looks the listener up again, and does nothing if it has gone.
DispatchStream(c) ==
  /\ cst[c] = "matched"
  /\ cst' = [cst EXCEPT ![c] = IF cproto[c] \in listenersP2P THEN "dialLocal" ELSE "dropped"]
  /\ UNCHANGED <<listenVars, cpeer, cproto, lopen, ropen, registryVars, wpc>>

\* handleStream: dial the target, or reset the stream.
HandleStream(c) ==
  /\ cst[c] = "dialLocal"
  /\ \/ cst' = [cst EXCEPT ![c] = "greet"] /\ lopen' = lopen \cup {c} /\ UNCHANGED ropen
     \/ cst' = [cst EXCEPT ![c] = "dead"] /\ ropen' = ropen \ {c} /\ UNCHANGED lopen
  /\ UNCHANGED <<listenVars, cpeer, cproto, registryVars, wpc>>

\* Its second half: report the peer to the target if asked to; on failure the
\* stream is reset (and the connection to the target is left to the runtime).
ReportRemote(c) ==
  /\ cst[c] = "greet"
  /\ \/ cst' = [cst EXCEPT ![c] = "register"] /\ UNCHANGED ropen
     \/ cst' = [cst EXCEPT ![c] = "dead"] /\ ropen' = ropen \ {c}
  /\ UNCHANGED <<listenVars, cpeer, cproto, lopen, registryVars, wpc>>

\* StreamRegistry.Register, which also starts the two copiers.
Register(c) ==
  /\ cst[c] = "register"
  /\ cst' = [cst EXCEPT ![c] = "open"]
  /\ tagged' = tagged \cup {cpeer[c]}
  /\ conns' = [conns EXCEPT ![cpeer[c]] = @ + 1]
  /\ sid' = [sid EXCEPT ![c] = nextID]
  /\ streams' = streams \cup {c}
  /\ nextID' = nextID + 1
  /\ wpc' = [wpc EXCEPT ![c] = [in |-> "copy", out |-> "copy", cmd |-> "idle"]]
  /\ UNCHANGED <<listenVars, cpeer, cproto, lopen, ropen>>

SetupNext ==
  \E c \in Conns :
    \/ \E a \in Addrs : AcceptConn(c, a)
    \/ SetupStream(c) \/ MatchStream(c) \/ DispatchStream(c)
    \/ HandleStream(c) \/ ReportRemote(c) \/ Register(c)

-----------------------------------------------------------------------------
(***************************************************************************)
(* Ending a stream.                                                        *)
(***************************************************************************)

WGoTo(c, w, phase) == wpc' = [wpc EXCEPT ![c][w] = phase]

\* A copier sees the end of its input, or an error from outside.
CopyEOF(c, w) ==
  /\ wpc[c][w] = "copy"
  /\ WGoTo(c, w, "local")
  /\ UNCHANGED <<listenVars, connVars, registryVars>>

\* A copier finds that one of its two ends has been closed here.
CopyBroken(c, w) ==
  /\ wpc[c][w] = "copy"
  /\ c \notin lopen \/ c \notin ropen
  /\ WGoTo(c, w, "local")
  /\ UNCHANGED <<listenVars, connVars, registryVars>>

\* `p2p stream close`: the stream is looked up under the lock, then reset.
StreamClose(c) ==
  /\ c \in streams
  /\ wpc[c]["cmd"] \in {"idle", "done"}
  /\ WGoTo(c, "cmd", "local")
  /\ UNCHANGED <<listenVars, connVars, registryVars>>

\* Mutant: the remote end is left open.
CloseLocalOnly(c, w) ==
  /\ wpc[c][w] = "local"
  /\ lopen' = lopen \ {c}
  /\ WGoTo(c, w, "deregister")
  /\ UNCHANGED <<listenVars, cst, cpeer, cproto, ropen, registryVars>>

\* Close and Reset: the local end, the remote end, the registry.
CloseLocal(c, w) ==
  /\ wpc[c][w] = "local"
  /\ lopen' = lopen \ {c}
  /\ WGoTo(c, w, "remote")
  /\ UNCHANGED <<listenVars, cst, cpeer, cproto, ropen, registryVars>>

\* Mutant: the stream is not deregistered.
CloseRemoteKeep(c, w) ==
  /\ wpc[c][w] = "remote"
  /\ ropen' = ropen \ {c}
  /\ WGoTo(c, w, "done")
  /\ UNCHANGED <<listenVars, cst, cpeer, cproto, lopen, registryVars>>

CloseRemote(c, w) ==
  /\ wpc[c][w] = "remote"
  /\ ropen' = ropen \ {c}
  /\ WGoTo(c, w, "deregister")
  /\ UNCHANGED <<listenVars, cst, cpeer, cproto, lopen, registryVars>>

\* Mutant: the last stream of a peer is not untagged.
ForgetKeepTag(d) ==
  /\ streams' = streams \ {d}
  /\ conns' = [conns EXCEPT ![cpeer[d]] = @ - 1]
  /\ UNCHANGED tagged

\* Take a stream out of the registry: count, tag, map.
Forget(d) ==
  /\ streams' = streams \ {d}
  /\ conns' = [conns EXCEPT ![cpeer[d]] = @ - 1]
  /\ tagged' = IF conns[cpeer[d]] - 1 < 1 THEN tagged \ {cpeer[d]} ELSE tagged

\* Deregister(s.id): nothing happens if the id is not in the map any more.
Deregister(c, w) ==
  /\ wpc[c][w] = "deregister"
  /\ \/ \E d \in streams : sid[d] = sid[c] /\ Forget(d)
     \/ (\A d \in streams : sid[d] # sid[c]) /\ UNCHANGED <<streams, conns, tagged>>
  /\ WGoTo(c, w, "done")
  /\ UNCHANGED <<listenVars, connVars, sid, nextID>>

WorkerStep(c, w) ==
  CopyBroken(c, w) \/ CloseLocal(c, w) \/ CloseRemote(c, w) \/ Deregister(c, w)

EndNext ==
  \E c \in Conns :
    \/ StreamClose(c)
    \/ \E w \in Workers : CopyEOF(c, w) \/ WorkerStep(c, w)

-----------------------------------------------------------------------------
Next == ListenNext \/ SetupNext \/ EndNext

Spec == Init /\ [][Next]_vars

\* The goroutines of a stream run; nothing is assumed of the network or of the
\* users.
FairSpec == Spec /\ \A c \in Conns : \A w \in Workers : WF_vars(WorkerStep(c, w))

-----------------------------------------------------------------------------
\* Every listening socket has exactly one owner: the registered listener, the
\* ForwardLocal call that has just bound it, or the Listeners.Close call that is
\* about to close it.  So a ForwardLocal that got its socket is never refused
\* by Register, the path on which its socket would stay open for ever.
SocketsOwned ==
  /\ \A a \in Addrs :
       a \in bound <=> \/ a \in listenersLocal
                       \/ \E f \in Forwarders : a \in faddr[f]
                       \/ \E k \in Closers : a \in todo[k]
  /\ \A f \in Forwarders : faddr[f] \cap listenersLocal = {}
  /\ \A k \in Closers : todo[k] \cap listenersLocal = {}

\* conns[p] is the number of registered streams of p and p is tagged in the
\* connection manager exactly while there is one, although three goroutines may
\* close, reset and deregister the same stream in any order.
RegistryCounts ==
  \A p \in Peers :
    /\ conns[p] = Cardinality({c \in streams : cpeer[c] = p})
    /\ p \in tagged <=> \E c \in streams : cpeer[c] = p

\* A stream leaves the registry only when both of its ends are closed, so that
\* `p2p stream ls` and `close` reach every stream that still holds one.
OpenStreamsListed ==
  \A c \in Conns : cst[c] = "open" /\ c \notin streams => c \notin lopen \cup ropen

\* When either end of a registered stream is closed the other copier notices,
\* the stream is torn down and leaves the registry.
StreamsEnd ==
  \A c \in Conns : c \in streams /\ (c \notin lopen \/ c \notin ropen) ~> c \notin streams
=============================================================================
