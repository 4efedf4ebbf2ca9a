----------------------------- MODULE SwarmConns -----------------------------
(***************************************************************************)
(* Connections on request: `ipfs swarm connect` and `disconnect` with      *)
(* their parallel address resolution (core/commands/swarm.go,              *)
(* core/coreapi/swarm.go), and the peering service that keeps chosen peers *)
(* connected (core/node/peering.go; the service itself is external).       *)
(***************************************************************************)
EXTENDS Naturals, Sequences, FiniteSets

CONSTANTS
  SwarmPeers,  \* peers; each has one address
  SwarmArgs,   \* argument lists: sequences of [kind : "direct" | "dns" | "bad", peers : a set]
  ConfigPeers  \* Peering.Peers of the config

ASSUME SwarmConstants == SwarmArgs \subseteq Seq([kind : {"direct", "dns", "bad"}, peers : SUBSET SwarmPeers])

VARIABLES
  spc,       \* where the command is
  sop,       \* "connect" or "disconnect"
  sargs,     \* its arguments
  next,      \* the next argument to look at
  resolver,  \* the goroutine of each argument: its state and the addresses it still has to send
  found,     \* maddrs: the peers resolved so far
  errors,    \* the number of errors in resolveErrC
  conns,     \* the peers the node is connected to
  peering,   \* the peers of the peering service
  service    \* the service: "new", "built", "running" or "stopped"

sVars == <<spc, sop, sargs, next, resolver, found, errors, conns, peering, service>>
cmdVars == <<spc, sop, sargs, next, resolver, found, errors>>

NoResolver == [state |-> "done", left |-> {}]

SwarmInit ==
  /\ spc = "idle" /\ sop = "connect" /\ sargs = << >> /\ next = 1
  /\ resolver = << >> /\ found = {} /\ errors = 0
  /\ conns = {} /\ peering = {} /\ service = "new"

\* PeerWith, when the node is built; Start and Stop with the node.
PeerWith == service = "new" /\ peering' = ConfigPeers /\ service' = "built" /\ UNCHANGED <<cmdVars, conns>>

PeeringStart == service = "built" /\ service' = "running" /\ UNCHANGED <<cmdVars, conns, peering>>
PeeringStop ==
  /\ service = "running"
  /\ service' = "stopped" /\ conns' = {}
  /\ UNCHANGED <<cmdVars, peering>>

-----------------------------------------------------------------------------
Up == service = "running"

\* swarm peering add and rm: peer by peer; the config is not changed.
PeeringAdd(p) == Up /\ peering' = peering \union {p} /\ UNCHANGED <<cmdVars, conns, service>>
PeeringRm(p) == Up /\ peering' = peering \ {p} /\ UNCHANGED <<cmdVars, conns, service>>

\* The service connects to a peer of its list again (external).
Redial(p) == Up /\ p \in peering \ conns /\ conns' = conns \union {p} /\ UNCHANGED <<cmdVars, peering, service>>

\* A connection breaks.
ConnLost(p) == Up /\ p \in conns /\ conns' = conns \ {p} /\ UNCHANGED <<cmdVars, peering, service>>

-----------------------------------------------------------------------------
SwarmStart(op, args) ==
  /\ Up /\ spc = "idle"
  /\ \A i \in DOMAIN resolver : resolver[i].state = "done"
  /\ spc' = "parse" /\ sop' = op /\ sargs' = args /\ next' = 1
  /\ resolver' = [i \in DOMAIN args |-> NoResolver] /\ found' = {} /\ errors' = 0
  /\ UNCHANGED <<conns, peering, service>>

ConnectCmd(args) == SwarmStart("connect", args)
DisconnectCmd(args) == SwarmStart("disconnect", args)

\* resolveAddresses, the loop: an address of a peer is taken as it is, another
\* one gets a goroutine, and what is no address at all ends the call, whatever
\* the goroutines are doing.
ParseArg ==
  /\ spc = "parse" /\ next <= Len(sargs)
  /\ LET a == sargs[next] IN
     /\ spc' = IF a.kind = "bad" THEN "idle" ELSE "parse"
     /\ found' = IF a.kind = "direct" THEN found \union a.peers ELSE found
     /\ resolver' = IF a.kind = "dns" THEN [resolver EXCEPT ![next].state = "resolving"] ELSE resolver
  /\ next' = next + 1
  /\ UNCHANGED <<sop, sargs, errors, conns, peering, service>>
ArgsParsed ==
  /\ spc = "parse" /\ next > Len(sargs)
  /\ spc' = "collect"
  /\ UNCHANGED <<sop, sargs, next, resolver, found, errors, conns, peering, service>>

\* A goroutine resolves its address: an error, or no peer behind it, goes to the
\* buffered error channel.
Resolve(i) ==
  /\ i \in DOMAIN resolver /\ resolver[i].state = "resolving"
  /\ \/ /\ sargs[i].peers # {}
        /\ resolver' = [resolver EXCEPT ![i] = [state |-> "sending", left |-> sargs[i].peers]]
        /\ UNCHANGED errors
     \/ resolver' = [resolver EXCEPT ![i].state = "done"] /\ errors' = errors + 1
  /\ UNCHANGED <<spc, sop, sargs, next, found, conns, peering, service>>

\* One address passes from a goroutine to the collecting loop, over a channel
\* without a buffer.
Collect(i) ==
  /\ spc = "collect" /\ i \in DOMAIN resolver /\ resolver[i].state = "sending"
  /\ \E p \in resolver[i].left :
       /\ found' = found \union {p}
       /\ resolver' = [resolver EXCEPT ![i].left = @ \ {p},
                                       ![i].state = IF resolver[i].left = {p} THEN "done" ELSE "sending"]
  /\ UNCHANGED <<spc, sop, sargs, next, errors, conns, peering, service>>

\* Mutant: the first error is reported at once.
CollectDoneEarly ==
  /\ spc = "collect"
  /\ errors > 0 \/ \A i \in DOMAIN resolver : resolver[i].state = "done"
  /\ spc' = IF errors > 0 THEN "idle" ELSE sop
  /\ UNCHANGED <<sop, sargs, next, resolver, found, errors, conns, peering, service>>

\* wg.Wait closes the channel, the loop ends, and one error is enough to fail.
CollectDone ==
  /\ spc = "collect"
  /\ \A i \in DOMAIN resolver : resolver[i].state = "done"
  /\ spc' = IF errors > 0 THEN "idle" ELSE sop
  /\ UNCHANGED <<sop, sargs, next, resolver, found, errors, conns, peering, service>>

-----------------------------------------------------------------------------
\* swarm connect: the peers one after the other; the first failure ends the
\* command, and the peers connected before it stay connected.
Connect ==
  /\ spc = "connect" /\ Up
  /\ IF found = {} THEN spc' = "idle" /\ UNCHANGED <<found, conns>>
     ELSE \E p \in found :
            \/ conns' = conns \union {p} /\ found' = found \ {p} /\ UNCHANGED spc
            \/ spc' = "idle" /\ UNCHANGED <<found, conns>>
  /\ UNCHANGED <<sop, sargs, next, resolver, errors, peering, service>>

\* swarm disconnect: a failure (such as no connection) is reported and the others
\* go on.
Disconnect ==
  /\ spc = "disconnect" /\ Up
  /\ IF found = {} THEN spc' = "idle" /\ UNCHANGED <<found, conns>>
     ELSE \E p \in found : conns' \in {conns, conns \ {p}} /\ found' = found \ {p} /\ UNCHANGED spc
  /\ UNCHANGED <<sop, sargs, next, resolver, errors, peering, service>>

SwarmCmdStep ==
  \/ ParseArg \/ ArgsParsed \/ CollectDone \/ Connect \/ Disconnect
  \/ \E i \in 1 .. Len(sargs) : Resolve(i) \/ Collect(i)

SwarmNext ==
  \/ PeerWith \/ PeeringStart \/ PeeringStop
  \/ \E p \in SwarmPeers : PeeringAdd(p) \/ PeeringRm(p) \/ Redial(p) \/ ConnLost(p)
  \/ \E args \in SwarmArgs : ConnectCmd(args) \/ DisconnectCmd(args)
  \/ SwarmCmdStep

\* What `swarm peers` and `swarm peering ls` show.
Peers == conns
PeeringLs == peering

\* Goroutines run, resolution ends at its timeout (dnsResolveTimeout), the node
\* starts, and the service redials the peers it has lost.
SwarmFairness ==
  /\ WF_sVars(SwarmCmdStep) /\ WF_sVars(PeerWith) /\ WF_sVars(PeeringStart)
  /\ \A p \in SwarmPeers : WF_sVars(Redial(p))

SwarmSpec == SwarmInit /\ [][SwarmNext]_sVars /\ SwarmFairness

-----------------------------------------------------------------------------
\* The command comes back, however the resolutions end.
ResolutionEnds == (spc \in {"parse", "collect"}) ~> (spc \notin {"parse", "collect"})

\* A peer of the config is shown as connected in the end, unless the user removes it or the
\* node stops.
PeeredConnected ==
  \A p \in ConfigPeers : (service = "built") ~> (p \in Peers \/ p \notin PeeringLs \/ service = "stopped")

\* A command acts on the whole of its arguments or not at all: when it starts to
\* connect, every argument has given all the peers behind it, and no resolution has
\* failed; and unless an argument is malformed, no resolving goroutine outlives the
\* call (resolveAddresses).
ResolutionWhole ==
  [][/\ spc = "collect" /\ spc' \in {"connect", "disconnect"}
         => found = UNION {sargs[i].peers : i \in DOMAIN sargs}
     /\ spc' = "idle" /\ (\A i \in DOMAIN sargs' : sargs'[i].kind # "bad")
         => \A i \in DOMAIN resolver' : resolver'[i].state = "done"]_sVars
=============================================================================
