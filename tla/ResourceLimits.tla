--------------------------- MODULE ResourceLimits ---------------------------
(***************************************************************************)
(* The libp2p resource manager as kubo sets it up (core/node/libp2p/       *)
(* rcmgr.go, rcmgr_defaults.go, rcmgr_logging.go): limits of the System,   *)
(* Transient and peer scopes computed from the machine, those of System    *)
(* raised to fit the connection manager, overridden by the user's file,    *)
(* refused when those of System make no sense beside the connection        *)
(* manager, listed by `ipfs swarm resources`; refusals are counted and     *)
(* logged at every tick.  libp2p's own manager is external.  A connection  *)
(* takes its place in System and Transient when it is opened, moves from   *)
(* Transient to its peer when it is secured, and then takes memory for its *)
(* multiplexer: each of these may be refused.  Streams, and the scopes of  *)
(* allowlisted addresses, are not opened.                                  *)
(***************************************************************************)
EXTENDS Integers, FiniteSets

CONSTANTS
  LimitPeers,     \* peers
  RmConfigs,      \* configs and files of the user that the manager is set up from
  BytesPerMB,     \* units of memory in one MB
  MinInbound,     \* DefaultResourceMgrMinInboundConns
  ScaledLimits,   \* what libp2p's own defaults scale to
  Endpoints,      \* connections that are tried: their peer, direction, and whether they take a descriptor
  ConnIds,        \* bound: connections at a time
  MuxMemory,      \* what a connection's multiplexer takes
  SubnetConns,    \* connections of one subnet; every peer has its own
  MaxRefused,     \* bound: different refusals
  MaxCounted      \* bound: refusals that are counted

\* rcmgr.LimitVal.
DefaultLimit == 0
UnlimitedLimit == -1
BlockAllLimit == -2
LimitKinds == {"Memory", "FD", "Conns", "ConnsInbound", "ConnsOutbound", "Streams", "StreamsInbound", "StreamsOutbound"}
Scopes == {"system", "transient", "peer"}
OpenScopes == {"system", "transient"}
PartialLimits == [Scopes -> [LimitKinds -> {v \in Int : v >= BlockAllLimit}]]

ASSUME LimitConstants ==
  /\ LimitPeers \cap {"system", "transient", "subnet"} = {} /\ IsFiniteSet(ConnIds)
  /\ BytesPerMB \in Nat \ {0} /\ MinInbound \in Nat /\ MuxMemory \in Nat
  /\ ScaledLimits \in [Scopes -> [LimitKinds -> Nat \ {0}]]
  /\ Endpoints \subseteq [peer : LimitPeers, inbound : BOOLEAN, fd : BOOLEAN]
  /\ \A c \in RmConfigs :
       /\ c.mem \in Nat /\ c.fd \in Nat /\ c.highWater \in Nat
       /\ c.user \in PartialLimits
       /\ DOMAIN c.peers \subseteq LimitPeers /\ \A p \in DOMAIN c.peers : c.peers[p] \in Int

VARIABLES
  rmCfg,      \* what the manager is set up from
  rmState,    \* "start", "off", "refused" or "running"
  rmLimits,   \* limits of every scope and kind; "peer": of peers that have none of their own
  conns,      \* where each connection is: "none", "transient" or "peer"; and whether it has its memory
  denials,    \* history: what was refused, by which limit, and whether at HighWater or below
  refusals,   \* history: how often each scope refused to open a connection
  counted,    \* limitExceededErrs
  errLogged   \* what was logged

rlVars == <<rmCfg, rmState, rmLimits, conns, denials, refusals, counted, errLogged>>
NoErrs == [s \in OpenScopes |-> 0]
NoConn == [at |-> "none"]

LimitsInit ==
  /\ rmCfg \in RmConfigs
  /\ rmState = "start" /\ rmLimits = [s \in Scopes |-> [k \in LimitKinds |-> UnlimitedLimit]]
  /\ conns = [i \in ConnIds |-> NoConn] /\ denials = {}
  /\ refusals = NoErrs /\ counted = NoErrs /\ errLogged = NoErrs

----------------------------------------------------------------------------
(* The limits.                                                             *)

\* PartialLimitConfig.BuildLimits: a default is filled in.
BuildLimits(partial, base) ==
  [s \in Scopes |-> [k \in LimitKinds |-> IF partial[s][k] = DefaultLimit THEN base[s][k] ELSE partial[s][k]]]

\* System has all of memory and descriptors and one inbound connection per MB, Transient a
\* quarter; where a division gives 0 it is libp2p's default.  A peer has libp2p's defaults.
ComputedShare(c, share) ==
  [k \in LimitKinds |->
     CASE k = "Memory" -> c.mem \div share
       [] k = "FD" -> c.fd \div share
       [] k = "ConnsInbound" -> (c.mem \div BytesPerMB) \div share
       [] OTHER -> UnlimitedLimit]
ComputedLimits(c) ==
  [s \in Scopes |->
     CASE s = "system" -> ComputedShare(c, 1)
       [] s = "transient" -> ComputedShare(c, 4)
       [] OTHER -> [k \in LimitKinds |-> IF k \in {"ConnsInbound", "StreamsInbound"} THEN DefaultLimit ELSE UnlimitedLimit]]

Largest(S) == CHOOSE x \in S : \A y \in S : y <= x

\* Inbound connections fit twice the high water mark, and some at least; streams in proportion.
Raised(limits, c) ==
  IF limits["ConnsInbound"] > DefaultLimit /\ c.connMgr # "none"
  THEN LET most == Largest({limits["ConnsInbound"], 2 * c.highWater, MinInbound}) IN
       [limits EXCEPT
          !["StreamsInbound"] = IF @ > DefaultLimit THEN (most * @) \div limits["ConnsInbound"] ELSE @,
          !["ConnsInbound"] = most]
  ELSE limits

\* createDefaultLimitConfig: only the System scope is raised.
DefaultLimits(c) ==
  LET built == BuildLimits(ComputedLimits(c), ScaledLimits)
  IN [built EXCEPT !["system"] = Raised(@, c)]

\* LimitConfig: the user's limits, else the computed ones.
LimitConfig(c) == BuildLimits(c.user, DefaultLimits(c))

\* Mutant: a limit of the high water mark itself is let through.
MakesNoSenseBelow(limit, c) == (limit > DefaultLimit \/ limit = BlockAllLimit) /\ limit < c.highWater

MakesNoSense(limit, c) == (limit > DefaultLimit \/ limit = BlockAllLimit) /\ limit <= c.highWater

\* ensureConnMgrMakeSenseVsResourceMgr looks at these limits of System, and at no other scope;
\* with an allowlist at none.
SenseKinds == {"Conns", "ConnsInbound", "Streams", "StreamsInbound"}
Conflicting(limits, c) ==
  /\ c.connMgr # "none" /\ ~c.allowlist
  /\ \E k \in SenseKinds : MakesNoSense(limits["system"][k], c)

\* ResourceManager: the environment overrides the config.
RmStart ==
  LET enabled == rmCfg.env = "1" \/ (rmCfg.env = "unset" /\ rmCfg.enabled)
      limits == LimitConfig(rmCfg)
  IN /\ rmState = "start"
     /\ rmState' = IF ~enabled THEN "off" ELSE IF Conflicting(limits, rmCfg) THEN "refused" ELSE "running"
     /\ rmLimits' = IF rmState' = "running" THEN limits ELSE rmLimits
     /\ UNCHANGED <<rmCfg, conns, denials, refusals, counted, errLogged>>

----------------------------------------------------------------------------
(* The manager at work.  A scope is "system", "transient" or a peer.       *)
Held(s) ==
  {i \in ConnIds :
     CASE s = "system" -> conns[i].at # "none"
       [] s = "transient" -> conns[i].at = "transient"
       [] OTHER -> conns[i].at = "peer" /\ conns[i].to.peer = s}

Uses(e, k) ==
  \/ k = "Conns" \/ (k = "ConnsInbound" /\ e.inbound)
  \/ (k = "ConnsOutbound" /\ ~e.inbound) \/ (k = "FD" /\ e.fd)

Usage(s, k) ==
  IF k = "Memory" THEN MuxMemory * Cardinality({i \in Held(s) : conns[i].mem})
  ELSE Cardinality({i \in Held(s) : Uses(conns[i].to, k)})

\* A peer's own limit on inbound connections, from the user's file; else that of all peers.
LimitOf(s, k) ==
  IF s \in OpenScopes THEN rmLimits[s][k]
  ELSE IF k = "ConnsInbound" /\ s \in DOMAIN rmCfg.peers /\ rmCfg.peers[s] # DefaultLimit THEN rmCfg.peers[s]
  ELSE rmLimits["peer"][k]

\* A scope has no room for one more, or for a multiplexer's memory.
Exceeded(limit, used) == limit = BlockAllLimit \/ (limit # UnlimitedLimit /\ used > limit)
Lacking(wants) ==
  {w \in wants : Exceeded(LimitOf(w[1], w[2]), Usage(w[1], w[2]) + IF w[2] = "Memory" THEN MuxMemory ELSE 1)}

\* What a connection has to find room for when it is opened, and then at its next step.
ToOpen(e) == {w \in OpenScopes \X LimitKinds : Uses(e, w[2])}
ToGoOn(i) ==
  IF conns[i].at = "transient" THEN {w \in {conns[i].to.peer} \X LimitKinds : Uses(conns[i].to, w[2])}
  ELSE {"system", conns[i].to.peer} \X {"Memory"}

SubnetFull(e) == Cardinality({i \in Held("system") : conns[i].to.peer = e.peer}) >= SubnetConns

\* Granted by libp2p's manager; a free place of the model is taken.
OpenConnection(e) ==
  /\ rmState = "running" /\ Lacking(ToOpen(e)) = {} /\ ~SubnetFull(e)
  /\ \E i \in ConnIds : conns[i] = NoConn
  /\ LET free == CHOOSE i \in ConnIds : conns[i] = NoConn
     IN conns' = [conns EXCEPT ![free] = [at |-> "transient", to |-> e, mem |-> FALSE]]
  /\ UNCHANGED <<rmCfg, rmState, rmLimits, denials, refusals, counted, errLogged>>

\* SetPeer moves it from Transient to its peer; then the multiplexer reserves its memory.
GoOn(i) ==
  /\ rmState = "running" /\ conns[i] # NoConn
  /\ conns[i].at = "transient" \/ ~conns[i].mem
  /\ Lacking(ToGoOn(i)) = {}
  /\ conns' = [conns EXCEPT ![i] = IF @.at = "transient" THEN [@ EXCEPT !.at = "peer"] ELSE [@ EXCEPT !.mem = TRUE]]
  /\ UNCHANGED <<rmCfg, rmState, rmLimits, denials, refusals, counted, errLogged>>

CloseConnection(i) ==
  /\ conns[i] # NoConn /\ conns' = [conns EXCEPT ![i] = NoConn]
  /\ UNCHANGED <<rmCfg, rmState, rmLimits, denials, refusals, counted, errLogged>>

\* One of the limits that have no room is the reason that is given.
RefusedBy(scope, kind, e) ==
  /\ denials' = denials \union
       {[scope |-> scope, kind |-> kind, to |-> e, low |-> Cardinality(Held("system")) <= rmCfg.highWater]}
  /\ Cardinality(denials') <= MaxRefused

\* countErrs, under the lock.
CountErr(scope) == counted' = [counted EXCEPT ![scope] = @ + 1]

\* OpenConnection of the wrapper: what the manager refuses is counted.
RefuseConnection(e) ==
  /\ rmState = "running" /\ refusals["system"] + refusals["transient"] < MaxCounted
  /\ \E w \in Lacking(ToOpen(e)) :
       /\ RefusedBy(w[1], w[2], e) /\ CountErr(w[1])
       /\ refusals' = [refusals EXCEPT ![w[1]] = @ + 1]
  /\ UNCHANGED <<rmCfg, rmState, rmLimits, conns, errLogged>>

\* The limit per subnet comes before the scopes, with an error of another kind.
RefuseSubnet(e) ==
  /\ rmState = "running" /\ SubnetFull(e) /\ RefusedBy("subnet", "Conns", e)
  /\ UNCHANGED <<rmCfg, rmState, rmLimits, conns, refusals, counted, errLogged>>

\* Refused later, at the scope that the wrapper returned as it got it: nothing is counted.
RefuseLater(i) ==
  /\ rmState = "running" /\ conns[i] # NoConn
  /\ conns[i].at = "transient" \/ ~conns[i].mem
  /\ \E w \in Lacking(ToGoOn(i)) : RefusedBy(w[1], w[2], conns[i].to)
  /\ conns' = [conns EXCEPT ![i] = NoConn]
  /\ UNCHANGED <<rmCfg, rmState, rmLimits, refusals, counted, errLogged>>

\* A tick: the map is swapped and all of it logged, under the lock.
LogTick ==
  /\ rmState = "running" /\ counted # NoErrs
  /\ errLogged' = [s \in OpenScopes |-> errLogged[s] + counted[s]] /\ counted' = NoErrs
  /\ UNCHANGED <<rmCfg, rmState, rmLimits, conns, denials, refusals>>

LimitsNext ==
  \/ RmStart \/ LogTick
  \/ \E e \in Endpoints : OpenConnection(e) \/ RefuseConnection(e) \/ RefuseSubnet(e)
  \/ \E i \in ConnIds : GoOn(i) \/ RefuseLater(i) \/ CloseConnection(i)

LimitsSpec == LimitsInit /\ [][LimitsNext]_rlVars

----------------------------------------------------------------------------
(* ipfs swarm resources, for inbound connections.                          *)
StatPeers == {p \in LimitPeers : Held(p) # {}}
LimitRow(limit, usage) == [limit |-> limit, usage |-> usage]
PeerRow(p) == LimitRow(LimitOf(p, "ConnsInbound"), Usage(p, "ConnsInbound"))

\* mergeLimitsAndStatsMap: peers with usage and their own limit, if any; then limits without usage.
MergedPeers ==
  [p \in StatPeers \union DOMAIN rmCfg.peers |->
     IF p \notin StatPeers THEN LimitRow(LimitOf(p, "ConnsInbound"), 0)
     ELSE IF p \in DOMAIN rmCfg.peers THEN PeerRow(p) ELSE LimitRow(DefaultLimit, Usage(p, "ConnsInbound"))]

\* LimitConfigsToInfo: limits that are not set, or unlimited, are left out.
Shown(row) == row.limit \notin {UnlimitedLimit, DefaultLimit}
Resources ==
  {<<s, LimitRow(rmLimits[s]["ConnsInbound"], Usage(s, "ConnsInbound"))>> : s \in OpenScopes} \union
  {<<p, MergedPeers[p]>> : p \in DOMAIN MergedPeers}
ResourceInfos == {r \in Resources : Shown(r[2])}

----------------------------------------------------------------------------
\* The user's file is empty.
NoLimitsOf(c) ==
  DOMAIN c.peers = {} /\ \A s \in Scopes : \A k \in LimitKinds : c.user[s][k] = DefaultLimit

(* In a daemon that starts, the limits of System on connections do not      *)
(* refuse one while System has HighWater of them or fewer, set up or not    *)
(* (rcmgr.go:465).  Limits that the check does not look at may: System's    *)
(* descriptors and memory, Transient, the peer's, the subnet's.             *)
TrimBeforeRefuse ==
  rmCfg.connMgr # "none" /\ ~rmCfg.allowlist =>
    \A r \in denials : r.low => ~(r.scope = "system" /\ r.kind \in SenseKinds)

(* A daemon whose user sets no limits starts, whatever its memory and high  *)
(* water mark: what is computed passes the check (rcmgr_defaults.go:123).   *)
DefaultsStart == NoLimitsOf(rmCfg) => rmState # "refused"

(* Without limits of the user only the subnet's limit, or memory, refuses   *)
(* an outbound connection that takes no file descriptor, in any scope and   *)
(* at any step (rcmgr_defaults.go:49).                                      *)
OutboundFree ==
  NoLimitsOf(rmCfg) =>
    \A r \in denials : ~r.to.inbound /\ ~r.to.fd => r.scope = "subnet" \/ r.kind = "Memory"

(* Every connection that a scope refused to open is logged or will be, with *)
(* the scope, although it is counted while the map is being logged          *)
(* (rcmgr_logging.go:51).                                                   *)
RefusalsLogged == \A s \in OpenScopes : refusals[s] = counted[s] + errLogged[s]

(* A limit of a peer is listed with what the peer uses, be it connected or  *)
(* not, and no connected peer hides another's (rcmgr.go:292).               *)
LimitsListed ==
  \A p \in DOMAIN rmCfg.peers :
    LimitOf(p, "ConnsInbound") \notin {UnlimitedLimit, DefaultLimit} => <<p, PeerRow(p)>> \in ResourceInfos

\* The limits that kubo computes and checks refuse no connection before the connection
\* manager trims, and none that it dials without a descriptor; what a scope refuses to open
\* is logged, and `swarm resources` lists the limits of every peer.
LimitsSound == TrimBeforeRefuse /\ DefaultsStart /\ OutboundFree /\ RefusalsLogged /\ LimitsListed
=============================================================================
