------------------------------- MODULE Routing -------------------------------
(***************************************************************************)
(* What a node tells the network and whom it asks: the blocks it provides  *)
(* (core/commands/routing.go, core/coreapi/routing.go), the addresses it   *)
(* announces (core/node/libp2p/addrs.go, routingopt.go), the peers it      *)
(* feeds to its relay finder (core/node/libp2p/routing.go), and the        *)
(* routers it builds from its config (routing/delegated.go).               *)
(***************************************************************************)
EXTENDS Naturals, Sequences, FiniteSets

CONSTANTS
  PBlocks,    \* blocks
  PLinks,     \* the links of each block
  PArgs,      \* sequences of blocks: arguments of `routing provide`
  PAddrs,     \* addresses
  FeedPeers   \* peers of one round of the relay feeder

ASSUME ProvideConstants ==
  /\ PLinks \in [PBlocks -> SUBSET PBlocks] /\ IsFiniteSet(PBlocks) /\ FeedPeers \in Nat
  /\ PArgs \subseteq Seq(PBlocks)

VARIABLES
  provide,   \* the command, or the call of the API
  provided,  \* blocks with a provider record in the network
  pstore,    \* blocks the node has
  addrsCfg,  \* Addresses.Swarm, Announce, AppendAnnounce and NoAnnounce
  announced, \* what the host and the HTTP routers are told
  feeder     \* the relay feeder: its goroutine, the room in its channel, and the node's stop

pvVars == <<provide, provided, pstore>>
anVars == <<addrsCfg, announced>>

NoProvide == [pc |-> "idle", who |-> "cmd", rec |-> FALSE, args |-> <<>>, todo |-> <<>>, keys |-> {}, walk |-> "none"]
ProvideInit == provide = NoProvide /\ provided = {} /\ pstore \in SUBSET PBlocks

ProvideAt(pc) == provide.pc = pc
ProvideGoes(pc) == provide' = [provide EXCEPT !.pc = pc]
ProvideRest == UNCHANGED <<provided, pstore>>

\* All that a walk from c visits, when every block of it is there.
Below1(S) == S \union UNION {PLinks[b] : b \in S}
ReachOf(c) ==
  LET level[k \in 0 .. Cardinality(PBlocks)] == IF k = 0 THEN {c} ELSE Below1(level[k - 1]) IN level[Cardinality(PBlocks)]

\* routing provide, and RoutingAPI.Provide: offline, with Provider.Enabled off or
\* without a connection nothing is provided, and neither is a block the node lacks.
ProvideStart(who, args, rec) ==
  /\ ProvideAt("idle")
  /\ who = "api" => Len(args) = 1
  /\ \/ /\ \A i \in DOMAIN args : args[i] \in pstore
        /\ provide' = [NoProvide EXCEPT !.pc = IF ~rec THEN "keys" ELSE IF who = "cmd" THEN "rec" ELSE "stream",
                                        !.who = who, !.rec = rec, !.args = args, !.todo = args,
                                        !.walk = IF rec /\ who = "api" THEN "walking" ELSE "none"]
     \/ provide' = [provide EXCEPT !.pc = "error"]
  /\ ProvideRest

\* r.Provide: the network takes the record, or the call fails.
PutRecord(b) == provided' = provided \union {b} /\ UNCHANGED pstore

\* provideKeys.
ProvideKeys ==
  /\ ProvideAt("keys")
  /\ \/ provide.todo = <<>> /\ ProvideGoes("ok") /\ ProvideRest
     \/ provide.todo # <<>> /\ provide' = [provide EXCEPT !.todo = Tail(@)] /\ PutRecord(Head(provide.todo))
     \/ provide.todo # <<>> /\ ProvideGoes("error") /\ ProvideRest

\* provideKeysRec of the command: the whole walk, which fetches what is missing or
\* fails, then a record for each block.
ProvideWalk ==
  /\ ProvideAt("rec") /\ provide.todo # <<>> /\ provide.keys = {}
  /\ \/ /\ provide' = [provide EXCEPT !.pc = "send", !.keys = ReachOf(Head(provide.todo))]
        /\ pstore' = pstore \union ReachOf(Head(provide.todo)) /\ UNCHANGED provided
     \/ ProvideGoes("error") /\ ProvideRest
ProvideSend ==
  /\ ProvideAt("send")
  /\ \/ \E b \in provide.keys : provide' = [provide EXCEPT !.keys = @ \ {b}] /\ PutRecord(b)
     \/ provide.keys # {} /\ ProvideGoes("error") /\ ProvideRest
     \/ provide.keys = {} /\ provide' = [provide EXCEPT !.pc = "rec", !.todo = Tail(@)] /\ ProvideRest

ProvideRecDone == ProvideAt("rec") /\ provide.todo = <<>> /\ ProvideGoes("ok") /\ ProvideRest

\* provideKeysRec of the API: a goroutine walks and hands over each new block; an
\* error goes to a channel without a buffer.  After a walk that succeeds nothing
\* more comes, and the call goes on waiting.
StreamVisit ==
  /\ ProvideAt("stream") /\ provide.walk = "walking"
  /\ LET reach == ReachOf(provide.args[1]) IN
     \/ \E b \in (reach \intersect pstore) \ provide.keys :
          /\ provide' = [provide EXCEPT !.keys = @ \union {b}] /\ PutRecord(b)
     \/ reach \subseteq pstore /\ provide.keys = reach /\ provide' = [provide EXCEPT !.walk = "done"] /\ ProvideRest
     \/ ~(reach \subseteq pstore) /\ provide' = [provide EXCEPT !.walk = "error"] /\ ProvideRest
StreamStops ==
  /\ ProvideAt("stream")
  /\ \/ provide.walk = "error" /\ provide' = [provide EXCEPT !.pc = "error", !.walk = "none"]
     \/ ProvideGoes("error")
  /\ ProvideRest

\* The request ends.
ProvideCancelled == provide.pc \in {"keys", "rec", "send", "stream"} /\ ProvideGoes("error") /\ ProvideRest

ProvideStep == ProvideKeys \/ ProvideWalk \/ ProvideSend \/ ProvideRecDone \/ StreamVisit
ProvideNext ==
  \/ ProvideStep \/ StreamStops \/ ProvideCancelled
  \/ \E who \in {"cmd", "api"}, args \in PArgs, rec \in BOOLEAN : ProvideStart(who, args, rec)

-----------------------------------------------------------------------------
\* makeAddrsFactory: Announce in place of what the host listens on, AppendAnnounce
\* besides, NoAnnounce taken from all of it.
HostAddrs(cfg) == ((IF cfg.announce # {} THEN cfg.announce ELSE cfg.swarm) \union cfg.append) \ cfg.no

\* httpAddrsFromConfig: NoAnnounce is only taken from Addresses.Swarm.
HttpAddrs(cfg) == (IF cfg.announce # {} THEN cfg.announce ELSE cfg.swarm \ cfg.no) \union cfg.append

AnnounceInit ==
  /\ addrsCfg \in [swarm : SUBSET PAddrs, announce : SUBSET PAddrs, append : SUBSET PAddrs, no : SUBSET PAddrs]
  /\ announced = [host |-> {}, http |-> {}]
AnnounceAddrs ==
  /\ announced' = [host |-> HostAddrs(addrsCfg), http |-> HttpAddrs(addrsCfg)]
  /\ UNCHANGED addrsCfg

-----------------------------------------------------------------------------
FeederInit == feeder = [pc |-> "wait", left |-> 0, room |-> TRUE, stop |-> "no"]

\* Feeding: one peer after the other, into a channel that has room for one.
FeedTick == feeder.pc = "wait" /\ feeder.stop = "no" /\ feeder' = [feeder EXCEPT !.pc = "feed", !.left = FeedPeers]

FeedPeer ==
  /\ feeder.pc = "feed"
  /\ \/ feeder.left = 0 /\ feeder' = [feeder EXCEPT !.pc = "wait"]
     \/ feeder.left > 0 /\ feeder.room /\ feeder' = [feeder EXCEPT !.left = @ - 1, !.room = FALSE]
     \/ feeder.left > 0 /\ feeder.stop # "no" /\ feeder' = [feeder EXCEPT !.pc = "done"]
FeedEnds == feeder.pc = "wait" /\ feeder.stop # "no" /\ feeder' = [feeder EXCEPT !.pc = "done"]

\* The relay finder takes a peer, when it wants one.
PeerTaken == ~feeder.room /\ feeder' = [feeder EXCEPT !.room = TRUE]

\* OnStop cancels and waits for the goroutine.
FeederStop == feeder.stop = "no" /\ feeder' = [feeder EXCEPT !.stop = "cancelled"]

FeederStopped == feeder.stop = "cancelled" /\ feeder.pc = "done" /\ feeder' = [feeder EXCEPT !.stop = "stopped"]

FeederStep == FeedPeer \/ FeedEnds \/ FeederStopped
FeederNext == FeederStep \/ FeedTick \/ PeerTaken \/ FeederStop

-----------------------------------------------------------------------------
\* No peer is told an address of Addresses.NoAnnounce by the host ("Takes precedence
\* over Addresses.Announce and Addresses.AppendAnnounce").
HostNoAnnounce == announced.host \intersect addrsCfg.no = {}

\* A provide that succeeds has a record for every block it was asked for, and with
\* --recursive for every block below.
ProvidedAll ==
  ProvideAt("ok") => \A i \in DOMAIN provide.args :
    (IF provide.rec THEN ReachOf(provide.args[i]) ELSE {provide.args[i]}) \subseteq provided

\* The command comes to an end.
ProvideEnds == (provide.who = "cmd" /\ ProvideAt("rec")) ~> (provide.pc \in {"ok", "error"})

\* The node's stop is not held up by a relay finder that takes no peers.
FeederStops == (feeder.stop = "cancelled") ~> (feeder.stop = "stopped")

-----------------------------------------------------------------------------
(***************************************************************************)
(* Custom routing: Parse builds the routers that Routing.Methods of the    *)
(* config names, each with the routers it is composed of, and refuses a    *)
(* config whose routers depend on themselves.  The methods are taken in    *)
(* any order (a map), routers that exist already are shared.               *)
(***************************************************************************)
CONSTANTS
  RouterNames,      \* names of routers
  RouterConfigs,    \* configs: functions from names to [type, deps]
  MethodNameList,   \* the methods a config has to name, and no others
  MethodConfigs     \* Routing.Methods: functions from some methods to names

Composite == {"parallel", "sequential"}
ASSUME RouterConstants ==
  /\ IsFiniteSet(RouterNames)
  /\ \A cfg \in RouterConfigs, n \in RouterNames :
       cfg[n].type \in Composite \union {"http", "dht", "badhttp", "baddht", "unknown", "absent"}
         /\ cfg[n].deps \in Seq(RouterNames)
  /\ \A names \in MethodConfigs : \A m \in DOMAIN names : names[m] \in RouterNames

VARIABLES
  routersCfg,   \* the config
  methods,
  todoMethods,  \* methods not yet looked at
  visited,      \* for the method at hand: routers that were begun
  frames,       \* the calls of parse, the innermost last: a name and the routers it still needs
  created,      \* createdRouters
  builds,       \* history: how often each router was built
  finalRouter,  \* the Composer: the router of each method
  parseOut,     \* "check", "busy", "ok", "error"
  asked         \* the last request: its method, and the router that was asked

prVars == <<routersCfg, methods, todoMethods, visited, frames, created, builds, finalRouter, parseOut, asked>>

ParseInit ==
  /\ routersCfg \in RouterConfigs /\ methods \in MethodConfigs
  /\ todoMethods = DOMAIN methods /\ visited = {} /\ frames = <<>>
  /\ created = {} /\ builds = [n \in RouterNames |-> 0]
  /\ finalRouter = <<>> /\ parseOut = "check" /\ asked = <<>>

ConfigAsIs == UNCHANGED <<routersCfg, methods, asked>>
Top == frames[Len(frames)]
FramesBelow == SubSeq(frames, 1, Len(frames) - 1)
ParseFails == parseOut' = "error" /\ UNCHANGED <<todoMethods, visited, frames, created, builds, finalRouter>>

\* Methods.Check: all five, and nothing else.
MethodsCheck ==
  /\ parseOut = "check"
  /\ parseOut' = IF DOMAIN methods = MethodNameList THEN "busy" ELSE "error"
  /\ UNCHANGED <<todoMethods, visited, frames, created, builds, finalRouter>> /\ ConfigAsIs

\* Parse: the next method, with nothing visited.
ParseMethod(m) ==
  /\ parseOut = "busy" /\ frames = <<>> /\ m \in todoMethods
  /\ frames' = <<[name |-> methods[m], method |-> m, needs |-> <<>>, begun |-> FALSE]>>
  /\ visited' = {} /\ todoMethods' = todoMethods \ {m}
  /\ UNCHANGED <<created, builds, finalRouter, parseOut>> /\ ConfigAsIs

\* A call of parse returns its router, to the method or to the router that needs it.
ParseReturns ==
  /\ frames' = FramesBelow
  /\ finalRouter' = IF Len(frames) = 1 THEN finalRouter \o <<<<Top.method, Top.name>>>> ELSE finalRouter

\* The router is there already.
ParseShared ==
  /\ parseOut = "busy" /\ frames # <<>> /\ ~Top.begun /\ Top.name \in created
  /\ ParseReturns
  /\ UNCHANGED <<todoMethods, visited, created, builds, parseOut>> /\ ConfigAsIs

\* Mutant: a router that was begun is a loop, whether it is there or not.
ParseLoopVisited ==
  /\ parseOut = "busy" /\ frames # <<>> /\ ~Top.begun
  /\ Top.name \in visited \/ routersCfg[Top.name].type = "absent"
  /\ ParseFails /\ ConfigAsIs

\* A router that was begun and is not there: a dependency loop.  One that has no
\* config, or one that cannot be made of it.
ParseLoop ==
  /\ parseOut = "busy" /\ frames # <<>> /\ ~Top.begun /\ Top.name \notin created
  /\ Top.name \in visited \/ routersCfg[Top.name].type = "absent"
  /\ ParseFails /\ ConfigAsIs

ParseBegin ==
  /\ parseOut = "busy" /\ frames # <<>> /\ ~Top.begun /\ Top.name \notin created \union visited
  /\ routersCfg[Top.name].type # "absent"
  /\ visited' = visited \union {Top.name}
  /\ frames' = Append(FramesBelow, [Top EXCEPT !.begun = TRUE, !.needs = routersCfg[Top.name].deps])
  /\ UNCHANGED <<todoMethods, created, builds, finalRouter, parseOut>> /\ ConfigAsIs

\* The next router a composed one is made of.
ParseNeeded ==
  /\ parseOut = "busy" /\ frames # <<>> /\ Top.begun /\ Top.needs # <<>>
  /\ routersCfg[Top.name].type \in Composite
  /\ frames' = Append(Append(FramesBelow, [Top EXCEPT !.needs = Tail(@)]),
                      [name |-> Head(Top.needs), method |-> Top.method, needs |-> <<>>, begun |-> FALSE])
  /\ UNCHANGED <<todoMethods, visited, created, builds, finalRouter, parseOut>> /\ ConfigAsIs

\* httpRoutingFromConfig without an endpoint, or with a key or an address that
\* cannot be read; dhtRoutingFromConfig with other parameters or an unknown mode.
HttpRoutingFails(type) == type = "badhttp"
DhtRoutingFails(type) == type = "baddht"
RouterFails(type) == HttpRoutingFails(type) \/ DhtRoutingFails(type) \/ type = "unknown"

\* NewComposableParallel and NewComposableSequential, or a router of its own; it is
\* kept for the routers and methods that name it later.
BuildRouter ==
  /\ parseOut = "busy" /\ frames # <<>> /\ Top.begun
  /\ routersCfg[Top.name].type \in Composite => Top.needs = <<>>
  /\ IF RouterFails(routersCfg[Top.name].type) THEN ParseFails
     ELSE /\ created' = created \union {Top.name}
          /\ builds' = [builds EXCEPT ![Top.name] = @ + 1]
          /\ ParseReturns
          /\ UNCHANGED <<todoMethods, visited, parseOut>>
  /\ ConfigAsIs

ParseDone ==
  /\ parseOut = "busy" /\ frames = <<>> /\ todoMethods = {}
  /\ parseOut' = "ok"
  /\ UNCHANGED <<todoMethods, visited, frames, created, builds, finalRouter>> /\ ConfigAsIs

\* The Composer passes a request on to the router of its method.
ComposerCall(m) ==
  /\ parseOut = "ok" /\ \E i \in DOMAIN finalRouter : finalRouter[i][1] = m /\ asked' = finalRouter[i]
  /\ UNCHANGED <<routersCfg, methods, todoMethods, visited, frames, created, builds, finalRouter, parseOut>>

ParseStep ==
  \/ MethodsCheck \/ ParseShared \/ ParseLoop \/ ParseBegin \/ ParseNeeded \/ BuildRouter \/ ParseDone
  \/ \E m \in MethodNameList : ParseMethod(m)

ParseNext == ParseStep \/ \E m \in MethodNameList : ComposerCall(m)

ParseSpec == ParseInit /\ [][ParseNext]_prVars /\ WF_prVars(ParseStep)

-----------------------------------------------------------------------------
\* What the config means, whatever order its methods are taken in: the routers that
\* n is made of, in at most k steps.
Deps(n) == IF routersCfg[n].type \in Composite THEN {routersCfg[n].deps[i] : i \in DOMAIN routersCfg[n].deps} ELSE {}
DepsOf(S) == UNION {Deps(n) : n \in S}
NeedsAll(n) ==
  LET level[k \in 0 .. Cardinality(RouterNames)] == IF k = 0 THEN Deps(n) ELSE level[k - 1] \union DepsOf(level[k - 1])
  IN  level[Cardinality(RouterNames)]
Buildable(n) ==
  \A r \in {n} \union NeedsAll(n) : routersCfg[r].type \in Composite \union {"http", "dht"} /\ r \notin NeedsAll(r)

\* Exactly the configs that can be built are accepted: a router that two others are
\* made of is no loop, and every loop is found.
ParseExact ==
  /\ parseOut = "ok" => DOMAIN methods = MethodNameList /\ \A m \in MethodNameList : Buildable(methods[m])
  /\ parseOut = "error" => DOMAIN methods # MethodNameList \/ \E m \in MethodNameList : ~Buildable(methods[m])

\* No router is built twice, so that methods that name the same router share its
\* state, such as its table of peers.
BuiltOnce == \A n \in RouterNames : builds[n] <= 1

\* A request goes to the router that the config names for its method.
CallsNamed == asked # <<>> => asked[2] = methods[asked[1]]

\* Parse ends, also for a config whose routers depend on themselves.
ParseEnds == (parseOut # "check") ~> (parseOut \in {"ok", "error"})
=============================================================================
