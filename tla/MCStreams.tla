----------------------------- MODULE MCStreams -----------------------------
(***************************************************************************)
(* Goroutines that hand results to each other, one component at a time:    *)
(* every behaviour is one of ResultStreams, AddCmd, DagCar, RepoGC,        *)
(* SwarmConns, Routing, PubSub or EventLogs, named by part, beside the     *)
(* others at rest.                                                         *)
(***************************************************************************)
EXTENDS ResultStreams, AddCmd, DagCar, RepoGC, SwarmConns,
        Routing, PubSub, EventLogs

VARIABLE part   \* the component at work

mcStreamCmds == DOMAIN Disciplines

mcAddNames == <<"a", "b">>

mcCarLinks == [b \in CarBlocks |-> IF b = 1 THEN {2} ELSE {}]
Car(roots, blocks, end) == [roots |-> roots, blocks |-> blocks, end |-> end]
mcCarInputs ==
  {<<Car({1}, <<1, 2>>, "eof"), Car({3}, <<3>>, "eof")>>, <<Car({1}, <<1>>, "eof")>>,
   <<Car({1, 3}, <<3, 1, 3, 1, 2>>, "eof")>>,
   <<Car({3}, <<3, 3>>, "eof"), Car({1}, <<2, 1>>, "broken")>>}

SwarmArg(kind, ps) == [kind |-> kind, peers |-> ps]
mcSwarmArgs ==
  {<<SwarmArg("direct", {"p"}), SwarmArg("dns", {"p", "q"})>>, <<SwarmArg("dns", {"p", "q"}), SwarmArg("dns", {})>>,
   <<SwarmArg("dns", {"q"}), SwarmArg("bad", {})>>}

mcPLinks == [b \in PBlocks |-> CASE b = "r" -> {"a", "b"} [] b = "a" -> {"b"} [] OTHER -> {}]
mcPArgs == {<<"r">>, <<"a", "r">>, <<"b">>}

\* Chains, cycles, shared and missing routers.
Router(types, deps) == [type : types, deps : deps]
mcRouterConfigs ==
  [a : Router({"sequential"}, {<<"b", "c">>, <<"b">>, <<"a">>}) \union Router({"http"}, {<<>>}),
   b : Router({"parallel"}, {<<>>, <<"a">>, <<"c">>, <<"c", "c">>}) \union Router({"http", "badhttp", "absent"}, {<<>>}),
   c : Router({"parallel"}, {<<"a">>, <<"b">>}) \union Router({"dht", "baddht", "unknown", "absent"}, {<<>>})]
mcMethodNames == {"provide", "find-peers"}
mcMethodConfigs == [mcMethodNames -> {"a", "b"}] \union [{"provide"} -> {"a"}]

\* States at rest of components with many initial states.
AddAtRest ==
  /\ mfsNames = {} /\ addOption.toFiles = "none" /\ ~addOption.onlyHash /\ ~addOption.wrap /\ ~addOption.mtimeNsecs
OptsAtRest == addOpts.flag = "unset" /\ addOpts.cfg = "unset" /\ ~addOpts.meta
RoutersAtRest == CHOOSE c \in RouterConfigs : c.a.type = "http" /\ c.b.type = "http" /\ c.c.type = "dht"

vars == <<part, stVars, trVars, addOpts, adVars, poVars, imVars, exVars, rgVars,
          sVars, pvVars, anVars, feeder, prVars, psVars, plVars, rqVars>>

\* A step of the component p: the others stay as they are.
On(p, A) ==
  /\ part = p /\ A
  /\ UNCHANGED part
  /\ IF p = "streams" THEN TRUE ELSE UNCHANGED stVars
  /\ IF p = "transfer" THEN TRUE ELSE UNCHANGED trVars
  /\ UNCHANGED addOpts
  /\ IF p = "add" THEN TRUE ELSE UNCHANGED adVars
  /\ IF p = "post" THEN TRUE ELSE UNCHANGED poVars
  /\ IF p = "import" THEN TRUE ELSE UNCHANGED imVars
  /\ IF p = "export" THEN TRUE ELSE UNCHANGED exVars
  /\ IF p = "repogc" THEN TRUE ELSE UNCHANGED rgVars
  /\ IF p = "swarm" THEN TRUE ELSE UNCHANGED sVars
  /\ IF p = "provide" THEN TRUE ELSE UNCHANGED pvVars
  /\ IF p = "announce" THEN TRUE ELSE UNCHANGED anVars
  /\ IF p = "feeder" THEN TRUE ELSE UNCHANGED feeder
  /\ IF p = "parse" THEN TRUE ELSE UNCHANGED prVars
  /\ IF p = "pubsub" THEN TRUE ELSE UNCHANGED psVars
  /\ IF p = "peerlog" THEN TRUE ELSE UNCHANGED plVars
  /\ IF p = "reqlog" THEN TRUE ELSE UNCHANGED rqVars

\* One component works in a behaviour; the others are in one state of their Init.
Init ==
  /\ part \in {"streams", "transfer", "options", "add", "post", "import",
             "export", "repogc", "swarm", "provide", "announce", "feeder",
             "parse", "pubsub", "peerlog", "reqlog"}
  /\ StreamInit /\ (part = "streams" \/ (stream = "ls" /\ items = 0 /\ ~failing))
  /\ TransferInit /\ (part = "transfer" \/ transfer = "tar")
  /\ OptsInit /\ (part = "options" \/ OptsAtRest)
  /\ AddCmdInit /\ (part = "add" \/ AddAtRest)
  /\ PostInit
  /\ ImportInit /\ (part = "import" \/ (carFiles = <<Car({1}, <<1>>, "eof")>> /\ carOpts))
  /\ ExportInit /\ (part = "export" \/ ex.root = 1)
  /\ RepoGcInit /\ (part = "repogc" \/ mode = "stream")
  /\ SwarmInit
  /\ ProvideInit /\ (part = "provide" \/ pstore = {})
  /\ AnnounceInit /\ (part = "announce" \/ \A f \in DOMAIN addrsCfg : addrsCfg[f] = {})
  /\ FeederInit
  /\ ParseInit /\ (part = "parse" \/ (routersCfg = RoutersAtRest /\ methods = [m \in {"provide"} |-> "a"]))
  /\ PubSubInit /\ (part = "pubsub" \/ (~enabled /\ subTopic = [topic |-> "t", base |-> "base64url"]))
  /\ PeerLogInit
  /\ ReqLogInit

Next ==
  \/ On("streams", StreamNext)
  \/ On("transfer", TransferNext)
  \/ On("add", AddCmdNext)
  \/ On("post", PostRunNext)
  \/ On("import", ImportNext)
  \/ On("export", ExportNext)
  \/ On("repogc", RepoGcNext)
  \/ On("swarm", SwarmNext)
  \/ On("provide", ProvideNext)
  \/ On("announce", AnnounceAddrs)
  \/ On("feeder", FeederNext)
  \/ On("parse", ParseNext)
  \/ On("pubsub", PubSubNext)
  \/ On("peerlog", PeerLogNext)
  \/ On("reqlog", ReqLogNext)

\* The fairness of the components, behaviour by behaviour: the goroutines that run
\* beside each other have a conjunct each, whichever component they belong to.
FirstStep ==
  \/ On("streams", StreamStep) \/ On("transfer", TransferStep) \/ On("add", AddCmdStep) \/ On("post", PostStep)
  \/ On("import", ImportStep) \/ On("export", ExportStep) \/ On("repogc", CallerStep) \/ On("swarm", SwarmCmdStep)
  \/ On("provide", ProvideStep) \/ On("feeder", FeederStep) \/ On("parse", ParseStep) \/ On("pubsub", SubEmit) \/ On("peerlog", CollectStep)
SecondStep ==
  \/ On("import", CommitStep) \/ On("repogc", SweeperStep) \/ On("swarm", PeerWith) \/ On("pubsub", SubCancelled)
ThirdStep == On("repogc", EndRequest) \/ On("swarm", PeeringStart) \/ On("pubsub", SubDecode)
Fairness ==
  /\ WF_vars(FirstStep) /\ WF_vars(SecondStep) /\ WF_vars(ThirdStep)
  /\ WF_vars(On("pubsub", SubDecodeError)) /\ SF_vars(On("pubsub", SubLoopEnds))
  /\ \A p \in SwarmPeers : WF_vars(On("swarm", Redial(p)))

Spec == Init /\ [][Next]_vars /\ Fairness

-----------------------------------------------------------------------------
\* A call that says it succeeded delivered everything, and what was asked for: the
\* items of a result channel, a transfer, the events of an add, an exported DAG, the
\* errors of a collection, the records of a provide, the messages of a topic.
DeliveredWhole ==
  /\ SuccessIsComplete /\ SuccessIsWhole /\ AddSuccessWhole /\ AllPrinted /\ MetadataFits
  /\ ExportWhole /\ ErrorsReported /\ ProvidedAll /\ GotOnTopic

\* Nobody is left waiting when the other side fails, is cancelled or goes away:
\* every call returns, and its goroutines end.
NothingLeftWaiting ==
  /\ ProducerEnds /\ StreamReturns /\ TransferEnds /\ PostRunReturns
  /\ ExportReturns /\ CallReturns /\ ResolutionEnds /\ PeeredConnected
  /\ ProvideEnds /\ FeederStops /\ ParseEnds /\ NodeUnsubscribes /\ SubLoopGone

\* The locks taken meanwhile are released: the pin lock of an add or an import, the
\* GC lock of a collection whose results nobody reads.
LocksReleased == AddFreesPinLock /\ ImportReturns /\ LockReleased

\* Routing is what the config says: the routers that can be built are accepted,
\* built once for all that name them and asked for the methods they were named for,
\* and the host keeps the addresses of NoAnnounce to itself.
RoutingAsConfigured == ParseExact /\ BuiltOnce /\ CallsNamed /\ HostNoAnnounce
=============================================================================
