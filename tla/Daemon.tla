------------------------------- MODULE Daemon -------------------------------
(***************************************************************************)
(* The life of `ipfs daemon` (cmd/ipfs/kubo/daemon.go): the main goroutine *)
(* builds the node, starts plugins, servers, mounts and loops, and waits    *)
(* for their error channels; a signal, `ipfs shutdown` or an early return   *)
(* stops the node (core/builder.go), whose process closes its children.     *)
(* Options and failures are chosen at the step that reads them.             *)
(*                                                                         *)
(* First the plugin loader (plugin/loader/loader.go): a state machine that *)
(* loads, initialises, injects, starts and closes the plugins of one       *)
(* process.  Its operators are the state changes of its methods; the       *)
(* daemon's say who calls them and when.                                   *)
(***************************************************************************)
EXTENDS Naturals, Sequences

CONSTANTS
  Plugins,        \* the plugins, in the order they are loaded (loader.plugins)
  DaemonPlugins   \* those with a Start method, whose Close is called

VARIABLES
  loader,   \* loaderState
  started,  \* loader.started: the plugins that Close will close
  running   \* the plugins that have been started and not closed

loaderVars == <<loader, started, running>>

LoaderStates == {"Loading", "Initialized", "Injected", "Starting", "Started", "Closed", "Failed"}

LoaderInit ==
  /\ loader = "Loading"
  /\ started = {}
  /\ running = {}

\* NewPluginLoader, Load and LoadDirectory: an unreadable config or plugin, or
\* two plugins of one name, and there is no loader.
LoadFails == loader = "Loading" /\ loader' = "Failed" /\ UNCHANGED <<started, running>>

\* Initialize, then Inject: the first plugin that fails ends the walk.
Initialize ==
  /\ loader = "Loading"
  /\ loader' \in {"Initialized", "Failed"}
  /\ UNCHANGED <<started, running>>
Inject ==
  /\ loader = "Initialized"
  /\ loader' \in {"Injected", "Failed"}
  /\ UNCHANGED <<started, running>>

StartBegin == loader = "Injected" /\ loader' = "Starting" /\ UNCHANGED <<started, running>>

\* The plugins that Start has still to start.
ToStart == SelectSeq(Plugins, LAMBDA p: p \in DaemonPlugins /\ p \notin running)

StartOne ==
  /\ loader = "Starting" /\ ToStart # << >>
  /\ started' = started \union {Head(ToStart)}
  /\ running' = running \union {Head(ToStart)}
  /\ UNCHANGED loader

StartDone ==
  /\ loader = "Starting" /\ ToStart = << >>
  /\ loader' = "Started"
  /\ UNCHANGED <<started, running>>

\* Close: nothing to do when it is closed or has failed; otherwise every started
\* plugin is closed, and an error of one of them does not spare the others.
Close ==
  IF loader \in {"Closed", "Failed"} THEN UNCHANGED loaderVars
  ELSE /\ loader' \in {"Closed", "Failed"}
       /\ started' = {}
       /\ running' = running \ started

-----------------------------------------------------------------------------
CONSTANTS
  Api, Gateway,  \* the listeners of the two HTTP servers
  Requests,      \* API requests
  Shutdown       \* the one among them that is `ipfs shutdown`

Servers == Api \union Gateway
AllServers == Servers \union {"libp2p"}

VARIABLES
  pc,        \* where daemonFunc is
  ctxDone,   \* req.Context is cancelled
  signals,   \* interrupts received
  repo,      \* the fsrepo, "closed" or "open"
  app,       \* the fx application and, with it, node.Process
  deferred,  \* daemonFunc has deferred node.Close
  tmp,       \* migrations.DownloadDirectory exists
  fetcher,   \* the migration fetcher is open
  child,     \* Plugins.Close is a child of node.Process
  server,    \* the goroutine of each listener, and of the libp2p gateway
  request,   \* the API requests
  gcLoop,    \* corerepo.PeriodicGC
  checker    \* the peer and version check of the first minute

daemonVars == <<pc, ctxDone, signals, repo, app, deferred, tmp, fetcher, child,
                server, request, gcLoop, checker>>
dVars == <<loaderVars, daemonVars>>

DaemonInit ==
  /\ LoaderInit
  /\ pc = "load" /\ ctxDone = FALSE /\ signals = 0
  /\ repo = "closed" /\ app = "none" /\ deferred = FALSE /\ tmp = FALSE /\ fetcher = FALSE
  /\ child = "no"
  /\ server = [s \in AllServers |-> "none"]
  /\ request = [r \in Requests |-> "idle"]
  /\ gcLoop = "off" /\ checker = "off"

Gone == pc \in {"exited", "killed"}
Closing == app \in {"closing", "closed", "stopped"}

Goto(p) == pc' = p
Return == pc' = "return"

-----------------------------------------------------------------------------
(* daemonFunc up to the node.                                              *)

\* BuildEnv and loadPlugins: before the command runs.
LoadPlugins ==
  /\ pc = "load"
  /\ \/ LoadFails \/ Initialize \/ Inject
  /\ Goto(IF loader' = "Injected" THEN "open" ELSE IF loader' = "Failed" THEN "exited" ELSE "load")
  /\ UNCHANGED <<ctxDone, signals, repo, app, deferred, tmp, fetcher, child, server, request, gcLoop, checker>>

\* --init (doInit, see RepoOpen), then fsrepo.Open: fails, needs a migration,
\* or opens the repo, whose Close is deferred.
OpenRepo ==
  /\ pc = "open"
  /\ \/ Return /\ UNCHANGED repo
     \/ Goto("migrate") /\ UNCHANGED repo
     \/ Goto("configure") /\ repo' = "open"
  /\ UNCHANGED <<loaderVars, ctxDone, signals, app, deferred, tmp, fetcher, child, server, request, gcLoop, checker>>

\* ErrNeedMigration: the user declines or the config or fetcher fails; else the
\* download directory is made if the migrations are to be kept, and RunMigration
\* and a second Open follow.
Migrate ==
  /\ pc = "migrate"
  /\ \/ Return /\ UNCHANGED <<repo, tmp, fetcher>>
     \/ /\ fetcher' = TRUE
        /\ tmp' \in BOOLEAN
        /\ \E ok \in BOOLEAN :
             /\ repo' = IF ok THEN "open" ELSE repo
             /\ Goto(IF ok THEN "configure" ELSE "return")
  /\ UNCHANGED <<loaderVars, ctxDone, signals, app, deferred, child, server, request, gcLoop, checker>>

Routings == {"auto", "autoclient", "dht", "dhtclient", "dhtserver", "none", "custom", "supernode"}

\* A private network cannot use auto routing, and is moved to dht.
RoutingFor(private, routing) == IF private /\ routing = "auto" THEN "dht" ELSE routing

\* The routing option, the private network and AutoTLS: several combinations
\* are errors.
Configure ==
  /\ pc = "configure"
  /\ \E routing \in Routings, private, autoTLS, accelerated \in BOOLEAN :
       Goto(IF \/ private /\ autoTLS
               \/ RoutingFor(private, routing) = "supernode"
               \/ routing = "custom" /\ accelerated
            THEN "return"
            ELSE IF private /\ RoutingFor(private, routing) \in {"auto", "autoclient"} THEN "fatal"
            ELSE "node")
  /\ UNCHANGED <<loaderVars, ctxDone, signals, repo, app, deferred, tmp, fetcher, child, server, request, gcLoop, checker>>

\* core.NewNode: building or starting the application fails, the bootstrap
\* fails with the application running, or the node is there and its Close
\* deferred.  With a private network and auto routing the daemon then dies of
\* log.Fatal.
NewNode ==
  /\ pc \in {"node", "fatal"}
  /\ \/ Return /\ UNCHANGED <<app, deferred>>
     \/ Return /\ app' = "running" /\ UNCHANGED deferred
     \/ pc = "fatal" /\ Goto("killed") /\ app' = "running" /\ UNCHANGED deferred
     \/ pc = "node" /\ Goto("start") /\ app' = "running" /\ deferred' = TRUE
  /\ UNCHANGED <<loaderVars, ctxDone, signals, repo, tmp, fetcher, child, server, request, gcLoop, checker>>

\* Plugins.Start: one plugin at a time; the first that fails has the loader
\* close those already started.
StartPlugins ==
  /\ pc = "start"
  /\ \/ StartBegin /\ UNCHANGED pc
     \/ StartOne /\ UNCHANGED pc
     \/ loader = "Starting" /\ running = {} /\ Return /\ UNCHANGED loaderVars  \* NewCoreAPI
     \/ loader = "Starting" /\ ToStart # << >> /\ Close /\ Return
     \/ StartDone /\ Goto("child")
  /\ UNCHANGED <<ctxDone, signals, repo, app, deferred, tmp, fetcher, child, server, request, gcLoop, checker>>

\* The loader's Close becomes a child of the node's process, unless that is
\* closing already.
AddPluginChild ==
  /\ pc = "child"
  /\ child' = IF Closing THEN "skipped" ELSE "yes"
  /\ Goto("api")
  /\ UNCHANGED <<loaderVars, ctxDone, signals, repo, app, deferred, tmp, fetcher, server, request, gcLoop, checker>>

-----------------------------------------------------------------------------
(* daemonFunc from the API to the wait for shutdown.                       *)

Launch(ss) == server' = [s \in AllServers |-> IF s \in ss THEN "starting" ELSE server[s]]

\* serveHTTPApi: a listener or the api file fails, or one goroutine per listener.
ServeHTTPApi ==
  /\ pc = "api"
  /\ \/ Return /\ UNCHANGED server
     \/ Goto("mount") /\ Launch(Api)
  /\ UNCHANGED <<loaderVars, ctxDone, signals, repo, app, deferred, tmp, fetcher, child, request, gcLoop, checker>>

\* --mount (an error when offline, or of FUSE), then maybeRunGC: the loop runs
\* with --enable-gc, and ends at once when its period is zero or its config wrong.
MountAndGC ==
  /\ pc = "mount"
  /\ \/ Return /\ UNCHANGED gcLoop
     \/ Goto("gateway") /\ gcLoop' \in {"off", "waiting", "finished"}
  /\ UNCHANGED <<loaderVars, ctxDone, signals, repo, app, deferred, tmp, fetcher, child, server, request, checker>>

\* addMigrations, whose error is only printed; the directory is removed and the
\* fetcher closed (the deferred calls will find nothing left to do).
AddMigrations ==
  /\ pc = "gateway"
  /\ tmp' = FALSE /\ fetcher' = FALSE
  /\ Goto("serve")
  /\ UNCHANGED <<loaderVars, ctxDone, signals, repo, app, deferred, child, server, request, gcLoop, checker>>

\* serveHTTPGateway.
ServeHTTPGateway ==
  /\ pc = "serve"
  /\ \/ Return /\ UNCHANGED server
     \/ Goto("libp2p") /\ Launch(Gateway)
  /\ UNCHANGED <<loaderVars, ctxDone, signals, repo, app, deferred, tmp, fetcher, child, request, gcLoop, checker>>

\* serveTrustlessGatewayOverLibp2p, startPinMFS and the check that an online
\* daemon makes after a minute; the daemon is ready.
ServeLibp2pAndReady ==
  /\ pc = "libp2p"
  /\ \/ Return /\ UNCHANGED <<server, checker>>
     \/ /\ \/ UNCHANGED server
           \/ server' = [server EXCEPT !["libp2p"] = "serving"]
        /\ checker' \in {"off", "armed"}
        /\ Goto("wait")
  /\ UNCHANGED <<loaderVars, ctxDone, signals, repo, app, deferred, tmp, fetcher, child, request, gcLoop>>

\* The check runs once: startVersionChecker stops the ticker of its own loop
\* when it returns, and the loop waits for the end of the daemon.
CheckVersion ==
  /\ checker = "armed" /\ ~Gone
  /\ checker' \in {"off", "waiting"}
  /\ UNCHANGED <<loaderVars, pc, ctxDone, signals, repo, app, deferred, tmp, fetcher, child, server, request, gcLoop>>
CheckerStops ==
  /\ checker = "waiting" /\ (ctxDone \/ Closing) /\ ~Gone
  /\ checker' = "off"
  /\ UNCHANGED <<loaderVars, pc, ctxDone, signals, repo, app, deferred, tmp, fetcher, child, server, request, gcLoop>>

ChannelsClosed ==
  /\ \A s \in AllServers : server[s] \in {"none", "done"}
  /\ gcLoop \in {"off", "done"}

\* merge(apiErrc, gwErrc, gcErrc, p2pGwErrc): all of them must be closed.
WaitForChannels ==
  /\ pc = "wait" /\ ChannelsClosed
  /\ Return
  /\ UNCHANGED <<loaderVars, ctxDone, signals, repo, app, deferred, tmp, fetcher, child, server, request, gcLoop, checker>>

\* The deferred calls, last one first: node.Close waits for the node to stop.
DeferredNodeClose ==
  /\ pc = "return"
  /\ IF deferred
     THEN /\ app' = IF app = "running" THEN "closing" ELSE app
          /\ Goto("stopping")
     ELSE Goto("closeRepo") /\ UNCHANGED app
  /\ UNCHANGED <<loaderVars, ctxDone, signals, repo, deferred, tmp, fetcher, child, server, request, gcLoop, checker>>
DeferredNodeClosed ==
  /\ pc = "stopping" /\ app = "stopped"
  /\ Goto("closeRepo")
  /\ UNCHANGED <<loaderVars, ctxDone, signals, repo, app, deferred, tmp, fetcher, child, server, request, gcLoop, checker>>

\* repo.Close, which may find the repo closed by the node; the download directory
\* if it is still there; fetcher.Close.
DeferredRest ==
  /\ pc = "closeRepo"
  /\ repo' = "closed" /\ tmp' = FALSE /\ fetcher' = FALSE
  /\ Goto("exited")
  /\ UNCHANGED <<loaderVars, ctxDone, signals, app, deferred, child, server, request, gcLoop, checker>>

-----------------------------------------------------------------------------
(* Stopping the node.                                                      *)

\* SetupInterruptHandler: the first interrupt cancels the context, the second
\* ends the process.
Interrupt ==
  /\ ~Gone /\ signals < 2
  /\ signals' = signals + 1
  /\ IF signals = 0 THEN ctxDone' = TRUE /\ UNCHANGED pc ELSE Goto("killed") /\ UNCHANGED ctxDone
  /\ UNCHANGED <<loaderVars, repo, app, deferred, tmp, fetcher, child, server, request, gcLoop, checker>>

\* NewNode's goroutine stops the application when the context is cancelled.
StopOnCancel ==
  /\ ctxDone /\ app = "running" /\ ~Gone
  /\ app' = "closing"
  /\ UNCHANGED <<loaderVars, pc, ctxDone, signals, repo, deferred, tmp, fetcher, child, server, request, gcLoop, checker>>

\* `ipfs shutdown` closes the node, and returns when the node has stopped.
ShutdownCmd ==
  /\ request[Shutdown] = "running" /\ app = "running" /\ ~Gone
  /\ app' = "closing"
  /\ UNCHANGED <<loaderVars, pc, ctxDone, signals, repo, deferred, tmp, fetcher, child, server, request, gcLoop, checker>>
ShutdownReturns ==
  /\ request[Shutdown] = "running" /\ app = "stopped" /\ ~Gone
  /\ request' = [request EXCEPT ![Shutdown] = "done"]
  /\ UNCHANGED <<loaderVars, pc, ctxDone, signals, repo, app, deferred, tmp, fetcher, child, server, gcLoop, checker>>

\* The teardown of the plugins' child.
ClosePlugins ==
  /\ app = "closing" /\ child = "yes" /\ ~Gone
  /\ Close
  /\ child' = "closed"
  /\ UNCHANGED <<pc, ctxDone, signals, repo, app, deferred, tmp, fetcher, server, request, gcLoop, checker>>

\* baseProcess: Close returns when the children are closed, the accept loops
\* of the servers among them.
ProcessClosed ==
  /\ app = "closing" /\ child # "yes" /\ ~Gone
  /\ \A s \in Servers : server[s] # "serving"
  /\ app' = "closed"
  /\ UNCHANGED <<loaderVars, pc, ctxDone, signals, repo, deferred, tmp, fetcher, child, server, request, gcLoop, checker>>

\* The hooks of what was constructed before the process stop after it; the
\* repo's is one of them.
AppStopped ==
  /\ app = "closed" /\ ~Gone
  /\ app' = "stopped" /\ repo' = "closed"
  /\ UNCHANGED <<loaderVars, pc, ctxDone, signals, deferred, tmp, fetcher, child, server, request, gcLoop, checker>>

-----------------------------------------------------------------------------
(* Servers, requests and the GC loop.                                      *)

Serve(s, from, to) ==
  /\ server[s] = from /\ ~Gone
  /\ server' = [server EXCEPT ![s] = to]
  /\ UNCHANGED <<loaderVars, pc, ctxDone, signals, repo, app, deferred, tmp, fetcher, child, request, gcLoop, checker>>

\* corehttp.Serve: the handler cannot be made or the node is closing, and it
\* returns an error; else, in a second step, the accept loop becomes a child of
\* the process and serves, until it fails by itself.
ServeStart(s) == Serve(s, "starting", IF Closing THEN "returned" ELSE "checked")
ServeGo(s) == Serve(s, "checked", "serving")
ServeFails(s) == Serve(s, "starting", "returned") \/ Serve(s, "serving", "returned")

\* The node is closing: server.Shutdown ends the accept loop, then waits until
\* the requests have ended or shutdownTimeout has passed.
ServeClosing(s) == Closing /\ Serve(s, "serving", IF s = "libp2p" THEN "returned" ELSE "draining")
ServeDrained(s) == Serve(s, "draining", "returned")

\* The goroutine sends on the unbuffered error channel, which daemonFunc reads
\* only once it waits.
ServeSend(s) == pc = "wait" /\ Serve(s, "returned", "done")

RequestStart(r) ==
  /\ request[r] = "idle" /\ \E s \in Api : server[s] = "serving" /\ ~Gone
  /\ request' = [request EXCEPT ![r] = "running"]
  /\ UNCHANGED <<loaderVars, pc, ctxDone, signals, repo, app, deferred, tmp, fetcher, child, server, gcLoop, checker>>
RequestFinish(r) ==
  /\ r # Shutdown /\ request[r] = "running" /\ ~Gone
  /\ request' = [request EXCEPT ![r] = "done"]
  /\ UNCHANGED <<loaderVars, pc, ctxDone, signals, repo, app, deferred, tmp, fetcher, child, server, gcLoop, checker>>

GCStep(from, to) ==
  /\ gcLoop = from /\ ~Gone
  /\ gcLoop' = to
  /\ UNCHANGED <<loaderVars, pc, ctxDone, signals, repo, app, deferred, tmp, fetcher, child, server, request, checker>>

\* PeriodicGC: after each period maybeGC, whose error is logged; the end of the
\* context ends the loop and the collection.
GCTick == GCStep("waiting", "collecting")
GCCollected == GCStep("collecting", "waiting")
\* Mutant: the loop never looks at the context.
GCStopDeaf == FALSE /\ GCStep("waiting", "finished")
GCStop == ctxDone /\ GCStep("waiting", "finished")
GCSend == pc = "wait" /\ GCStep("finished", "done")

-----------------------------------------------------------------------------
Main ==
  \/ LoadPlugins \/ OpenRepo \/ Migrate \/ Configure \/ NewNode \/ StartPlugins
  \/ AddPluginChild \/ ServeHTTPApi \/ MountAndGC \/ AddMigrations \/ ServeHTTPGateway
  \/ ServeLibp2pAndReady \/ WaitForChannels \/ DeferredNodeClose \/ DeferredNodeClosed
  \/ DeferredRest

Stopping == StopOnCancel \/ ShutdownCmd \/ ShutdownReturns \/ ClosePlugins \/ ProcessClosed \/ AppStopped

ServerStep(s) == ServeStart(s) \/ ServeGo(s) \/ ServeClosing(s) \/ ServeDrained(s) \/ ServeSend(s)

DaemonNext ==
  \/ Main \/ Stopping \/ Interrupt \/ CheckVersion \/ CheckerStops
  \/ \E s \in AllServers : ServerStep(s) \/ ServeFails(s)
  \/ \E r \in Requests : RequestStart(r) \/ RequestFinish(r)
  \/ GCTick \/ GCCollected \/ GCStop \/ GCSend

\* The goroutines run: daemonFunc and the stop of the node go on, a server sees
\* the closing process and its timeout, a collection ends and the GC loop's
\* select sees a cancelled context although its timer keeps firing.  Nothing
\* says that a request ends or that anybody asks for the shutdown.
DaemonFairness ==
  /\ WF_dVars(Main) /\ WF_dVars(Stopping)
  /\ \A s \in AllServers : WF_dVars(ServerStep(s))
  /\ WF_dVars(GCCollected) /\ SF_dVars(GCStop) /\ WF_dVars(GCSend)

DaemonSpec == DaemonInit /\ [][DaemonNext]_dVars /\ DaemonFairness

-----------------------------------------------------------------------------
\* When the daemon returns, the plugins it started have been closed: only a node
\* that was closing before the loader became its child leaves them running
\* (the select before AddChild).
PluginsClosedAtExit == pc = "exited" /\ running # {} => child = "skipped"

\* The daemon's return leaves nothing behind, whichever step failed: the repo is
\* closed, the migration downloads and their fetcher are gone.
ReturnCleansUp == pc = "exited" => repo = "closed" /\ ~tmp /\ ~fetcher

\* An interrupt ends the daemon, wherever it is, and whatever its requests do.
InterruptExits == ctxDone ~> Gone

\* `ipfs shutdown` ends the daemon.
ShutdownExits == (request[Shutdown] = "running") ~> Gone
=============================================================================
