CONSTANTS
  StreamCmds <- mcStreamCmds
  MaxItems = 2
  Chunks = 3
  BufSize = 1
  AddNames <- mcAddNames
  EventsEach = 3
  OutChanSize = 1
  CarBlocks = {1, 2, 3}
  CarLinks <- mcCarLinks
  CarInputs <- mcCarInputs
  BatchMaxNodes = 1
  ParallelCommits = 2
  Cap = 2
  MaxResults = 5
  Modes = {"stream", "collect"}
  RootsMayFail = TRUE
  SwarmPeers = {"p", "q"}
  ConfigPeers = {"p"}
  SwarmArgs <- mcSwarmArgs
  PBlocks = {"r", "a", "b"}
  PLinks <- mcPLinks
  PArgs <- mcPArgs
  PAddrs = {"x", "y"}
  FeedPeers = 2
  RouterNames = {"a", "b", "c"}
  RouterConfigs <- mcRouterConfigs
  MethodNameList <- mcMethodNames
  MethodConfigs <- mcMethodConfigs
  Topics = {"t", "u"}
  MaxMessages = 3
  SubBuffer = 2
  EventQueueSize = 2
  BusyDrop = 1
  MaxEmitted = 5
  CleanupEvery = 2
  KeepTimes = {0, 2}
  MaxLogged = 3
  MaxTime = 2
SPECIFICATION Spec
INVARIANTS DeliveredWhole ImportKeepsRoots RoutingAsConfigured LogsAccounted
PROPERTIES ResolutionWhole NothingLeftWaiting LocksReleased
CHECK_DEADLOCK FALSE
