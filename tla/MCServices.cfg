CONSTANTS
  rA = rA  rB = rB  s1 = s1  s2 = s2  None = None
  Plugins <- mcPlugins
  DaemonPlugins <- mcDaemonPlugins
  Api = {"api"}
  Gateway = {}
  Requests = {"cat", "shutdown"}
  Shutdown = "shutdown"
  Roots = {rA, rB}
  Services = {s1, s2}
  Configs <- mcConfigs
  Hanging = {}
  MaxFaults <- mcFaults
  MaxChanges = 1
  MountKinds = {"ipfs", "mfs"}
  MountCmds = {1, 2}
  MaxMounting = 1
  FaultyKinds = {"mfs"}
  MaxFuseFaults = 1
  RemoteClients = {"a", "b"}
  RemoteCids = {"x"}
  MaxRequests = 3
  FirstRequests <- mcFirstRequests
  Versions = {14, 15, 16, 17}
  MigTarget = 16
  SourceLists <- mcSourceLists
  MaxTries = 2
  MaxRuns = 2
SPECIFICATION Spec
INVARIANTS NothingLeftBehind SeriesWhole RequestsKept
PROPERTIES InterruptExits PinsFollowMFS ServicesEnd
CHECK_DEADLOCK FALSE
