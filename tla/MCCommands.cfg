CONSTANTS
  a1 = a1  u1 = u1  g1 = g1  r1 = r1
  hDir0 = hDir0  hDir1 = hDir1  hFile = hFile  hOther = hOther
  None = None
  Block <- mcBlock
  Cids <- mcCids
  Links <- mcLinks
  Store0 = {hDir0}
  RPins0 = {}
  DPins0 = {}
  Mfs0 <- mcMfs0
  Adders = {a1}
  Files <- mcFiles
  PartialDir <- mcPartialDir
  AddsDirectory = {a1}
  PinAdders = {a1}
  Collectors = {g1}
  Users = {u1}
  Requests <- mcRequests
  Removers = {r1}
  RmArgs <- mcRmArgs
  FilesClients = {}
  FilesOps = {}
  Procs <- mcProcs
  FDirs = {"d", "e"}
  FNames = {"a", "b"}
  FPlaces <- mcFPlaces
  MaxFiles = 2
  Readers = {"r1", "r2"}
  Offsets = {1, 2}
  MaxWrites = 2
  KeyNames = {"a", "b"}
  KeyCmds = {"c1", "c2"}
  FullKeyCmds = {"c2"}
  MaxKey = 3
  FilterTexts = {"t1", "t1x", "junk"}
  MaskOf <- mcMaskOf
  PeerIds = {"p"}
  PeerAddrs = {"x"}
  ListCmds = {"c1", "c2"}
  ListArgs <- mcListArgs
  BootDefault <- mcBootDefault
  RefNodes = {1, 2, 3, 4}
  RefDags <- mcRefDags
  RefArguments <- mcRefArguments
  RefDepths <- mcRefDepths
  RefMissing = {{}, {3}}
  CatSizes <- mcCatSizes
  CatOffsets <- mcCatOffsets
  CatMaxes <- mcCatMaxes
  VersionSize <- mcVersionSize
  ForwardSeekLimit = 2
  SeekOffsets <- mcSeekOffsets
  ServerFilters <- mcServerFilters
  DefaultPeers <- mcDefaultPeers
  InitProfiles <- mcInitProfiles
  ProfilesApplied <- mcProfilesApplied
  MaxEdits = 2
  LimitPeers = {"p", "q"}
  RmConfigs <- mcRmConfigs
  BytesPerMB = 4
  MinInbound = 2
  ScaledLimits <- mcScaledLimits
  Endpoints <- mcEndpoints
  ConnIds = {1, 2}
  MuxMemory = 2
  SubnetConns = 2
  MaxRefused = 1
  MaxCounted = 1
  Specs <- mcSpecs
  Mountpoints <- mcMountpoints
  DsKeys <- mcDsKeys
  DriveRequests <- mcDriveRequests
  DrivePaths <- mcDrivePaths
  MaxDriveCrashes = 1
SPECIFICATION CommandsSpec
INVARIANTS
  FuseTellsTruth KeysKept ListsKept RefsTrue ReadsExact ProfilesReversible LimitsSound DiskSpecExact
  DriveKept
PROPERTIES StoreCallsEnd
CHECK_DEADLOCK FALSE
