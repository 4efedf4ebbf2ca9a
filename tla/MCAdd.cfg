CONSTANTS
  a1 = a1  a2 = a2  f1 = f1  g1 = g1
  hDir0 = hDir0  hDir1 = hDir1  hDir2 = hDir2  hOne = hOne
  hFile = hFile  hFile2 = hFile2
  None = None
  Block <- mcBlock
  Cids <- mcCids
  Links <- mcLinks
  Store0 <- mcStore0
  RPins0 = {}
  DPins0 = {}
  Mfs0 <- mcMfs0
  Adders = {a1, a2}
  Files <- mcFiles
  PartialDir <- mcPartialDir
  AddsDirectory <- mcAddsDirectory
  PinAdders = {a1}
  Collectors = {g1}
  Users = {}
  Requests = {}
  Removers = {}
  RmArgs = {}
  FilesClients = {f1}
  FilesOps <- mcFilesOps
  Procs <- mcProcs
SPECIFICATION Spec
INVARIANTS AddedBlocksKept UntouchedTreeKept
