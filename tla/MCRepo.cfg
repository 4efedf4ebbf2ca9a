SPECIFICATION Spec
CONSTANTS
  daemon = daemon
  init = init
  edit = edit
  service = service
  remove = remove
  key = key
  None = None
  Torn = Torn
  Handles = {daemon, init, edit, key, service}
  Procs <- mcProcs
  ProcOf <- mcProcOf
  Kind <- mcKind
  Commands <- mcCommands
  UserKeys = {"mine"}
  RefMod = 8
  SlowCommands = FALSE
  FaultKinds = {"keystore", "close", "write"}
  MaxFaults = 1
  MaxCrashes = 1
INVARIANTS
  OpenMeansLocked
  LockNotLeaked
  ApiFileOwn
  MemoryMatchesDisk
  SequentialEditsKept
CHECK_DEADLOCK FALSE
