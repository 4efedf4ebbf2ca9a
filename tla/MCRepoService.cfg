SPECIFICATION Spec
CONSTANTS
  daemon = daemon
  init = init
  edit = edit
  service = service
  remove = remove
  key = key
  None = None
  Torn = Torn
  Handles = {daemon, service, remove}
  Procs <- mcOneProc
  ProcOf <- mcOneProcOf
  Kind <- mcKind
  Commands <- mcCommands
  UserKeys = {"mine"}
  RefMod = 8
  SlowCommands = FALSE
  FaultKinds = {}
  MaxFaults = 1
  MaxCrashes = 0
INVARIANT ServiceRemoved
CHECK_DEADLOCK FALSE
