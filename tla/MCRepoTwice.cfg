SPECIFICATION Spec
CONSTANTS
  daemon = daemon
  init = init
  edit = edit
  service = service
  remove = remove
  key = key
  None = None
  Torn = Torn
  Handles = {daemon, edit}
  Procs <- mcOneProc
  ProcOf <- mcOneProcOf
  Kind <- mcKind
  Commands <- mcCommands
  UserKeys = {"mine"}
  RefMod = 8
  SlowCommands = TRUE
  FaultKinds = {}
  MaxFaults = 1
  MaxCrashes = 0
INVARIANT OpenMeansLocked
CHECK_DEADLOCK FALSE
