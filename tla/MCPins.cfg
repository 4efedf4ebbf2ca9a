CONSTANTS
  u1 = u1  u2 = u2  g1 = g1  g2 = g2  r1 = r1
  hA = hA  hMid = hMid  hLeaf = hLeaf  hB = hB  hExtra = hExtra  hFiles = hFiles
  None = None
  Block <- mcBlock
  Cids <- mcCids
  Links <- mcLinks
  Store0 <- mcStore0
  RPins0 <- mcRPins0
  DPins0 <- mcDPins0
  Mfs0 <- mcMfs0
  Adders = {}
  Files <- mcNoFiles
  PartialDir <- mcNoFiles
  AddsDirectory = {}
  PinAdders = {}
  Collectors = {g1}
  Users = {u1, u2}
  Requests <- mcRequests
  Removers = {r1}
  RmArgs <- mcRmArgs
  FilesClients = {}
  FilesOps = {}
  Procs <- mcProcs
SPECIFICATION Spec
INVARIANT LockExclusion
PROPERTIES SweepSparesPins IncompletePinStopsSweep RmSparesPins NewPinsComplete ImplementsPinnedStore
