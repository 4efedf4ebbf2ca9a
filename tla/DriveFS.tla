------------------------------ MODULE DriveFS ------------------------------
(***************************************************************************)
(* The virtual file system of DecentralisedDrive: one JSON file, read as a *)
(* whole, changed in memory and written back by the server's add-file and  *)
(* add-folder routes and by scripts/manageVirtualFs.ts, a process of its   *)
(* own.  The server is one thread: between two awaits of a route no other  *)
(* request runs.  writeFileSync empties the file before it fills it, which *)
(* the other process, and a crash, can meet.                               *)
(*                                                                         *)
(* A tree is the sequence of its nodes in the order they were pushed, each *)
(* with the index of its folder, 0 for the root: `find` takes the first.   *)
(***************************************************************************)
EXTENDS Integers, Sequences, SequencesExt, FiniteSets

CONSTANTS
  DriveRequests,    \* the requests: their id to [kind, path]
  DrivePaths,       \* the paths the script adds: a folder, then files
  MaxDriveCrashes   \* crashes and failing writes

\* An uploaded file is added to the root, under its name.
ASSUME DriveConstants ==
  /\ \A r \in DOMAIN DriveRequests :
       /\ DriveRequests[r].kind \in {"file", "folder"} /\ DriveRequests[r].path \in Seq(STRING) \ {<<>>}
       /\ DriveRequests[r].kind = "file" => Len(DriveRequests[r].path) = 1
  /\ DrivePaths \in Seq(Seq(STRING) \ {<<>>}) \ {<<>>} /\ MaxDriveCrashes \in Nat

DriveIds == DOMAIN DriveRequests
Broken == <<[type |-> "broken"]>>   \* what JSON.parse refuses
NoNode == -1

VARIABLES
  drive,        \* the file
  dreq,         \* requests: pc, the tree in memory (vfs) and the saves still to come
  script,       \* the script: the same, and the paths it has still to add
  driveFaults,
  beside        \* history: requests whose update ran beside the script

drVars == <<drive, dreq, script, driveFaults, beside>>

----------------------------------------------------------------------------
(* utils/virtualFs.ts.                                                     *)
IsFolder(v, i) == i = 0 \/ v[i].type = "folder"

\* children.find: the first child of that name and type.
FindChild(v, dir, name, types) ==
  LET hits == {i \in 1 .. Len(v) : v[i].dir = dir /\ v[i].name = name /\ v[i].type \in types}
  IN IF hits = {} THEN NoNode ELSE CHOOSE i \in hits : \A j \in hits : i <= j

\* findNode: of a file and a folder of one name it meets the older one.
FindNode(v, path) ==
  LET at[i \in 0 .. Len(path)] ==
        IF i = 0 THEN 0
        ELSE IF at[i - 1] = NoNode \/ ~IsFolder(v, at[i - 1]) THEN NoNode
        ELSE FindChild(v, at[i - 1], path[i], {"file", "folder"})
  IN at[Len(path)]

\* addFolder looks for folders only, and makes those that are not there.
FolderStep(s, part) ==
  LET next == FindChild(s.v, s.at, part, {"folder"}) IN
  IF next # NoNode THEN [v |-> s.v, at |-> next]
  ELSE [v |-> Append(s.v, [dir |-> s.at, name |-> part, type |-> "folder"]), at |-> Len(s.v) + 1]

AddFolder(v, path) ==
  LET upTo[i \in 0 .. Len(path)] ==
        IF i = 0 THEN [v |-> v, at |-> 0] ELSE FolderStep(upTo[i - 1], path[i])
  IN upTo[Len(path)].v

\* addFile: without its folder the file is not added, and nobody is told.
AddFile(v, path) ==
  LET folder == FindNode(v, Front(path)) IN
  IF folder = NoNode \/ ~IsFolder(v, folder) THEN v
  ELSE Append(v, [dir |-> folder, name |-> Last(path), type |-> "file"])

DriveAdded(v, kind, path) == IF kind = "folder" THEN AddFolder(v, path) ELSE AddFile(v, path)

----------------------------------------------------------------------------
DriveInit ==
  /\ drive = <<>> /\ driveFaults = 0 /\ beside = {}
  /\ dreq = [r \in DriveIds |-> [pc |-> "new", vfs |-> <<>>, saves |-> 0]]
  /\ script = [pc |-> "new", vfs |-> <<>>, saves |-> 0, todo |-> DrivePaths]

Saving == {"truncate", "write"}
InSection == {r \in DriveIds : dreq[r].pc \in Saving}
IsFile(r) == DriveRequests[r].kind = "file"
DriveAt(pc) == [pc |-> pc, vfs |-> <<>>, saves |-> 0]
DriveAnswer(r, pc) == dreq' = [dreq EXCEPT ![r] = DriveAt(pc)]

\* add-file: the upload to the node (an await), which may fail.
DriveUpload(r) ==
  /\ dreq[r].pc = "new" /\ IsFile(r)
  /\ \E pc \in {"uploaded", "error"} : DriveAnswer(r, pc)
  /\ UNCHANGED <<drive, script, driveFaults, beside>>

\* loadVirtualFsFromDisk and the change in memory.  A file that does not parse is an
\* error of add-folder, and of add-file a success with a warning.  addFile saves,
\* and the route saves again.
DriveUpdate(r) ==
  /\ dreq[r].pc = (IF IsFile(r) THEN "uploaded" ELSE "new")
  /\ IF drive = Broken
     THEN DriveAnswer(r, IF IsFile(r) THEN "warned" ELSE "error") /\ UNCHANGED beside
     ELSE /\ dreq' = [dreq EXCEPT ![r] = [pc    |-> "truncate",
                                          vfs   |-> DriveAdded(drive, DriveRequests[r].kind, DriveRequests[r].path),
                                          saves |-> IF IsFile(r) THEN 2 ELSE 1]]
          /\ beside' = IF script.pc \in Saving THEN beside \union {r} ELSE beside
  /\ UNCHANGED <<drive, script, driveFaults>>

\* Mutant: the file is read with an await, after which other requests run.
DriveLoadAwaits(r) == DriveUpdate(r)

DriveLoad(r) == InSection = {} /\ DriveUpdate(r)

\* writeFileSync, and the answer after the last one.
DriveTruncate(r) ==
  /\ dreq[r].pc = "truncate"
  /\ drive' = Broken /\ dreq' = [dreq EXCEPT ![r].pc = "write"]
  /\ UNCHANGED <<script, driveFaults, beside>>
DriveWrite(r) ==
  /\ dreq[r].pc = "write"
  /\ drive' = dreq[r].vfs
  /\ IF dreq[r].saves > 1
     THEN dreq' = [dreq EXCEPT ![r].pc = "truncate", ![r].saves = @ - 1]
     ELSE DriveAnswer(r, "ok")
  /\ UNCHANGED <<script, driveFaults, beside>>

DriveFault == driveFaults < MaxDriveCrashes /\ driveFaults' = driveFaults + 1

\* writeFileSync throws, before or after it has emptied the file.
DriveSaveFails(r) ==
  /\ dreq[r].pc \in Saving /\ DriveFault
  /\ DriveAnswer(r, IF IsFile(r) THEN "warned" ELSE "error")
  /\ UNCHANGED <<drive, script, beside>>

\* The server dies with the requests it works on, and is started again.
DriveCrash ==
  /\ DriveFault
  /\ dreq' = [r \in DriveIds |-> IF dreq[r].pc \in Saving \union {"uploaded"} THEN DriveAt("error") ELSE dreq[r]]
  /\ UNCHANGED <<drive, script, beside>>

----------------------------------------------------------------------------
(* scripts/manageVirtualFs.ts: one load; every addition saves the whole,   *)
(* and after the last one the script saves once more.                      *)
ScriptLoad ==
  /\ script.pc = "new"
  /\ IF drive = Broken THEN script' = [script EXCEPT !.pc = "died"]
     ELSE script' = [pc    |-> "truncate", vfs |-> AddFolder(drive, Head(DrivePaths)),
                     saves |-> Len(DrivePaths) + 1, todo |-> Tail(DrivePaths)]
  /\ beside' = beside \union InSection
  /\ UNCHANGED <<drive, dreq, driveFaults>>

ScriptTruncate ==
  /\ script.pc = "truncate" /\ drive' = Broken /\ script' = [script EXCEPT !.pc = "write"]
  /\ UNCHANGED <<dreq, driveFaults, beside>>

ScriptWrite ==
  /\ script.pc = "write" /\ drive' = script.vfs
  /\ script' = [pc    |-> IF script.saves > 1 THEN "truncate" ELSE "done",
                vfs   |-> IF script.todo = <<>> THEN script.vfs ELSE AddFile(script.vfs, Head(script.todo)),
                saves |-> script.saves - 1,
                todo  |-> IF script.todo = <<>> THEN <<>> ELSE Tail(script.todo)]
  /\ UNCHANGED <<dreq, driveFaults, beside>>

\* The script is interrupted, or its write fails.
ScriptDies ==
  /\ script.pc \in Saving /\ DriveFault
  /\ script' = [script EXCEPT !.pc = "died", !.vfs = <<>>]
  /\ UNCHANGED <<drive, dreq, beside>>

DriveNext ==
  \/ \E r \in DriveIds : DriveUpload(r) \/ DriveLoad(r) \/ DriveTruncate(r) \/ DriveWrite(r) \/ DriveSaveFails(r)
  \/ DriveCrash
  \/ ScriptLoad \/ ScriptTruncate \/ ScriptWrite \/ ScriptDies

DriveSpec == DriveInit /\ [][DriveNext]_drVars

----------------------------------------------------------------------------
\* What the page asked for is in the tree: an uploaded file is in the root.
InTree(v, r) ==
  LET path == DriveRequests[r].path IN
  IF IsFile(r) THEN FindChild(v, 0, path[1], {"file"}) # NoNode ELSE AddFolder(v, path) = v

\* What the server answered with success, and without a warning, is in the file
\* whenever it can be read, through other requests, the script, failing writes and
\* crashes, unless the request ran beside the script (add-file/route.ts:63); and
\* the file can be read unless a save is in progress or was cut off.
DriveKept ==
  /\ drive # Broken => \A r \in DriveIds \ beside : dreq[r].pc = "ok" => InTree(drive, r)
  /\ drive = Broken => "write" \in {dreq[r].pc : r \in DriveIds} \union {script.pc} \/ driveFaults > 0
=============================================================================
