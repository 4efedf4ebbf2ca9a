------------------------------- MODULE FuseFS -------------------------------
(***************************************************************************)
(* The file systems behind the mounts: /mfs (fuse/mfs), /ipns              *)
(* (fuse/ipns) and the read-only /ipfs (fuse/readonly); and the `ipfs      *)
(* files` commands (core/commands/files.go), which change the tree of      *)
(* /mfs.  One request or command on directories at a time; reads of one    *)
(* open file arrive together (AsyncRead).  The mfs library is external:    *)
(* directories and files change in memory, and Flush brings them to the    *)
(* root, which is what outlives the daemon.                                *)
(***************************************************************************)
EXTENDS Naturals, FiniteSets

CONSTANTS
  FDirs,      \* directories
  FNames,     \* names in a directory
  FPlaces,    \* the pairs of a directory and a name that requests are about
  MaxFiles,   \* bound on the number of files ever created
  Readers,    \* reads of the open file in flight
  Offsets,    \* where they read
  MaxWrites   \* bound on the number of writes to the open file

ASSUME FuseFSConstants == MaxFiles \in Nat /\ MaxWrites \in Nat /\ IsFiniteSet(FDirs \union FNames) /\ FPlaces \subseteq FDirs \X FNames

NoFile == 0
FileIds == 1 .. MaxFiles

VARIABLES
  fsKind,    \* which writable file system: "mfs" or "ipns"
  tree,      \* tree[d][n]: the file of that name, in memory
  root,      \* the same, in the flushed root
  fop,       \* the request or command on directories
  kept,      \* history: files that were created and neither removed nor replaced
  astray,    \* history: files that were moved to another directory or not flushed, and new directories
  fhandle,   \* the open file: its position, and how much was written, flushed and acknowledged
  freader,   \* the reads in flight
  fsync,     \* the flush in flight: "idle", "running", "left" by its request, "flushed"
  ro         \* a node of the read-only file system, and the last answer about it

\* Requests on directories, on open files and on read-only nodes share no state.
fdVars == <<tree, root, fop, kept, astray>>
ffVars == <<fhandle, freader, fsync>>

NoOp == [req |-> "idle", dir |-> CHOOSE d \in FDirs : TRUE, name |-> CHOOSE n \in FNames : TRUE,
         to |-> CHOOSE d \in FDirs : TRUE, new |-> CHOOSE n \in FNames : TRUE, file |-> NoFile]
Closed == [open |-> FALSE, pos |-> 0, written |-> 0, durable |-> 0, acked |-> 0, asked |-> 0]

FuseDirInit ==
  /\ tree = [d \in FDirs |-> [n \in FNames |-> NoFile]] /\ root = tree
  /\ fop = NoOp /\ kept = {} /\ astray = {}

FuseFileInit ==
  /\ fhandle = Closed /\ freader = [r \in Readers |-> [pc |-> "idle", off |-> 0, got |-> 0]] /\ fsync = "idle"

RoInit == ro = [nd |-> "none", cached |-> FALSE, out |-> "none"]

Holds(t, f) == \E d \in FDirs, n \in FNames : t[d][n] = f
\* A new file: no name is left of an earlier one with that number.
FreeFile(f) == (\A g \in kept : g < f) /\ ~Holds(tree, f) /\ ~Holds(root, f)
DirAt(req) == fop.req = req
DirGoes(req) == fop' = [fop EXCEPT !.req = req]
DirEnds == fop' = NoOp

\* mfs.Directory, external: AddChild refuses a name that is taken, Unlink one that
\* is not there; Flush brings the directory to the root.
AddChild(d, n, f) == tree[d][n] = NoFile /\ tree' = [tree EXCEPT ![d][n] = f]
Unlink(d, n) == tree[d][n] # NoFile /\ tree' = [tree EXCEPT ![d][n] = NoFile]
FlushDir(d) == root' = [root EXCEPT ![d] = tree'[d]]

-----------------------------------------------------------------------------
\* Directory.Create of /ipns: the new file stays in memory.
IpnsCreate(d, n, f) ==
  /\ fsKind = "ipns" /\ DirAt("idle") /\ FreeFile(f)
  /\ AddChild(d, n, f)
  /\ kept' = kept \union {f} /\ astray' = astray \ {f}
  /\ UNCHANGED <<root, fop>> /\ UNCHANGED fsKind

\* Dir.Create of /mfs flushes the directory.  If that fails the request does too, and the
\* file stays in memory.
MfsCreate(d, n, f) ==
  /\ fsKind = "mfs" /\ DirAt("idle") /\ FreeFile(f)
  /\ AddChild(d, n, f) /\ kept' = kept \union {f}
  /\ \/ FlushDir(d) /\ astray' = astray \ {f}
     \/ UNCHANGED root /\ astray' = astray \union {f}
  /\ UNCHANGED fop /\ UNCHANGED fsKind

\* Mkdir, of both, leaves the new directory in memory, like a file that is not yet
\* flushed.
Mkdir(d, n, f) ==
  /\ DirAt("idle") /\ FreeFile(f)
  /\ AddChild(d, n, f)
  /\ kept' = kept \union {f} /\ astray' = astray \union {f}
  /\ UNCHANGED <<root, fop>>
MfsMkdir(d, n, f) == fsKind = "mfs" /\ Mkdir(d, n, f) /\ UNCHANGED fsKind
IpnsMkdir(d, n, f) == fsKind = "ipns" /\ Mkdir(d, n, f) /\ UNCHANGED fsKind

\* Directory.Remove of /ipns.
IpnsRemove(d, n) ==
  /\ fsKind = "ipns" /\ DirAt("idle")
  /\ Unlink(d, n)
  /\ kept' = kept \ {tree[d][n]}
  /\ UNCHANGED <<root, fop, astray>> /\ UNCHANGED fsKind

\* Dir.Remove of /mfs.  A directory has to be empty, and the kernel lets nothing
\* happen in it meanwhile.  The flush may fail here too.
MfsRemove(d, n) ==
  /\ fsKind = "mfs" /\ DirAt("idle")
  /\ Unlink(d, n) /\ (FlushDir(d) \/ UNCHANGED root)
  /\ kept' = kept \ {tree[d][n]}
  /\ UNCHANGED <<fop, astray>> /\ UNCHANGED fsKind

\* Directory.Rename of /ipns: first the old name goes, then the new one comes, if
\* nothing has that name; an error in between leaves the file without a name.
IpnsRename(d, n, to, new) ==
  /\ fsKind = "ipns" /\ DirAt("idle") /\ <<d, n>> # <<to, new>>
  /\ Unlink(d, n)
  /\ fop' = [req |-> "ipnsAdd", dir |-> d, name |-> n, to |-> to, new |-> new, file |-> tree[d][n]]
  /\ UNCHANGED <<root, kept, astray>> /\ UNCHANGED fsKind
IpnsRenameAdd ==
  /\ DirAt("ipnsAdd")
  /\ \/ AddChild(fop.to, fop.new, fop.file) /\ UNCHANGED kept
     \/ UNCHANGED tree /\ kept' = kept \ {fop.file}
  /\ DirEnds
  /\ UNCHANGED <<root, astray>> /\ UNCHANGED fsKind

\* Dir.Rename of /mfs: the file keeps its old name until it has the new one.  What
\* had the new name is unlinked before, and a failure after that loses it.
MfsRename(d, n, to, new) ==
  /\ fsKind = "mfs" /\ DirAt("idle") /\ <<d, n>> # <<to, new>>
  /\ tree[d][n] # NoFile
  /\ fop' = [req |-> "mfsTarget", dir |-> d, name |-> n, to |-> to, new |-> new, file |-> tree[d][n]]
  /\ UNCHANGED <<tree, root, kept, astray>> /\ UNCHANGED fsKind
MfsRenameTarget ==
  /\ DirAt("mfsTarget")
  /\ \/ /\ tree' = [tree EXCEPT ![fop.to][fop.new] = NoFile]
        /\ kept' = kept \ {tree[fop.to][fop.new]}
        /\ DirGoes("mfsAdd")
     \/ UNCHANGED <<tree, kept>> /\ DirEnds
  /\ UNCHANGED <<root, astray>> /\ UNCHANGED fsKind
MfsRenameAdd ==
  /\ DirAt("mfsAdd")
  /\ \/ AddChild(fop.to, fop.new, fop.file) /\ DirGoes("mfsOld")
     \/ UNCHANGED tree /\ DirEnds
  /\ UNCHANGED <<root, kept, astray>> /\ UNCHANGED fsKind
\* Only the directory the file was in is flushed.
MfsRenameOld ==
  /\ DirAt("mfsOld")
  /\ \/ /\ Unlink(fop.dir, fop.name) /\ FlushDir(fop.dir)
        /\ astray' = IF fop.dir = fop.to THEN astray ELSE astray \union {fop.file}
     \/ UNCHANGED <<tree, root>> /\ astray' = astray \union {fop.file}
  /\ DirEnds
  /\ UNCHANGED kept /\ UNCHANGED fsKind

-----------------------------------------------------------------------------
(* The `ipfs files` commands.  With --flush, the default, a command flushes  *)
(* what it changed at its end; a flush that fails leaves it in memory.       *)
CmdGoes(req, d, n, to, new, f) == fop' = [req |-> req, dir |-> d, name |-> n, to |-> to, new |-> new, file |-> f]

\* A new file or directory; without --flush it stays in memory.
FilesMade(d, n, f) ==
  /\ FreeFile(f) /\ AddChild(d, n, f)
  /\ kept' = kept \union {f} /\ astray' = astray \union {f}
  /\ CmdGoes("cmdFlush", d, n, d, n, f) \/ DirEnds
  /\ UNCHANGED root /\ UNCHANGED fsKind

\* A file that has the name is given up.
UnlinkNodeIfExists(d, n) == tree' = [tree EXCEPT ![d][n] = NoFile] /\ kept' = kept \ {tree[d][n]}

\* filesCpCmd, with --force and without.  Later the node that was read is put at the name,
\* if that is free.
FilesCpCmd(d, n) ==
  /\ fsKind = "mfs" /\ DirAt("idle")
  /\ UNCHANGED <<tree, kept>> \/ UnlinkNodeIfExists(d, n)
  /\ CmdGoes("cmdPut", d, n, d, n, NoFile)
  /\ UNCHANGED <<root, astray>> /\ UNCHANGED fsKind
FilesCpPut ==
  /\ DirAt("cmdPut")
  /\ \/ \E f \in FileIds : FilesMade(fop.dir, fop.name, f)
     \/ DirEnds /\ UNCHANGED <<tree, root, kept, astray>> /\ UNCHANGED fsKind

\* getFileHandle of filesWriteCmd, with --create.
FilesWriteNew(d, n, f) == fsKind = "mfs" /\ DirAt("idle") /\ FilesMade(d, n, f)

\* filesWriteCmd: a file that can be opened is flushed at the end, with its directory,
\* although its input fails.
FilesWriteCmd(d, n) ==
  /\ fsKind = "mfs" /\ DirAt("idle") /\ tree[d][n] # NoFile
  /\ CmdGoes("cmdFlush", d, n, d, n, tree[d][n])
  /\ UNCHANGED <<tree, root, kept, astray>> /\ UNCHANGED fsKind

FilesMkdirCmd(d, n, f) == fsKind = "mfs" /\ DirAt("idle") /\ FilesMade(d, n, f)

\* The flush at the end of those.
FilesFlushed ==
  /\ DirAt("cmdFlush") /\ UNCHANGED tree
  /\ \/ FlushDir(fop.dir) /\ astray' = astray \ {fop.file}
     \/ UNCHANGED <<root, astray>>
  /\ DirEnds
  /\ UNCHANGED kept /\ UNCHANGED fsKind

\* removePath flushes whatever --flush says.
FilesRmCmd(d, n) ==
  /\ fsKind = "mfs" /\ DirAt("idle")
  /\ Unlink(d, n) /\ (FlushDir(d) \/ UNCHANGED root)
  /\ kept' = kept \ {tree[d][n]}
  /\ UNCHANGED <<fop, astray>> /\ UNCHANGED fsKind

\* mfs.Mv, external: a file that has the new name is unlinked, the file gets that name and
\* loses the old one; an error leaves what was done so far.  (A move onto a directory is
\* one to a place in it.)
FilesMvCmd(d, n, to, new) ==
  /\ fsKind = "mfs" /\ DirAt("idle") /\ <<d, n>> # <<to, new>>
  /\ tree[d][n] # NoFile
  /\ kept' = kept \ {tree[to][new]}
  /\ \/ tree' = [tree EXCEPT ![to][new] = NoFile] /\ DirEnds /\ UNCHANGED astray
     \/ tree' = [tree EXCEPT ![to][new] = tree[d][n]] /\ DirEnds /\ UNCHANGED astray
     \/ /\ tree' = [[tree EXCEPT ![to][new] = tree[d][n]] EXCEPT ![d][n] = NoFile]
        /\ \/ CmdGoes("mvDst", d, n, to, new, tree[d][n]) /\ UNCHANGED astray
           \/ DirEnds /\ astray' = astray \union {tree[d][n]}
  /\ UNCHANGED root /\ UNCHANGED fsKind

\* Mutant: the directory the file was in is flushed first.
FilesMvSrcFirst ==
  /\ DirAt("mvDst") /\ UNCHANGED tree
  /\ \/ FlushDir(fop.dir) /\ DirGoes("mvSrc") /\ UNCHANGED astray
     \/ UNCHANGED root /\ DirEnds /\ astray' = astray \union {fop.file}
  /\ UNCHANGED kept /\ UNCHANGED fsKind

\* filesMvCmd flushes the directory the file is in now, then the other, then "/".
FilesMvDst ==
  /\ DirAt("mvDst") /\ UNCHANGED tree
  /\ \/ FlushDir(fop.to) /\ DirGoes("mvSrc") /\ UNCHANGED astray
     \/ UNCHANGED root /\ DirEnds /\ astray' = astray \union {fop.file}
  /\ UNCHANGED kept /\ UNCHANGED fsKind
FilesMvSrc ==
  /\ DirAt("mvSrc") /\ UNCHANGED tree
  /\ \/ fop.dir # fop.to /\ FlushDir(fop.dir) /\ DirGoes("mvRoot")
     \/ fop.dir = fop.to /\ UNCHANGED root /\ DirGoes("mvRoot")
     \/ UNCHANGED root /\ DirEnds
  /\ UNCHANGED <<kept, astray>> /\ UNCHANGED fsKind

\* A flush of "/" brings all directories to the root.
FlushRoot == root' = tree' /\ astray' = {}
FilesMvRoot ==
  /\ DirAt("mvRoot") /\ UNCHANGED tree /\ (FlushRoot \/ UNCHANGED <<root, astray>>)
  /\ DirEnds
  /\ UNCHANGED kept /\ UNCHANGED fsKind

\* filesFlushCmd of "/"; of a directory, as at the end of filesChcidCmd.
FilesFlushCmd ==
  /\ fsKind = "mfs" /\ DirAt("idle") /\ UNCHANGED tree /\ FlushRoot
  /\ UNCHANGED <<fop, kept>> /\ UNCHANGED fsKind
FilesChcidCmd(d) ==
  /\ fsKind = "mfs" /\ DirAt("idle") /\ UNCHANGED tree
  /\ FlushDir(d) /\ astray' = astray \ {tree[d][n] : n \in FNames}
  /\ UNCHANGED <<fop, kept>> /\ UNCHANGED fsKind

-----------------------------------------------------------------------------
\* FileNode.Open and File.Open; OpenTruncate is a write.
OpenFile ==
  /\ ~fhandle.open
  /\ fhandle' = [fhandle EXCEPT !.open = TRUE, !.pos = 0]
  /\ UNCHANGED <<freader, fsync>> /\ UNCHANGED fsKind
\* Write, and Setattr with a size.
WriteFile ==
  /\ fhandle.open /\ fhandle.written < MaxWrites
  /\ fhandle' = [fhandle EXCEPT !.written = @ + 1]
  /\ UNCHANGED <<freader, fsync>> /\ UNCHANGED fsKind

\* FileHandler.Read of /mfs: seek and read under the handler's lock.
MfsRead(r, off) ==
  /\ fsKind = "mfs" /\ fhandle.open /\ freader[r].pc = "idle"
  /\ fhandle' = [fhandle EXCEPT !.pos = off]
  /\ freader' = [freader EXCEPT ![r] = [pc |-> "done", off |-> off, got |-> off]]
  /\ UNCHANGED fsync /\ UNCHANGED fsKind
\* File.Read of /ipns has no lock: another read may move the position.
IpnsReadSeek(r, off) ==
  /\ fsKind = "ipns" /\ fhandle.open /\ freader[r].pc = "idle"
  /\ fhandle' = [fhandle EXCEPT !.pos = off]
  /\ freader' = [freader EXCEPT ![r] = [pc |-> "sought", off |-> off, got |-> 0]]
  /\ UNCHANGED fsync /\ UNCHANGED fsKind
IpnsReadFull(r) ==
  /\ fhandle.open /\ freader[r].pc = "sought"
  /\ freader' = [freader EXCEPT ![r].pc = "done", ![r].got = fhandle.pos]
  /\ UNCHANGED <<fhandle, fsync>> /\ UNCHANGED fsKind

\* FileHandler.Flush and File.Fsync of /mfs.
MfsFlush ==
  /\ fsKind = "mfs" /\ fhandle.open
  /\ \/ fhandle' = [fhandle EXCEPT !.durable = fhandle.written, !.acked = fhandle.written]
     \/ UNCHANGED fhandle
  /\ UNCHANGED <<freader, fsync>> /\ UNCHANGED fsKind

\* File.Flush and FileNode.Fsync of /ipns: a goroutine flushes.
IpnsFlush ==
  /\ fsKind = "ipns" /\ fhandle.open /\ fsync = "idle"
  /\ fsync' = "running" /\ fhandle' = [fhandle EXCEPT !.asked = fhandle.written]
  /\ UNCHANGED freader /\ UNCHANGED fsKind

IpnsFlushWork ==
  /\ fsync \in {"running", "left"}
  /\ \/ fhandle' = [fhandle EXCEPT !.durable = fhandle.written] /\ fsync' = IF fsync = "left" THEN "idle" ELSE "flushed"
     \/ UNCHANGED fhandle /\ fsync' = "idle"
  /\ UNCHANGED freader /\ UNCHANGED fsKind

\* The request returns what the goroutine sent, or, as it is interrupted by then,
\* an error; one that is interrupted before leaves the goroutine to flush on.
IpnsFlushReturn ==
  /\ fsync = "flushed"
  /\ \/ fhandle' = [fhandle EXCEPT !.acked = fhandle.asked]
     \/ UNCHANGED fhandle
  /\ fsync' = "idle"
  /\ UNCHANGED freader /\ UNCHANGED fsKind
IpnsFlushInterrupted ==
  /\ fsync = "running" /\ fsync' = "left"
  /\ UNCHANGED <<fhandle, freader>> /\ UNCHANGED fsKind

\* Release closes the descriptor, and with Sync that flushes; Forget flushes too.
ReleaseFile ==
  /\ fhandle.open /\ fsync = "idle" /\ \A r \in Readers : freader[r].pc # "sought"
  /\ fhandle' = [fhandle EXCEPT !.open = FALSE, !.durable = fhandle.written]
  /\ freader' = [r \in Readers |-> [pc |-> "idle", off |-> 0, got |-> 0]]
  /\ UNCHANGED fsync /\ UNCHANGED fsKind

-----------------------------------------------------------------------------
\* The read-only file system.  Root.Lookup finds a raw block, a UnixFS directory,
\* file or symlink, or nothing; Node.Lookup also makes a node of a block that is
\* not there.
RoTypes == {"raw", "dir", "file", "symlink"}
RoRootLookup ==
  /\ \/ \E t \in RoTypes : ro' = [nd |-> t, cached |-> FALSE, out |-> "looked"]
     \/ ro' = [nd |-> "none", cached |-> FALSE, out |-> "enoent"]
RoNodeLookup ==
  /\ ro.nd = "dir" /\ ro.out \notin {"looked", "panic"}
  /\ \/ \E t \in RoTypes \union {"missing"} : ro' = [nd |-> t, cached |-> FALSE, out |-> "looked"]
     \/ ro' = [ro EXCEPT !.out = "enoent"]

\* Attr, which the kernel asks for after every lookup, loads the node's data; a
\* node without a block has none to ask for its type.
RoAttr ==
  /\ ro.out = "looked"
  /\ ro' = [ro EXCEPT !.cached = ro.nd \in RoTypes \ {"raw"},
                      !.out = IF ro.nd = "missing" THEN "panic" ELSE "attr"]
RoReadDirAll ==
  /\ ro.nd = "dir" /\ ro.out \notin {"looked", "panic"}
  /\ \E o \in {"entries", "enoent", "error"} : ro' = [ro EXCEPT !.out = o]
RoReadlink ==
  /\ ro.nd = "symlink" /\ ro.out \notin {"looked", "panic"}
  /\ ro' = [ro EXCEPT !.out = IF ro.cached THEN "target" ELSE "einval"]
RoRead ==
  /\ ro.nd \in {"raw", "file"} /\ ro.out \notin {"looked", "panic"}
  /\ \E o \in {"data", "error"} : ro' = [ro EXCEPT !.out = o]

FilesCmdNext ==
  \/ \E d \in FDirs, n \in FNames :
       /\ <<d, n>> \in FPlaces
       /\ \/ FilesCpCmd(d, n) \/ FilesWriteCmd(d, n) \/ FilesRmCmd(d, n)
          \/ \E f \in FileIds : FilesWriteNew(d, n, f) \/ FilesMkdirCmd(d, n, f)
          \/ \E to \in FDirs, new \in FNames : <<to, new>> \in FPlaces /\ FilesMvCmd(d, n, to, new)
  \/ FilesCpPut \/ FilesFlushed \/ FilesMvDst \/ FilesMvSrc \/ FilesMvRoot
  \/ FilesFlushCmd \/ \E d \in FDirs : FilesChcidCmd(d)

FuseDirNext ==
  \/ FilesCmdNext
  \/ \E d \in FDirs, n \in FNames :
       /\ <<d, n>> \in FPlaces
       /\ \/ \E f \in FileIds : IpnsCreate(d, n, f) \/ MfsCreate(d, n, f) \/ IpnsMkdir(d, n, f) \/ MfsMkdir(d, n, f)
          \/ IpnsRemove(d, n) \/ MfsRemove(d, n)
          \/ \E to \in FDirs, new \in FNames :
               <<to, new>> \in FPlaces /\ (IpnsRename(d, n, to, new) \/ MfsRename(d, n, to, new))
  \/ IpnsRenameAdd \/ MfsRenameTarget \/ MfsRenameAdd \/ MfsRenameOld

FuseFileNext ==
  \/ OpenFile \/ WriteFile \/ ReleaseFile \/ MfsFlush \/ IpnsFlush \/ IpnsFlushWork \/ IpnsFlushReturn
  \/ IpnsFlushInterrupted
  \/ \E r \in Readers :
       \/ IpnsReadFull(r)
       \/ \E off \in Offsets : MfsRead(r, off) \/ IpnsReadSeek(r, off)

RoNext == RoRootLookup \/ RoNodeLookup \/ RoAttr \/ RoReadDirAll \/ RoReadlink \/ RoRead

FuseFSInit == fsKind \in {"mfs", "ipns"} /\ FuseDirInit /\ FuseFileInit /\ RoInit
FuseFSNext ==
  \/ FuseDirNext /\ UNCHANGED <<ffVars, ro>>
  \/ FuseFileNext /\ UNCHANGED <<fdVars, ro>>
  \/ RoNext /\ UNCHANGED <<fsKind, fdVars, ffVars>>
fsVars == <<fsKind, fdVars, ffVars, ro>>
FuseFSSpec == FuseFSInit /\ [][FuseFSNext]_fsVars

-----------------------------------------------------------------------------
\* Whatever fails in a rename or move in /mfs, the file has a name, the old one, the
\* new one or both.
FilesNamed == fsKind = "mfs" => \A f \in kept : Holds(tree, f)

\* What was created in /mfs, renamed inside its directory or moved by a command is in the
\* flushed root at every moment, also between the flushes of a move, and so outlives the
\* daemon, unless a flush failed or was not asked for (files.go:863).
FlushedSurvives == fsKind = "mfs" => \A f \in kept \ astray : Holds(root, f)

\* A read of /mfs returns the bytes at its own offset, whatever reads are in flight
\* on the same handle.
ReadsOwnOffset == fsKind = "mfs" => \A r \in Readers : freader[r].pc = "done" => freader[r].got = freader[r].off

\* A flush that reported success flushed what was written before it was asked for.
SyncedIsFlushed == fhandle.acked <= fhandle.durable

\* Once the kernel has asked for the attributes, a symlink can be read.
SymlinkReadable == ro.out # "einval"

\* What the kernel and the commands are told of the files is so: names and flushed writes
\* last, reads give the bytes at their offset, and a symlink can be read.
FuseTellsTruth ==
  FilesNamed /\ FlushedSurvives /\ ReadsOwnOffset /\ SyncedIsFlushed /\ SymlinkReadable
=============================================================================
