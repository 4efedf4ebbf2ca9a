------------------------------- MODULE DagCar -------------------------------
(***************************************************************************)
(* ipfs dag import and ipfs dag export (core/commands/dag/import.go,       *)
(* export.go).  Import reads CAR files block by block into a batch that    *)
(* commits in the background, and pins the roots at the end, under the pin *)
(* lock, while the garbage collector waits for its turn.  Export walks a   *)
(* DAG into a pipe whose reader is the response.                           *)
(***************************************************************************)
EXTENDS Integers, Sequences, SequencesExt, FiniteSets, FiniteSetsExt

CONSTANTS
  CarBlocks,       \* blocks
  CarLinks,        \* [CarBlocks -> SUBSET CarBlocks]: acyclic
  CarInputs,       \* what a user may import: sequences of CAR files
  BatchMaxNodes,   \* Import.BatchMaxNodes
  ParallelCommits  \* commits of a batch at once

ASSUME CarConstants ==
  /\ CarLinks \in [CarBlocks -> SUBSET CarBlocks] /\ BatchMaxNodes \in Nat /\ ParallelCommits \in Nat \ {0}
  /\ CarInputs \subseteq Seq([roots : SUBSET CarBlocks, blocks : Seq(CarBlocks), end : {"eof", "broken"}])

VARIABLES
  carFiles, carOpts,   \* the arguments, --pin-roots
  imp,                 \* dagImport: pc, file and block it is at, roots seen, roots to pin, blocks counted, error
  batch,               \* ipld.Batch: nodes, the commits under way, results not yet read
  carStore, carPinned, \* the block store and the recursive pins
  carLocked,           \* the pin lock is held
  rootMetas,           \* what was emitted for each root: root |-> "pinned" or "error"
  carFault             \* history: a write of blocks failed

imVars == <<carFiles, carOpts, imp, batch, carStore, carPinned, carLocked, rootMetas, carFault>>

\* The DAG below a block.
Below[b \in CarBlocks] == {b} \union UNION {Below[c] : c \in CarLinks[b]}

ImportInit ==
  /\ carFiles \in CarInputs /\ carOpts \in BOOLEAN
  /\ imp = [pc |-> "start", file |-> 1, at |-> 0, roots |-> {}, left |-> {}, count |-> 0, err |-> FALSE]
  /\ batch = [nodes |-> {}, commits |-> <<>>, results |-> <<>>, err |-> FALSE]
  /\ carStore = {} /\ carPinned = {} /\ carLocked = FALSE /\ rootMetas = [r \in {} |-> "error"] /\ carFault = FALSE

\* The lock is freed on every way out.
ImportEnds(err) == imp' = [imp EXCEPT !.pc = "done", !.err = err] /\ carLocked' = FALSE

\* Mutant: the roots are pinned without the lock.
ImportStartUnlocked ==
  /\ imp.pc = "start" /\ imp' = [imp EXCEPT !.pc = "open"]
  /\ UNCHANGED <<carFiles, carOpts, batch, carStore, carPinned, carLocked, rootMetas, carFault>>

\* With --pin-roots the pin lock is taken for the whole of the import.
ImportStart ==
  /\ imp.pc = "start" /\ imp' = [imp EXCEPT !.pc = "open"] /\ carLocked' = carOpts
  /\ UNCHANGED <<carFiles, carOpts, batch, carStore, carPinned, rootMetas, carFault>>

\* The header of the next file: its roots are remembered.
ImportOpen ==
  /\ imp.pc = "open" /\ imp.file <= Len(carFiles)
  /\ imp' = [imp EXCEPT !.pc = "read", !.at = 1, !.roots = @ \union carFiles[imp.file].roots]
  /\ UNCHANGED <<carFiles, carOpts, batch, carStore, carPinned, carLocked, rootMetas, carFault>>

\* Batch.processResults: the commits that are done.
WithResults(b) == [b EXCEPT !.results = <<>>, !.err = @ \/ TRUE \in ToSet(b.results)]
Running(b) == Len(b.commits) + Len(b.results)

\* Batch.asyncCommit.
AsyncCommit(b) ==
  IF b.nodes = {} THEN b ELSE [b EXCEPT !.commits = Append(@, b.nodes), !.nodes = {}]

\* Batch.Add: results that are there are looked at, and a full batch is committed.
\* It waits for a result when enough commits are under way.
ImportBlock ==
  LET car == carFiles[imp.file]
      seen == WithResults(batch)
      added == [seen EXCEPT !.nodes = @ \union {car.blocks[imp.at]}]
      full == Cardinality(added.nodes) > BatchMaxNodes
  IN /\ imp.pc = "read" /\ imp.at <= Len(car.blocks)
     /\ ~seen.err /\ full => Running(seen) < ParallelCommits
     /\ batch' = IF seen.err THEN seen ELSE IF full THEN AsyncCommit(added) ELSE added
     /\ IF seen.err THEN ImportEnds(TRUE)
        ELSE imp' = [imp EXCEPT !.at = @ + 1, !.count = @ + 1] /\ UNCHANGED carLocked
     /\ UNCHANGED <<carFiles, carOpts, carStore, carPinned, rootMetas, carFault>>

\* The end of a file; or a block that is cut off, too large or cannot be decoded.
ImportFileEnd ==
  /\ imp.pc = "read" /\ imp.at > Len(carFiles[imp.file].blocks)
  /\ IF carFiles[imp.file].end = "eof"
     THEN imp' = [imp EXCEPT !.pc = "open", !.file = @ + 1] /\ UNCHANGED carLocked
     ELSE ImportEnds(TRUE)
  /\ UNCHANGED <<carFiles, carOpts, batch, carStore, carPinned, rootMetas, carFault>>

\* A commit under way writes its blocks, or fails.
CommitWrites(i) ==
  /\ carStore' = carStore \union batch.commits[i]
  /\ batch' = [batch EXCEPT !.commits = RemoveAt(@, i), !.results = Append(@, FALSE)]
  /\ UNCHANGED <<carFiles, carOpts, imp, carPinned, carLocked, rootMetas, carFault>>
CommitFails(i) ==
  /\ \E part \in SUBSET batch.commits[i] : part # batch.commits[i] /\ carStore' = carStore \union part
  /\ batch' = [batch EXCEPT !.commits = RemoveAt(@, i), !.results = Append(@, TRUE)]
  /\ carFault' = TRUE
  /\ UNCHANGED <<carFiles, carOpts, imp, carPinned, carLocked, rootMetas>>

\* Batch.Commit after the last file: what is left is committed.
ImportCommit ==
  LET seen == WithResults(batch) IN
  /\ imp.pc = "open" /\ imp.file > Len(carFiles)
  /\ ~seen.err /\ batch.nodes # {} => Running(seen) < ParallelCommits
  /\ batch' = IF seen.err THEN seen ELSE AsyncCommit(seen)
  /\ IF seen.err THEN ImportEnds(TRUE) ELSE imp' = [imp EXCEPT !.pc = "commit"] /\ UNCHANGED carLocked
  /\ UNCHANGED <<carFiles, carOpts, carStore, carPinned, rootMetas, carFault>>

\* It waits for every commit, or for the first that failed.
ImportCommitted ==
  /\ imp.pc = "commit"
  /\ \/ /\ batch.results # <<>> /\ batch' = WithResults(batch)
        /\ IF batch'.err THEN ImportEnds(TRUE) ELSE UNCHANGED <<imp, carLocked>>
     \/ /\ Running(batch) = 0 /\ UNCHANGED <<batch, carLocked>>
        /\ imp' = [imp EXCEPT !.pc = "roots", !.left = IF carOpts THEN imp.roots ELSE {}]
  /\ UNCHANGED <<carFiles, carOpts, carStore, carPinned, rootMetas, carFault>>

\* Pinner.Pin reads the whole DAG, offline.
Pinnable(r) == Below[r] \subseteq carStore

\* Opportunistic: a root that cannot be pinned is reported, and the next is tried.
ImportPin(r) ==
  /\ imp.pc = "roots" /\ r \in imp.left
  /\ carPinned' = IF Pinnable(r) THEN carPinned \union {r} ELSE carPinned
  /\ rootMetas' = [x \in DOMAIN rootMetas \union {r} |->
                     IF x = r THEN IF Pinnable(r) THEN "pinned" ELSE "error" ELSE rootMetas[x]]
  /\ imp' = [imp EXCEPT !.left = @ \ {r}]
  /\ UNCHANGED <<carFiles, carOpts, batch, carStore, carLocked, carFault>>

\* The client is gone: Emit fails after the pin.
ImportEmitFails(r) ==
  /\ imp.pc = "roots" /\ r \in imp.left
  /\ carPinned' = IF Pinnable(r) THEN carPinned \union {r} ELSE carPinned
  /\ ImportEnds(TRUE)
  /\ UNCHANGED <<carFiles, carOpts, batch, carStore, rootMetas, carFault>>

ImportDone ==
  /\ imp.pc = "roots" /\ imp.left = {} /\ ImportEnds(FALSE)
  /\ UNCHANGED <<carFiles, carOpts, batch, carStore, carPinned, rootMetas, carFault>>

\* A garbage collection: all that is not pinned goes, when nobody holds the pin lock.
CarGC ==
  /\ ~carLocked /\ carStore' = carStore \intersect UNION {Below[r] : r \in carPinned}
  /\ UNCHANGED <<carFiles, carOpts, imp, batch, carPinned, carLocked, rootMetas, carFault>>

ImportStep ==
  \/ ImportStart \/ ImportOpen \/ ImportBlock \/ ImportFileEnd \/ ImportCommit \/ ImportCommitted \/ ImportDone
  \/ \E r \in CarBlocks : ImportPin(r) \/ ImportEmitFails(r)
CommitStep == \E i \in DOMAIN batch.commits : CommitWrites(i) \/ CommitFails(i)
ImportNext == ImportStep \/ CommitStep \/ CarGC
ImportFairness == WF_imVars(ImportStep) /\ WF_imVars(CommitStep)
ImportSpec == ImportInit /\ [][ImportNext]_imVars /\ ImportFairness

----------------------------------------------------------------------------
Imported == UNION {ToSet(carFiles[i].blocks) : i \in DOMAIN carFiles}
Roots == UNION {carFiles[i].roots : i \in DOMAIN carFiles}

(* With --pin-roots nothing disappears between the first block and the      *)
(* pins: an import that succeeds reports as pinned every root whose DAG was *)
(* in the files, and each root once, whatever the collector does meanwhile  *)
(* (import.go:50).                                                          *)
RootsStick ==
  imp.pc = "done" /\ ~imp.err /\ carOpts =>
    /\ DOMAIN rootMetas = Roots
    /\ \A r \in Roots : Below[r] \subseteq Imported => rootMetas[r] = "pinned"

(* A pin made by an import is of a DAG that is wholly stored, and stays so. *)
PinnedWhole == \A r \in carPinned : Below[r] \subseteq carStore

(* Roots are pinned only when all files were read to their end and every    *)
(* block was written (import.go:154), and the blocks counted are theirs.    *)
PinsOnlyWellFormed ==
  imp.pc = "roots" \/ carPinned # {} =>
    /\ \A i \in DOMAIN carFiles : carFiles[i].end = "eof"
    /\ ~carFault /\ imp.count = Cardinality(UNION {{<<i, j>> : j \in DOMAIN carFiles[i].blocks} : i \in DOMAIN carFiles})

(* An import ends, and the pin lock with it: a batch that waits for one of  *)
(* its commits gets a result.                                               *)
ImportReturns == (imp.pc # "start") ~> (imp.pc = "done" /\ ~carLocked)

----------------------------------------------------------------------------
(* ipfs dag export.                                                        *)
VARIABLES
  ex,     \* dagExport: the command, the writer, blocks written, read, and left, errors of the channel
  exPipe  \* the pipe: "open", "closed" by the writer or "dropped" by the reader

exVars == <<ex, exPipe>>

\* The root's block is there: the writer starts and the response reads.
ExportInit ==
  /\ ex \in [cmd : {"emit"}, writer : {"walk"}, root : CarBlocks, wrote : {{}}, got : {{}}, errs : {<<>>}, err : {FALSE}]
  /\ exPipe = "open"

\* A block is read from the node and written: the pipe hands it to the response.
ExportBlock ==
  /\ ex.writer = "walk" /\ exPipe = "open" /\ ex.cmd = "emit"
  /\ \E b \in Below[ex.root] \ ex.wrote :
       ex' = [ex EXCEPT !.wrote = @ \union {b}, !.got = @ \union {b}]
  /\ UNCHANGED exPipe

\* A block cannot be had, or the response no longer reads.
ExportGetFails ==
  /\ ex.writer = "walk" /\ ex.wrote # Below[ex.root]
  /\ ex' = [ex EXCEPT !.writer = "close", !.errs = Append(@, TRUE)] /\ UNCHANGED exPipe

ExportWritten ==
  /\ ex.writer = "walk" /\ ex.wrote = Below[ex.root]
  /\ ex' = [ex EXCEPT !.writer = "close"] /\ UNCHANGED exPipe

\* Deferred: the pipe is closed, then the channel.
ExportClosePipe ==
  /\ ex.writer = "close" /\ ex' = [ex EXCEPT !.writer = "closing"]
  /\ exPipe' = IF exPipe = "open" THEN "closed" ELSE exPipe
ExportCloseErrs ==
  /\ ex.writer = "closing" /\ ex' = [ex EXCEPT !.writer = "done"] /\ UNCHANGED exPipe

\* Emit ends with the stream.
ExportEmitted ==
  /\ ex.cmd = "emit" /\ exPipe = "closed" /\ ex' = [ex EXCEPT !.cmd = "wait"] /\ UNCHANGED exPipe

\* Emit fails: the reader is closed, so that the writer does not wait for it.
ExportEmitFails ==
  /\ ex.cmd = "emit" /\ ex' = [ex EXCEPT !.cmd = "done", !.err = TRUE] /\ exPipe' = "dropped"

\* The first error, or that there was none.
ExportResult ==
  /\ ex.cmd = "wait" /\ (ex.errs # <<>> \/ ex.writer = "done")
  /\ ex' = [ex EXCEPT !.cmd = "done", !.err = ex.errs # <<>>] /\ UNCHANGED exPipe

\* A write to a pipe whose reader is closed fails; else it waits for the reader.
ExportDropped ==
  /\ ex.writer = "walk" /\ exPipe = "dropped" /\ ExportGetFails

ExportStep == ExportBlock \/ ExportWritten \/ ExportClosePipe \/ ExportCloseErrs \/ ExportEmitted \/ ExportResult \/ ExportDropped
ExportNext == ExportStep \/ ExportGetFails \/ ExportEmitFails

(* An export that reports no error has sent the whole DAG: a stream that    *)
(* breaks off ends like a whole one, and only the error channel tells them  *)
(* apart (export.go:47).                                                    *)
ExportWhole == ex.cmd = "done" /\ ~ex.err => ex.got = Below[ex.root]

(* An export ends on both sides, the writer too when the client went away   *)
(* (export.go:77).                                                          *)
ExportReturns == (ex.wrote # {} \/ ex.writer # "walk" \/ ex.cmd # "emit") ~> (ex.cmd = "done" /\ ex.writer = "done")

\* What an import pins stays: its roots stick, are whole, and are pinned only after
\* every file was read and every block written.
ImportKeepsRoots == RootsStick /\ PinnedWhole /\ PinsOnlyWellFormed
=============================================================================
