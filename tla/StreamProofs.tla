---------------------------- MODULE StreamProofs ----------------------------
(***************************************************************************)
(* Proofs about the goroutines that hand results to each other: whatever a *)
(* call reports as done was delivered, for any number of results, files,   *)
(* peers and messages; that the peer log and the request log forget        *)
(* nothing but what has expired; and that a routing config is parsed into  *)
(* the routers it names.                                                   *)
(***************************************************************************)
EXTENDS MCStreams, Induction, FiniteSetTheorems, SequenceTheorems, TLAPS

-----------------------------------------------------------------------------
(***************************************************************************)
(* A stream of results.                                                    *)
(***************************************************************************)
StreamTypes ==
  /\ stream \in StreamCmds /\ items \in Nat /\ failing \in BOOLEAN /\ sent \in Nat /\ emitted \in Nat
  /\ producer \in {"working", "sending", "errItem", "closing", "erring", "done"}
  /\ perr \in {"nil", "error"} /\ consumer \in {"reading", "waiting", "returned"}
  /\ result \in {"none", "ok", "error", "panic"} /\ cancelled \in BOOLEAN

\* In the functions that lose nothing: what was sent was emitted while the consumer is
\* there, and a producer that has ended without an error had sent everything, or the
\* consumer will see that the context has ended.
HonestInv ==
  stream \notin SilentWhenCancelled \union LosesErrors =>
    /\ producer # "errItem" /\ sent <= items /\ (producer = "sending" => sent < items)
    /\ consumer # "returned" => emitted = sent /\ result = "none"
    /\ producer \in {"closing", "erring", "done"} =>
         \/ perr = "error" \/ (failing = FALSE /\ sent = items)
         \/ (cancelled = TRUE /\ D.rechecks = TRUE) \/ result = "panic"
    /\ result = "ok" => consumer = "returned" /\ emitted = items /\ failing = FALSE

StreamInv == StreamTypes /\ HonestInv

\* What the functions that lose nothing do with errors and with the end of the context.
LEMMA HonestDiscipline ==
  ASSUME stream \in StreamCmds, stream \notin SilentWhenCancelled \union LosesErrors
  PROVE  /\ D.errs # "variable" /\ D.early \in {"error", "panic"} /\ D.late = "error"
         /\ D.cancel = "error" \/ D.rechecks = TRUE
<1>1. stream \in {"pinLs", "remoteLs", "repoVerify", "dhtQuery", "dagExport", "subcommand", "rpcPinLs"}
  BY StreamConstants DEF Disciplines, SilentWhenCancelled, LosesErrors
<1>2. CASE stream \in {"pinLs", "remoteLs"}
  BY <1>2 DEF D, Disciplines, PinLs, RemotePinLs
<1>3. CASE stream = "repoVerify"
  BY <1>3 DEF D, Disciplines, PinLs, RepoVerify
<1>4. CASE stream = "dhtQuery"
  BY <1>4 DEF D, Disciplines, PinLs, DhtQuery
<1>5. CASE stream = "dagExport"
  BY <1>5 DEF D, Disciplines, PinLs, DagExport
<1>6. CASE stream = "subcommand"
  BY <1>6 DEF D, Disciplines, PinLs, Subcommand
<1>7. CASE stream = "rpcPinLs"
  BY <1>7 DEF D, Disciplines, PinLs, RpcPinLs
<1> QED BY <1>1, <1>2, <1>3, <1>4, <1>5, <1>6, <1>7

LEMMA StreamInits == StreamInit => StreamInv
<1> SUFFICES ASSUME StreamInit PROVE StreamInv
  OBVIOUS
<1>1. MaxItems \in Nat
  BY Zenon, StreamConstants
<1>2. StreamTypes
  <2>1. stream \in StreamCmds BY DEF StreamInit
  <2>2. items \in Nat BY <1>1 DEF StreamInit
  <2>3. failing \in BOOLEAN BY DEF StreamInit
  <2>4. sent \in Nat BY DEF StreamInit
  <2>5. emitted \in Nat BY DEF StreamInit
  <2>6. producer = "working" /\ perr = "nil" BY DEF StreamInit
  <2>7. consumer = "reading" BY DEF StreamInit
  <2>8. result = "none"  BY DEF StreamInit
  <2>9. cancelled \in BOOLEAN  BY DEF StreamInit
  <2> QED BY <2>1, <2>2, <2>3, <2>4, <2>5, <2>6, <2>7, <2>8, <2>9 DEF  StreamTypes
<1>3. sent = 0 /\ 0 <= items /\ emitted = sent /\ producer = "working" /\ consumer = "reading" /\ result = "none"
  BY <1>1 DEF StreamInit
<1> QED BY <1>2, <1>3 DEF StreamInv, HonestInv

LEMMA StreamSteps ==
  ASSUME StreamInv, [StreamNext]_stVars
  PROVE  StreamInv'
<1> USE DEF StreamInv, StreamTypes, HonestInv
<1> DEFINE Honest == stream \notin SilentWhenCancelled \union LosesErrors
           Facts == /\ D.errs # "variable" /\ D.early \in {"error", "panic"} /\ D.late = "error"
                    /\ D.cancel = "error" \/ D.rechecks = TRUE
<1>0. Honest => Facts
  BY HonestDiscipline
<1>1. CASE StreamWork
  <2>1. stream' = stream /\ D' = D
    BY <1>1 DEF StreamWork, D
  <2>2. StreamTypes'
    BY <1>1 DEF StreamWork
  <2>3. Honest => HonestInv'
    <3> HIDE DEF Honest
    <3> QED BY <1>0, <1>1, <2>1 DEF StreamWork, Honest
  <2> QED BY <2>1, <2>2, <2>3
<1>2. CASE StreamPass
  <2>1. stream' = stream /\ D' = D
    BY <1>2 DEF StreamPass, D
  <2>2. StreamTypes'
    <3>1. UNCHANGED <<stream, items, failing, perr>> /\ sent' \in Nat /\ emitted' \in Nat
      BY <1>2 DEF StreamPass
    <3>4. cancelled' \in BOOLEAN
      BY <1>2 DEF StreamPass
    <3>2. /\ producer' \in {"working", "closing"} /\ consumer' \in {"reading", "returned"}
          /\ result' \in {"none", "ok", "error", "panic"}
      BY <1>2 DEF StreamPass
    <3> QED BY <3>1, <3>2, <3>4
  <2>3. Honest => HonestInv'
    <3> HIDE DEF Honest
    <3> QED BY <1>2, <2>1 DEF StreamPass, Honest
  <2> QED BY <2>1, <2>2, <2>3
<1>3. CASE StreamGiveUp
  <2>1. Honest => perr' = "error" \/ D.rechecks = TRUE
    BY <1>0, <1>3 DEF StreamGiveUp
  <2> QED BY <1>3, <2>1 DEF StreamGiveUp, D
<1>4. CASE StreamClose
  BY <1>4 DEF StreamClose, D
<1>5. CASE StreamErr
  BY <1>5 DEF StreamErr, D
<1>6. CASE StreamEnd
  BY <1>6 DEF StreamEnd, D
<1>7. CASE StreamReturn
  <2>1. Honest => producer = "done"
    BY <1>0, <1>7 DEF StreamReturn
  <2> QED BY <1>7, <2>1 DEF StreamReturn, D
<1>8. CASE StreamCancel
  BY <1>8 DEF StreamCancel, D
<1>9. CASE UNCHANGED stVars
  BY <1>9 DEF stVars, D
<1> QED BY <1>1, <1>2, <1>3, <1>4, <1>5, <1>6, <1>7, <1>8, <1>9 DEF StreamNext, StreamStep

LEMMA StreamInvImplies == StreamInv => SuccessIsComplete
BY DEF StreamInv, HonestInv, StreamTypes, SuccessIsComplete

-----------------------------------------------------------------------------
(***************************************************************************)
(* A transfer through a pipe.                                              *)
(***************************************************************************)
TransferTypes ==
  /\ transfer \in {"export", "tar", "gzip"} /\ tarWriter \in {"idle", "write", "flush", "close", "ended"}
  /\ produced \in Nat /\ held \in Nat /\ received \in Nat
  /\ pipe \in {"open", "eof", "error", "gone"} /\ handler \in {"start", "emit", "wait", "ok", "error"}

\* Every chunk is at the client or in the buffer; the pipe ends well only behind the
\* last one, or, for an export, behind the error that its handler then reads.
TransferInv ==
  /\ TransferTypes
  /\ received + held = produced /\ produced <= Chunks
  /\ handler = "start" => tarWriter = "idle"
  /\ transfer = "export" =>
       /\ held = 0 /\ tarWriter # "flush"
       /\ handler \in {"start", "emit", "wait"} /\ tarWriter = "close" => errCh # <<>>
       /\ handler \in {"start", "emit", "wait"} /\ tarWriter = "ended" => errCh # <<>> \/ produced = Chunks
  /\ transfer # "export" =>
       /\ handler # "wait" /\ tarWriter # "close"
       /\ tarWriter = "flush" => produced = Chunks
       /\ pipe = "eof" => held = 0 /\ produced = Chunks
  /\ pipe = "eof" => tarWriter = "ended"
  /\ handler = "wait" => tarWriter = "ended"
  /\ handler = "ok" => tarWriter = "ended" /\ held = 0 /\ produced = Chunks

LEMMA TransferInits == TransferInit => TransferInv
BY TransferConstants DEF TransferInit, TransferInv, TransferTypes

LEMMA TransferSteps ==
  ASSUME TransferInv, [TransferNext]_trVars
  PROVE  TransferInv'
<1> USE DEF TransferInv, TransferTypes
<1> USE TransferConstants
<1>1. CASE ClientLeaves
  BY <1>1 DEF ClientLeaves
<1>2. CASE ExportStart
  BY <1>2 DEF ExportStart
<1>3. CASE GetStart
  BY <1>3 DEF GetStart
<1>4. CASE ExportWrite
  BY <1>4 DEF ExportWrite, PipeMoves
<1>5. CASE ExportFails
  BY <1>5 DEF ExportFails
<1>6. CASE ExportClose
  BY <1>6 DEF ExportClose
<1>7. CASE GetWrite
  BY <1>7 DEF GetWrite, PipeMoves
<1>8. CASE ClosePipeWithError
  BY <1>8 DEF ClosePipeWithError
<1>9. CASE GetWritten
  BY <1>9 DEF GetWritten
<1>10. CASE CloseGzwAndPipe
  BY <1>10 DEF CloseGzwAndPipe, PipeMoves
<1>11. CASE EmitFails
  BY <1>11 DEF EmitFails
<1>12. CASE EmitReadError
  BY <1>12 DEF EmitReadError
<1>13. CASE EmitDone
  BY <1>13 DEF EmitDone
<1>14. CASE ExportReturn
  BY <1>14 DEF ExportReturn
<1>15. CASE CloseReader
  BY <1>15 DEF CloseReader
<1>16. CASE UNCHANGED trVars
  BY <1>16 DEF trVars
<1> QED BY <1>1, <1>2, <1>3, <1>4, <1>5, <1>6, <1>7, <1>8, <1>9, <1>10, <1>11, <1>12, <1>13, <1>14, <1>15, <1>16
        DEF TransferNext, TransferStep, WriteFails

LEMMA TransferInvImplies == TransferInv => SuccessIsWhole
BY DEF TransferInv, TransferTypes, SuccessIsWhole

-----------------------------------------------------------------------------
(***************************************************************************)
(* The add command.                                                        *)
(***************************************************************************)
AddTypes ==
  /\ addRun \in [i : Nat \ {0}, pc : {"next", "drain", "ok", "error"}, emitted : Nat]
  /\ adding \in [pc : {"none", "add", "files", "ended"}, left : Nat]
  /\ events \in Nat /\ addErrCh \in {"empty", "nil", "err"}

\* The files that have a link.
Linked == {p[2] : p \in mfsPut}

\* With --to-files, the files before the one at hand have a link, and it too once its
\* goroutine ended well.
LinksInv ==
  addOption.toFiles # "none" =>
    /\ addRun.pc = "next" => Linked = 1 .. addRun.i - 1
    /\ addRun.pc = "drain" /\ adding.pc \in {"add", "files"} => Linked = 1 .. addRun.i - 1
    /\ addRun.pc = "drain" /\ adding.pc = "ended" /\ addErrCh = "nil" => Linked = 1 .. addRun.i
    /\ addRun.pc = "ok" => Linked = 1 .. Len(AddNames)

\* The events of the file at hand were passed on, are in the channel or are still to
\* come; none is when its goroutine ended well.
EventsInv ==
  /\ addRun.i <= Len(AddNames) + 1 /\ (addRun.pc = "drain" => addRun.i <= Len(AddNames))
  /\ addRun.pc = "drain" => adding.pc # "none" /\ addRun.emitted + events + adding.left = EventsEach
  /\ adding.pc = "files" => addOption.toFiles # "none" /\ adding.left = 0
  /\ addRun.pc = "drain" /\ addErrCh = "nil" => adding.pc = "ended" /\ adding.left = 0
  /\ addRun.pc = "next" /\ addRun.i > 1 => addRun.emitted = EventsEach
  /\ addRun.pc \in {"next", "ok"} => adding.pc \in {"none", "ended"}

AddInv == AddTypes /\ LinksInv /\ EventsInv

LEMMA OptsInits == OptsInit => MetadataFits
BY DEF OptsInit, MetadataFits, RawLeaves, Tristate

LEMMA AddInits == AddCmdInit => AddInv
<1> SUFFICES ASSUME AddCmdInit PROVE AddInv
  OBVIOUS
<1>1. EventsEach \in Nat /\ Len(AddNames) \in Nat \ {0}
  BY AddCmdConstants
<1>2. AddTypes
  BY DEF AddCmdInit, AddTypes
<1>3. LinksInv
  BY DEF AddCmdInit, LinksInv, Linked
<1>4. EventsInv
  BY <1>1 DEF AddCmdInit, EventsInv
<1> QED BY <1>2, <1>3, <1>4 DEF AddInv

LEMMA LinkAdded ==
  ASSUME NEW S, NEW a, NEW b
  PROVE  {p[2] : p \in S \union {<<a, b>>}} = {p[2] : p \in S} \union {b}
<1> DEFINE q == <<a, b>>
           L == {p[2] : p \in S \union {q}}
<1>1. q[2] = b
  OBVIOUS
<1> HIDE DEF q
<1>2. \A x : x \in L <=> x \in {p[2] : p \in S} \union {b}
  BY <1>1
<1> HIDE DEF L
<1>3. L = {p[2] : p \in S} \union {b}
  BY <1>2
<1> QED BY <1>3 DEF L, q

LEMMA AddSteps ==
  ASSUME AddInv, [AddCmdNext]_adVars
  PROVE  AddInv'
<1> USE DEF AddInv, AddTypes, EventsInv
<1>0. EventsEach \in Nat /\ Len(AddNames) \in Nat \ {0}
  BY AddCmdConstants
<1>1. CASE AddNextFile
  <2>1. addRun'.i = addRun.i /\ addRun'.pc = "drain" /\ addRun'.emitted = 0 /\ addRun.pc = "next" /\ addRun.i <= Len(AddNames)
    BY <1>1 DEF AddNextFile
  <2>2. adding'.pc = "add" /\ adding'.left = EventsEach /\ events' = 0 /\ addErrCh' = "empty"
    BY <1>1 DEF AddNextFile
  <2>3. AddTypes'
    BY <1>0, <1>1 DEF AddNextFile
  <2>4. EventsInv'
    BY <1>0, <2>1, <2>2
  <2>5. LinksInv'
    BY <1>1 DEF AddNextFile, LinksInv, Linked
  <2> QED BY <2>3, <2>4, <2>5
<1>2. CASE AddAllDone
  <2>1. AddTypes' /\ EventsInv'
    BY <1>0, <1>2 DEF AddAllDone
  <2>2. addRun.i - 1 = Len(AddNames)
    BY <1>0, <1>2 DEF AddAllDone
  <2>3. LinksInv'
    BY <1>2, <2>2 DEF AddAllDone, LinksInv, Linked
  <2> QED BY <2>1, <2>3
<1>3. CASE AdderEvent
  <2>1. AddTypes' /\ EventsInv'
    BY <1>0, <1>3, SMTT(30) DEF AdderEvent
  <2>2. LinksInv'
    BY <1>3 DEF AdderEvent, LinksInv, Linked
  <2> QED BY <2>1, <2>2
<1>4. CASE AdderFails
  <2>1. AddTypes' /\ EventsInv'
    BY <1>0, <1>4 DEF AdderFails, GoroutineEnds
  <2>2. LinksInv'
    BY <1>4 DEF AdderFails, GoroutineEnds, LinksInv, Linked
  <2> QED BY <2>1, <2>2
<1>5. CASE AdderDone
  <2>1. AddTypes' /\ EventsInv'
    BY <1>0, <1>5 DEF AdderDone, GoroutineEnds
  <2>2. LinksInv'
    BY <1>5 DEF AdderDone, GoroutineEnds, LinksInv, Linked
  <2> QED BY <2>1, <2>2
<1>6. CASE ToFilesPut
  <2>1. AddTypes' /\ EventsInv'
    BY <1>0, <1>6 DEF ToFilesPut, GoroutineEnds
  <2>2. CASE ToFilesRefused
    BY <1>6, <2>2 DEF ToFilesPut, GoroutineEnds, LinksInv, Linked
  <2>3. CASE ~ToFilesRefused
    <3>1. Linked' = Linked \union {addRun.i}
      <4>1. mfsPut' = mfsPut \union {<<ToFilesName, addRun.i>>}
        BY <1>6, <2>3 DEF ToFilesPut
      <4>2. \A a, b : {p[2] : p \in mfsPut \union {<<a, b>>}} = Linked \union {b}
        BY LinkAdded DEF Linked
      <4>3. Linked' = {p[2] : p \in mfsPut \union {<<ToFilesName, addRun.i>>}}
        BY <4>1 DEF Linked
      <4> QED BY <4>2, <4>3, Zenon
    <3>2. addRun.i \in Nat \ {0} /\ (1 .. addRun.i - 1) \union {addRun.i} = 1 .. addRun.i
      OBVIOUS
    <3>3. addRun.pc \in {"drain", "error"} /\ UNCHANGED <<addRun, addOption>>
      BY <1>6 DEF ToFilesPut
    <3>4. addOption.toFiles # "none" /\ addRun.pc = "drain" => Linked' = 1 .. addRun.i
      BY <1>6, <3>1, <3>2 DEF ToFilesPut, LinksInv
    <3>5. LinksInv'
      BY <1>6, <2>3, <3>3, <3>4 DEF ToFilesPut, GoroutineEnds, LinksInv
    <3> QED BY <2>1, <3>5
  <2> QED BY <2>1, <2>2, <2>3
<1>7. CASE AddEmit
  <2>1. AddTypes' /\ EventsInv'
    BY <1>0, <1>7, SMTT(30) DEF AddEmit
  <2>2. LinksInv'
    BY <1>7 DEF AddEmit, LinksInv, Linked
  <2> QED BY <2>1, <2>2
<1>8. CASE AddEmitFails
  <2>1. AddTypes' /\ EventsInv'
    BY <1>0, <1>8 DEF AddEmitFails
  <2>2. LinksInv'
    BY <1>8 DEF AddEmitFails, LinksInv, Linked
  <2> QED BY <2>1, <2>2
<1>9. CASE AddJoin
  <2>1. AddTypes' /\ EventsInv'
    <3>1. /\ addRun.pc = "drain" /\ events = 0 /\ adding.pc = "ended" /\ UNCHANGED <<adding, events, addOption>>
          /\ addErrCh' = "empty"
      BY <1>9 DEF AddJoin
    <3>2. addErrCh = "nil" => addRun' = [addRun EXCEPT !.pc = "next", !.i = @ + 1] /\ addRun.emitted = EventsEach
      BY <1>0, <1>9, <3>1 DEF AddJoin
    <3>3. addErrCh # "nil" => addRun' = [addRun EXCEPT !.pc = "error"]
      BY <1>9 DEF AddJoin
    <3>4. CASE addErrCh = "nil"
      <4> DEFINE n == addRun.i + 1
      <4>1. n \in Nat \ {0} /\ addRun' = [addRun EXCEPT !.pc = "next", !.i = n] /\ n <= Len(AddNames) + 1
        BY <1>0, <3>1, <3>2, <3>4
      <4> HIDE DEF n
      <4> QED BY <1>0, <3>1, <3>2, <3>4, <4>1
    <3>5. CASE addErrCh # "nil"
      BY <1>0, <3>1, <3>3, <3>5
    <3> QED BY <3>4, <3>5
  <2>2. addErrCh = "nil" => addRun'.pc = "next" /\ addRun'.i - 1 = addRun.i
    BY <1>9 DEF AddJoin
  <2>3. addErrCh # "nil" => addRun'.pc = "error"
    BY <1>9 DEF AddJoin
  <2>4. addRun.pc = "drain" /\ adding.pc = "ended" /\ UNCHANGED <<adding, mfsPut, addOption>>
    BY <1>9 DEF AddJoin
  <2>5. LinksInv'
    BY <2>2, <2>3, <2>4 DEF LinksInv, Linked
  <2> QED BY <2>1, <2>5
<1>10. CASE AddClientLeaves \/ UNCHANGED adVars
  BY <1>10 DEF AddClientLeaves, adVars, LinksInv, Linked
<1> QED BY <1>1, <1>2, <1>3, <1>4, <1>5, <1>6, <1>7, <1>8, <1>9, <1>10 DEF AddCmdNext, AddCmdStep

LEMMA AddInvImplies == AddInv => AddSuccessWhole
BY DEF AddInv, LinksInv, EventsInv, Linked, AddSuccessWhole

\* An event that PostRun received was printed, or is on its way to the progress bar,
\* while nobody interrupts.
PostSet == [pc : {"next", "put", "close", "wait", "returned"}, seen : Nat, err : BOOLEAN]
PostInv ==
  /\ post \in PostSet
  /\ bar \in [pc : {"loop", "ended"}, printed : Nat] /\ postCtx \in {"live", "done"}
  /\ postCtx = "live" => IF post.pc = "put" THEN bar.printed + 1 = post.seen ELSE bar.printed = post.seen

LEMMA PostInits == PostInit => PostInv
BY DEF PostSet, PostInit, PostInv

LEMMA PostSteps ==
  ASSUME PostInv, [PostRunNext]_poVars
  PROVE  PostInv'
<1> USE DEF PostInv
<1>1. CASE PostNext
  <2>0. post.pc = "next" /\ UNCHANGED <<bar, postCtx>>
    BY <1>1, Zenon DEF PostNext
  <2>1. CASE post' = [post EXCEPT !.pc = "put", !.seen = @ + 1]
    <3> DEFINE n == post.seen + 1
    <3>1. n \in Nat /\ post' = [post EXCEPT !.pc = "put", !.seen = n]
      BY <2>1 DEF PostSet
    <3> HIDE DEF n
    <3>2. post' \in PostSet /\ post'.pc = "put" /\ post'.seen = n
      BY <3>1 DEF PostSet
    <3> QED BY <2>0, <3>2 DEF n
  <2>2. ASSUME NEW e \in BOOLEAN, post' = [post EXCEPT !.pc = "close", !.err = e]
        PROVE  PostInv'
    <3>1. post' \in PostSet /\ post'.pc = "close" /\ post'.seen = post.seen
      BY <2>2 DEF PostSet
    <3> QED BY <2>0, <3>1
  <2> QED BY <1>1, <2>1, <2>2, Zenon DEF PostNext
<1>2. CASE PostPut
  BY <1>2 DEF PostPut, PostSet
<1>3. CASE PostCancelled
  BY <1>3 DEF PostCancelled, PostSet
<1>4. CASE PostClose
  BY <1>4 DEF PostClose, PostSet
<1>5. CASE PostReturn
  BY <1>5 DEF PostReturn, PostSet
<1>6. CASE BarEnds
  BY <1>6 DEF BarEnds
<1>7. CASE PostInterrupted \/ UNCHANGED poVars
  BY <1>7 DEF PostInterrupted, poVars
<1> QED BY <1>1, <1>2, <1>3, <1>4, <1>5, <1>6, <1>7 DEF PostRunNext, PostStep

LEMMA PostInvImplies == PostInv => AllPrinted
BY DEF PostInv, PostSet, AllPrinted

-----------------------------------------------------------------------------
(***************************************************************************)
(* dag export.                                                             *)
(***************************************************************************)
ExportSet ==
  [cmd : {"emit", "wait", "done"}, writer : {"walk", "close", "closing", "done"}, root : CarBlocks,
   wrote : SUBSET UNION {Below[c] : c \in CarBlocks}, got : SUBSET UNION {Below[c] : c \in CarBlocks}, errs : Seq(BOOLEAN), err : BOOLEAN]

\* The response got what was written; a writer that has ended wrote the whole DAG or
\* left its error; the pipe ends by the writer's hand only.
ExportInv ==
  /\ ex \in ExportSet /\ exPipe \in {"open", "closed", "dropped"}
  /\ ex.got = ex.wrote
  /\ ex.writer \in {"close", "closing", "done"} => ex.errs # <<>> \/ ex.wrote = Below[ex.root]
  /\ exPipe = "closed" => ex.writer \in {"closing", "done"}
  /\ ex.cmd = "wait" => ex.writer \in {"closing", "done"}
  /\ ex.cmd = "done" /\ ex.err = FALSE => ex.writer \in {"closing", "done"} /\ ex.got = Below[ex.root]

LEMMA ExportInits == ExportInit => ExportInv
<1> SUFFICES ASSUME ExportInit PROVE ExportInv
  OBVIOUS
<1>1. <<>> \in Seq(BOOLEAN)
  OBVIOUS
<1> QED BY <1>1 DEF ExportInit, ExportInv, ExportSet

LEMMA ExportSteps ==
  ASSUME ExportInv, [ExportNext]_exVars
  PROVE  ExportInv'
<1> USE DEF ExportInv, ExportSet
<1>1. CASE ExportBlock
  <2>1. PICK b \in Below[ex.root] \ ex.wrote : ex' = [ex EXCEPT !.wrote = @ \union {b}, !.got = @ \union {b}]
    BY <1>1, Zenon DEF ExportBlock
  <2> DEFINE w == ex.wrote \union {b}
  <2>2. w \in SUBSET UNION {Below[c] : c \in CarBlocks}
    BY <2>1
  <2>3. ex' = [ex EXCEPT !.wrote = w, !.got = w]
    BY <2>1
  <2> HIDE DEF w
  <2> QED BY <1>1, <2>2, <2>3 DEF ExportBlock
<1>2. CASE ExportGetFails
  <2>1. Append(ex.errs, TRUE) \in Seq(BOOLEAN) /\ Append(ex.errs, TRUE) # <<>>
    <3>1. ex.errs \in Seq(BOOLEAN) /\ TRUE \in BOOLEAN
      OBVIOUS
    <3>2. \A es \in Seq(BOOLEAN), e \in BOOLEAN : Append(es, e) \in Seq(BOOLEAN) /\ Append(es, e) # <<>>
      BY AppendProperties
    <3> QED BY <3>1, <3>2, Zenon
  <2> DEFINE es == Append(ex.errs, TRUE)
  <2>2. es \in Seq(BOOLEAN) /\ es # <<>> /\ ex' = [ex EXCEPT !.writer = "close", !.errs = es]
    BY <1>2, <2>1 DEF ExportGetFails
  <2> HIDE DEF es
  <2> QED BY <1>2, <2>2 DEF ExportGetFails
<1>3. CASE ExportWritten
  BY <1>3 DEF ExportWritten
<1>4. CASE ExportClosePipe
  BY <1>4 DEF ExportClosePipe
<1>5. CASE ExportCloseErrs
  BY <1>5 DEF ExportCloseErrs
<1>6. CASE ExportEmitted
  BY <1>6 DEF ExportEmitted
<1>7. CASE ExportEmitFails
  BY <1>7 DEF ExportEmitFails
<1>8. CASE ExportResult
  BY <1>8 DEF ExportResult
<1>9. CASE UNCHANGED exVars
  BY <1>9 DEF exVars
<1> QED BY <1>1, <1>2, <1>3, <1>4, <1>5, <1>6, <1>7, <1>8, <1>9 DEF ExportNext, ExportStep, ExportDropped

LEMMA ExportInvImplies == ExportInv => ExportWhole
BY DEF ExportInv, ExportSet, ExportWhole

-----------------------------------------------------------------------------
(***************************************************************************)
(* repo gc.                                                                *)
(***************************************************************************)
RepoGcTypes ==
  /\ cpc \in {"idle", "send", "read", "returned"} /\ gcResult \in {"none", "nil", "error"}
  /\ sweeperPc \in {"none", "mark", "sweep", "summary", "datastore", "close", "done"}
  /\ output \in Seq(Results) /\ closed \in BOOLEAN /\ failed \in BOOLEAN /\ reqDone \in BOOLEAN
  /\ collected \in BOOLEAN /\ mode \in Modes /\ gcSent \in Nat /\ sweepErrors \in BOOLEAN

\* An error that was met is in the channel, was read or returned, while the request
\* lives; the channel is closed by a collector that has ended.
ErrorsInv ==
  /\ RepoGcTypes
  /\ cpc = "idle" => sweeperPc = "none" /\ failed = FALSE
  /\ cpc = "send" => sweeperPc = "none"
  /\ cpc \in {"idle", "read"} => gcResult = "none"
  /\ closed = TRUE => sweeperPc = "done"
  /\ failed = TRUE /\ reqDone = FALSE =>
       cpc = "send" \/ collected = TRUE \/ gcResult = "error" \/ \E i \in DOMAIN output : output[i] = "error"
  /\ gcResult = "nil" => cpc = "returned" /\ sweeperPc = "done" /\ (reqDone = FALSE => failed = FALSE)

LEMMA RepoGcInits == RepoGcInit => ErrorsInv
<1> SUFFICES ASSUME RepoGcInit PROVE ErrorsInv
  OBVIOUS
<1>1. <<>> \in Seq(Results)
  OBVIOUS
<1> QED BY <1>1 DEF RepoGcInit, ErrorsInv, RepoGcTypes

\* A send puts an error into the channel, or the request is over.
LEMMA SendKeeps ==
  ASSUME RepoGcTypes, NEW r \in Results, NEW to, NEW stop, Send(r, to, stop)
  PROVE  /\ output' \in Seq(Results) /\ sweeperPc' \in {to, stop}
         /\ \A i \in DOMAIN output : i \in DOMAIN output' /\ output'[i] = output[i]
         /\ reqDone = FALSE => \E i \in DOMAIN output' : output'[i] = r
<1>1. Append(output, r) \in Seq(Results) /\ \A i \in DOMAIN output : i \in DOMAIN Append(output, r) /\ Append(output, r)[i] = output[i]
  BY DEF RepoGcTypes
<1>2. Len(output) + 1 \in DOMAIN Append(output, r) /\ Append(output, r)[Len(output) + 1] = r
  BY DEF RepoGcTypes
<1>3. CASE output' = Append(output, r) /\ sweeperPc' = to
  BY <1>1, <1>2, <1>3
<1>4. CASE reqDone /\ sweeperPc' = stop /\ UNCHANGED output
  BY <1>4 DEF RepoGcTypes
<1> QED BY <1>3, <1>4 DEF Send

LEMMA RepoGcSteps ==
  ASSUME ErrorsInv, [RepoGcNext]_rgVars
  PROVE  ErrorsInv'
<1> USE DEF ErrorsInv, RepoGcTypes
<1>1. CASE Cancel
  BY <1>1 DEF Cancel
<1>2. CASE GarbageCollectAsync
  BY <1>2 DEF GarbageCollectAsync
<1>3. CASE AsyncRootsFail
  BY <1>3 DEF AsyncRootsFail
<1>4. CASE ReadClosed
  BY <1>4 DEF ReadClosed, CallReturn
<1>5. CASE ReadResult
  <2>1. /\ Tail(output) \in Seq(Results) /\ 1 \in DOMAIN output /\ Head(output) = output[1]
        /\ \A i \in DOMAIN output : i # 1 => i - 1 \in DOMAIN Tail(output) /\ Tail(output)[i - 1] = output[i]
    BY <1>5 DEF ReadResult
  <2>2. \A i \in DOMAIN output : output[i] = "error" => collected' = TRUE \/ \E j \in DOMAIN output' : output'[j] = "error"
    BY <1>5, <2>1 DEF ReadResult
  <2>3. collected' \in BOOLEAN /\ (collected = TRUE => collected' = TRUE) /\ output' \in Seq(Results)
    BY <1>5, <2>1 DEF ReadResult
  <2>4. \/ UNCHANGED <<cpc, gcResult>>
        \/ cpc' = "returned" /\ gcResult' = "error"
    BY <1>5 DEF ReadResult, CallReturn
  <2>5. cpc = "read" /\ UNCHANGED <<mode, sweeperPc, closed, gcSent, sweepErrors, failed, reqDone>>
    BY <1>5 DEF ReadResult
  <2> QED BY <2>2, <2>3, <2>4, <2>5
<1>6. CASE ReadCancelled
  BY <1>6 DEF ReadCancelled, CallReturn
<1>7. CASE MarkError
  <2>1. Send("error", "mark", "mark")
    BY <1>7 DEF MarkError
  <2>2. /\ output' \in Seq(Results) /\ sweeperPc' = "mark"
        /\ reqDone = FALSE => \E i \in DOMAIN output' : output'[i] = "error"
    BY <2>1, SendKeeps DEF Results
  <2> QED BY <1>7, <2>2 DEF MarkError
<1>8. CASE MarkFailed \/ SweepSummary
  <2>1. \E to, stop \in {"close", "datastore"} : Send("error", to, stop)
    BY <1>8 DEF MarkFailed, SweepSummary
  <2>2. /\ output' \in Seq(Results) /\ sweeperPc' \in {"close", "datastore"}
        /\ reqDone = FALSE => \E i \in DOMAIN output' : output'[i] = "error"
    BY <2>1, SendKeeps DEF Results
  <2> QED BY <1>8, <2>2 DEF MarkFailed, SweepSummary
<1>9. CASE MarkDone
  BY <1>9 DEF MarkDone
<1>10. CASE SweepKey
  <2>1. PICK r \in Results : \E stop \in {"summary", "datastore"} : Send(r, "sweep", stop) /\ (failed' = TRUE => failed = TRUE \/ r = "error")
    BY <1>10 DEF SweepKey, Results
  <2>2. /\ output' \in Seq(Results) /\ sweeperPc' \in {"sweep", "summary", "datastore"}
        /\ \A i \in DOMAIN output : i \in DOMAIN output' /\ output'[i] = output[i]
        /\ reqDone = FALSE => \E i \in DOMAIN output' : output'[i] = r
    BY <2>1, SendKeeps
  <2>3. /\ sweepErrors' \in BOOLEAN
        /\ failed' \in BOOLEAN
        /\ gcSent' \in Nat
    <3>1. CASE UNCHANGED <<sweepErrors, failed>>
      BY <1>10, <3>1 DEF SweepKey
    <3>2. CASE sweepErrors' = TRUE /\ failed' = TRUE
      BY <1>10, <3>2 DEF SweepKey
    <3> QED BY <1>10, <3>1, <3>2 DEF SweepKey
  <2>4. sweeperPc = "sweep" /\ UNCHANGED <<mode, cpc, closed, reqDone, collected, gcResult>>
    BY <1>10 DEF SweepKey
  <2>5. failed' = TRUE /\ reqDone = FALSE => failed = TRUE \/ \E i \in DOMAIN output' : output'[i] = "error"
    BY <2>1, <2>2
  <2> QED BY <2>2, <2>3, <2>4, <2>5
<1>11. CASE SweepEnds
  BY <1>11 DEF SweepEnds
<1>12. CASE DatastoreGC
  <2>1. CASE sweeperPc' = "close" /\ UNCHANGED <<output, failed>>
    BY <1>12, <2>1 DEF DatastoreGC
  <2>2. CASE Send("error", "close", "close") /\ failed' = TRUE
    <3>1. /\ output' \in Seq(Results) /\ sweeperPc' = "close"
          /\ reqDone = FALSE => \E i \in DOMAIN output' : output'[i] = "error"
      BY <2>2, SendKeeps DEF Results
    <3> QED BY <1>12, <2>2, <3>1 DEF DatastoreGC
  <2> QED BY <1>12, <2>1, <2>2 DEF DatastoreGC
<1>13. CASE SweeperReturn
  BY <1>13 DEF SweeperReturn
<1>14. CASE UNCHANGED rgVars
  BY <1>14 DEF rgVars
<1> QED BY <1>1, <1>2, <1>3, <1>4, <1>5, <1>6, <1>7, <1>8, <1>9, <1>10, <1>11, <1>12, <1>13, <1>14
        DEF RepoGcNext, CallerStep, SweeperStep

LEMMA ErrorsInvImplies == ErrorsInv => ErrorsReported
BY DEF ErrorsInv, RepoGcTypes, ErrorsReported

-----------------------------------------------------------------------------
(***************************************************************************)
(* routing provide.                                                        *)
(***************************************************************************)
\* What is asked for with one argument.
Wanted(b) == IF provide.rec = TRUE THEN ReachOf(b) ELSE {b}
StillTodo(b) == \E j \in DOMAIN provide.todo : provide.todo[j] = b

Reachable == UNION {ReachOf(b) : b \in PBlocks}
ProvideSet ==
  [pc : {"idle", "keys", "rec", "send", "stream", "ok", "error"}, who : {"cmd", "api"}, rec : BOOLEAN,
   args : Seq(PBlocks), todo : Seq(PBlocks), keys : SUBSET Reachable,
   walk : {"none", "walking", "done", "error"}]

\* An argument is still to do or has its records; of the one at hand those are missing
\* that are still to be sent.
ProvideInv ==
  /\ provide \in ProvideSet
  /\ provide.pc = "keys" => provide.rec = FALSE
  /\ provide.pc = "stream" => provide.args # <<>>
  /\ provide.pc \in {"rec", "send", "stream"} => provide.rec = TRUE
  /\ provide.pc \in {"keys", "rec", "send"} =>
       \A i \in DOMAIN provide.args : Wanted(provide.args[i]) \subseteq provided \/ StillTodo(provide.args[i])
  /\ provide.pc = "send" => provide.todo # <<>> /\ ReachOf(Head(provide.todo)) \subseteq provided \union provide.keys
  /\ provide.pc = "ok" => \A i \in DOMAIN provide.args : Wanted(provide.args[i]) \subseteq provided

LEMMA ProvideInits == ProvideInit => ProvideInv
<1> SUFFICES ASSUME ProvideInit PROVE ProvideInv
  OBVIOUS
<1>1. <<>> \in Seq(PBlocks)
  OBVIOUS
<1>2. NoProvide \in ProvideSet
  BY <1>1 DEF NoProvide, ProvideSet
<1> QED BY <1>2 DEF ProvideInit, NoProvide, ProvideInv

\* What is taken from the front of the list is what is no longer to do.
LEMMA TodoTail ==
  ASSUME NEW s \in Seq(PBlocks), s # <<>>
  PROVE  /\ Head(s) \in PBlocks /\ Tail(s) \in Seq(PBlocks)
         /\ \A j \in DOMAIN s : s[j] = Head(s) \/ \E k \in DOMAIN Tail(s) : Tail(s)[k] = s[j]
<1>1. Head(s) \in PBlocks /\ Tail(s) \in Seq(PBlocks)
  OBVIOUS
<1>2. \A j \in DOMAIN s : j # 1 => j - 1 \in DOMAIN Tail(s) /\ Tail(s)[j - 1] = s[j]
  OBVIOUS
<1>3. Head(s) = s[1]
  OBVIOUS
<1> QED BY <1>1, <1>2, <1>3

\* Only the phase changes, to one that promises nothing or the same.
LEMMA ProvideGoesOn ==
  ASSUME ProvideInv, NEW to \in {"ok", "error"}, ProvideGoes(to), UNCHANGED provided,
         to = "ok" => provide.pc \in {"keys", "rec"} /\ provide.todo = <<>>
  PROVE  ProvideInv'
<1>1. provide' \in ProvideSet /\ provide'.pc = to /\ provide'.args = provide.args /\ provide'.rec = provide.rec
  BY DEF ProvideInv, ProvideGoes, ProvideSet
<1>2. to = "ok" => \A i \in DOMAIN provide.args : Wanted(provide.args[i]) \subseteq provided
  BY DEF ProvideInv, StillTodo
<1>3. \A b : Wanted(b)' = Wanted(b)
  BY <1>1 DEF Wanted
<1> QED BY <1>1, <1>2, <1>3 DEF ProvideInv

LEMMA ProvideSteps ==
  ASSUME ProvideInv, [ProvideNext]_pvVars
  PROVE  ProvideInv'
<1> USE DEF ProvideAt, ProvideRest, PutRecord
<1>0. provide \in ProvideSet /\ provide.args \in Seq(PBlocks) /\ provide.todo \in Seq(PBlocks) /\ provide.rec \in BOOLEAN
  BY DEF ProvideInv, ProvideSet
<1>1. CASE ProvideKeys
  <2>1. CASE provide.todo = <<>> /\ ProvideGoes("ok") /\ ProvideRest
    BY <1>1, <2>1, ProvideGoesOn DEF ProvideKeys
  <2>2. CASE ProvideGoes("error") /\ ProvideRest
    BY <2>2, ProvideGoesOn
  <2>3. CASE provide.todo # <<>> /\ provide' = [provide EXCEPT !.todo = Tail(@)] /\ PutRecord(Head(provide.todo))
    <3> DEFINE t == Tail(provide.todo)
    <3>1. t \in Seq(PBlocks) /\ \A j \in DOMAIN provide.todo : provide.todo[j] = Head(provide.todo) \/ \E k \in DOMAIN t : t[k] = provide.todo[j]
      BY <1>0, <2>3, TodoTail
    <3>2. provide.pc = "keys" /\ provide.rec = FALSE
      BY <1>1 DEF ProvideKeys, ProvideInv
    <3>3. provide' = [provide EXCEPT !.todo = t] /\ provided' = provided \union {Head(provide.todo)}
      BY <2>3
    <3> HIDE DEF t
    <3>4. provide' \in ProvideSet /\ provide'.pc = "keys" /\ provide'.rec = FALSE /\ provide'.todo = t /\ provide'.args = provide.args
      BY <1>0, <3>1, <3>2, <3>3 DEF ProvideSet
    <3>5. \A i \in DOMAIN provide.args : Wanted(provide.args[i]) \subseteq provided \/ StillTodo(provide.args[i])
      BY <3>2 DEF ProvideInv
    <3>6. ASSUME NEW i \in DOMAIN provide.args
          PROVE  Wanted(provide.args[i])' \subseteq provided' \/ StillTodo(provide.args[i])'
      <4>1. Wanted(provide.args[i])' = {provide.args[i]} /\ Wanted(provide.args[i]) = {provide.args[i]}
        BY <3>2, <3>4 DEF Wanted
      <4>2. CASE Wanted(provide.args[i]) \subseteq provided
        BY <3>3, <4>1, <4>2
      <4>3. CASE StillTodo(provide.args[i])
        BY <3>1, <3>3, <3>4, <4>1, <4>3 DEF StillTodo
      <4> QED BY <3>5, <4>2, <4>3
    <3>7. (\A i \in DOMAIN provide.args : Wanted(provide.args[i]) \subseteq provided \/ StillTodo(provide.args[i]))'
      BY <3>4, <3>6
    <3> QED BY <3>4, <3>7 DEF ProvideInv
  <2> QED BY <1>1, <2>1, <2>2, <2>3 DEF ProvideKeys
<1>2. CASE ProvideWalk
  <2>1. CASE ProvideGoes("error") /\ ProvideRest
    BY <2>1, ProvideGoesOn
  <2>2. CASE provide' = [provide EXCEPT !.pc = "send", !.keys = ReachOf(Head(provide.todo))] /\ UNCHANGED provided
    <3> DEFINE keys == ReachOf(Head(provide.todo))
    <3>1. provide.pc = "rec" /\ provide.rec = TRUE /\ provide.todo # <<>>
      BY <1>2 DEF ProvideWalk, ProvideInv
    <3>2. Head(provide.todo) \in PBlocks
      BY <1>0, <3>1, TodoTail
    <3>3. keys \in SUBSET Reachable
      BY <3>2 DEF Reachable
    <3>4. provide' = [provide EXCEPT !.pc = "send", !.keys = keys]
      BY <2>2
    <3> HIDE DEF keys
    <3>5. /\ provide' \in ProvideSet /\ provide'.pc = "send" /\ provide'.rec = TRUE /\ provide'.todo = provide.todo
          /\ provide'.args = provide.args /\ provide'.keys = keys
      BY <1>0, <3>1, <3>3, <3>4 DEF ProvideSet
    <3>6. \A b : Wanted(b)' = Wanted(b) /\ StillTodo(b)' = StillTodo(b)
      BY <3>1, <3>5 DEF Wanted, StillTodo
    <3> QED BY <2>2, <3>1, <3>5, <3>6 DEF ProvideInv, keys
  <2> QED BY <1>2, <2>1, <2>2 DEF ProvideWalk
<1>3. CASE ProvideSend
  <2>0. provide.pc = "send" /\ provide.rec = TRUE /\ provide.todo # <<>>
    BY <1>3 DEF ProvideSend, ProvideInv
  <2>1. CASE ProvideGoes("error") /\ ProvideRest
    BY <2>1, ProvideGoesOn
  <2>2. ASSUME NEW b \in provide.keys, provide' = [provide EXCEPT !.keys = @ \ {b}], PutRecord(b)
        PROVE  ProvideInv'
    <3> DEFINE keys == provide.keys \ {b}
    <3>1. keys \in SUBSET Reachable /\ provide' = [provide EXCEPT !.keys = keys]
      BY <1>0, <2>2 DEF ProvideSet
    <3>2. keys \union (provided \union {b}) = provide.keys \union provided
      BY <2>2
    <3> HIDE DEF keys
    <3>3. /\ provide' \in ProvideSet /\ provide'.pc = "send" /\ provide'.rec = TRUE /\ provide'.todo = provide.todo
          /\ provide'.args = provide.args /\ provide'.keys = keys
      BY <1>0, <2>0, <3>1 DEF ProvideSet
    <3>4. \A c : Wanted(c)' = Wanted(c) /\ StillTodo(c)' = StillTodo(c)
      BY <2>0, <3>3 DEF Wanted, StillTodo
    <3> QED BY <2>0, <2>2, <3>2, <3>3, <3>4 DEF ProvideInv
  <2>3. CASE provide.keys = {} /\ provide' = [provide EXCEPT !.pc = "rec", !.todo = Tail(@)] /\ UNCHANGED provided
    <3> DEFINE t == Tail(provide.todo)
    <3>1. t \in Seq(PBlocks) /\ \A j \in DOMAIN provide.todo : provide.todo[j] = Head(provide.todo) \/ \E k \in DOMAIN t : t[k] = provide.todo[j]
      BY <1>0, <2>0, TodoTail
    <3>2. provide' = [provide EXCEPT !.pc = "rec", !.todo = t]
      BY <2>3
    <3>3. ReachOf(Head(provide.todo)) \subseteq provided
      BY <2>0, <2>3 DEF ProvideInv
    <3> HIDE DEF t
    <3>4. /\ provide' \in ProvideSet /\ provide'.pc = "rec" /\ provide'.rec = TRUE /\ provide'.todo = t
          /\ provide'.args = provide.args
      BY <1>0, <2>0, <3>1, <3>2 DEF ProvideSet
    <3>5. \A c : Wanted(c)' = Wanted(c) /\ Wanted(c) = ReachOf(c)
      BY <2>0, <3>4 DEF Wanted
    <3>6. \A i \in DOMAIN provide.args : Wanted(provide.args[i]) \subseteq provided \/ StillTodo(provide.args[i])
      BY <2>0 DEF ProvideInv
    <3>7. ASSUME NEW i \in DOMAIN provide.args
          PROVE  Wanted(provide.args[i]) \subseteq provided \/ StillTodo(provide.args[i])'
      BY <3>1, <3>3, <3>4, <3>5, <3>6 DEF StillTodo
    <3> QED BY <2>3, <3>4, <3>5, <3>7 DEF ProvideInv
  <2> QED BY <1>3, <2>1, <2>2, <2>3 DEF ProvideSend
<1>4. CASE ProvideRecDone
  BY <1>4, ProvideGoesOn DEF ProvideRecDone
<1>5. CASE StreamVisit
  <2>1. provide.pc = "stream" /\ provide.rec = TRUE /\ provide.args # <<>>
    BY <1>5 DEF StreamVisit, ProvideInv
  <2>2. provide' \in ProvideSet /\ provide'.pc = "stream" /\ provide'.rec = TRUE /\ provide'.args # <<>>
    <3>1. ASSUME NEW b \in (ReachOf(provide.args[1]) \intersect pstore) \ provide.keys,
                 provide' = [provide EXCEPT !.keys = @ \union {b}]
          PROVE  provide' \in ProvideSet /\ provide'.pc = "stream" /\ provide'.rec = TRUE /\ provide'.args # <<>>
      <4> DEFINE keys == provide.keys \union {b}
      <4>1. provide.args[1] \in PBlocks
        BY <1>0, <2>1
      <4>2. keys \in SUBSET Reachable
        BY <1>0, <3>1, <4>1 DEF Reachable, ProvideSet
      <4>3. provide' = [provide EXCEPT !.keys = keys]
        BY <3>1
      <4> HIDE DEF keys
      <4> QED BY <1>0, <2>1, <4>2, <4>3 DEF ProvideSet
    <3>2. ASSUME NEW w \in {"done", "error"}, provide' = [provide EXCEPT !.walk = w]
          PROVE  provide' \in ProvideSet /\ provide'.pc = "stream" /\ provide'.rec = TRUE /\ provide'.args # <<>>
      BY <1>0, <2>1, <3>2 DEF ProvideSet
    <3> QED BY <1>5, <3>1, <3>2 DEF StreamVisit
  <2> QED BY <2>2 DEF ProvideInv
<1>6. CASE StreamStops
  <2>1. CASE provide' = [provide EXCEPT !.pc = "error", !.walk = "none"]
    <3>1. provide' \in ProvideSet /\ provide'.pc = "error"
      BY <1>0, <2>1 DEF ProvideSet
    <3> QED BY <3>1 DEF ProvideInv
  <2> QED BY <1>6, <2>1, ProvideGoesOn DEF StreamStops
<1>7. CASE ProvideCancelled
  BY <1>7, ProvideGoesOn DEF ProvideCancelled
<1>8. ASSUME NEW who \in {"cmd", "api"}, NEW args \in PArgs, NEW rec \in BOOLEAN, ProvideStart(who, args, rec)
      PROVE  ProvideInv'
  <2>1. args \in Seq(PBlocks)
    BY ProvideConstants
  <2>2. CASE provide' = [provide EXCEPT !.pc = "error"]
    <3>1. provide' \in ProvideSet /\ provide'.pc = "error"
      BY <1>0, <2>2 DEF ProvideSet
    <3> QED BY <3>1 DEF ProvideInv
  <2> DEFINE to == IF ~rec THEN "keys" ELSE IF who = "cmd" THEN "rec" ELSE "stream"
             w == IF rec /\ who = "api" THEN "walking" ELSE "none"
  <2>3. CASE provide' = [NoProvide EXCEPT !.pc = to, !.who = who, !.rec = rec, !.args = args, !.todo = args, !.walk = w]
    <3>1. to \in {"keys", "rec", "stream"} /\ w \in {"none", "walking"} /\ (rec = FALSE <=> to = "keys")
      BY <1>8
    <3>2. to = "stream" => args # <<>>
      <4>1. to = "stream" => who = "api"
        BY <1>8
      <4>2. who = "api" => Len(args) = 1
        BY <1>8, Zenon DEF ProvideStart
      <4> QED BY <2>1, <4>1, <4>2
    <3> HIDE DEF to, w
    <3>3. provide' = [pc |-> to, who |-> who, rec |-> rec, args |-> args, todo |-> args, keys |-> {}, walk |-> w]
      BY <2>3 DEF NoProvide
    <3>4. provide' \in ProvideSet /\ provide'.pc = to /\ provide'.rec = rec /\ provide'.args = args /\ provide'.todo = args
      BY <1>8, <2>1, <3>1, <3>3 DEF ProvideSet
    <3>5. \A i \in DOMAIN args : StillTodo(args[i])'
      BY <3>4 DEF StillTodo
    <3> QED BY <3>1, <3>2, <3>4, <3>5 DEF ProvideInv
  <2> QED BY <1>8, <2>2, <2>3 DEF ProvideStart
<1>9. CASE UNCHANGED pvVars
  BY <1>9 DEF pvVars, ProvideInv, Wanted, StillTodo
<1> QED BY <1>1, <1>2, <1>3, <1>4, <1>5, <1>6, <1>7, <1>8, <1>9 DEF ProvideNext, ProvideStep

LEMMA ProvideInvImplies == ProvideInv => ProvidedAll
BY DEF ProvideInv, ProvideSet, Wanted, ProvidedAll, ProvideAt

-----------------------------------------------------------------------------
(***************************************************************************)
(* pubsub sub.                                                             *)
(***************************************************************************)
Msg == [n : Nat, topic : Topics \union {"none", "error"}]
Msgs(s) == {s[i] : i \in DOMAIN s}

\* The message that the client's goroutine has decoded.
InFlight == IF subLoop.pc = "send" /\ subLoop.msg # ErrMsg THEN {subLoop.msg} ELSE {}

Rising(s) == \A i, j \in DOMAIN s : i < j => s[i].n < s[j].n
Before(S, T) == \A a \in S, b \in T : a.n < b.n
OnTopic(S) ==
  \A m \in S : m.n \in 1 .. Len(published) /\ m.topic = subTopic.topic /\ published[m.n] = subTopic.topic

SubTypes ==
  /\ subTopic \in [topic : Topics, base : {"base64url", "base64", "raw"}] /\ published \in Seq(Topics)
  /\ subHandler \in [pc : {"none", "next", "ended", "refused"}, topic : Topics \union {"none"}, queue : Seq(Msg)]
  /\ subLoop \in [pc : {"none", "decode", "send", "ended"}, msg : Msg]
  /\ wire \in Seq(Msg) /\ got \in Seq(Msg)

\* Queue, wire, client and caller hold messages on the topic, each of them in the order
\* of publishing, and each before those that are further back.
SubInv ==
  /\ SubTypes
  /\ subHandler.pc = "next" => subHandler.topic = subTopic.topic
  /\ OnTopic(Msgs(got)) /\ OnTopic(InFlight) /\ OnTopic(Msgs(wire)) /\ OnTopic(Msgs(subHandler.queue))
  /\ Rising(got) /\ Rising(wire) /\ Rising(subHandler.queue)
  /\ Before(Msgs(got), InFlight) /\ Before(Msgs(got), Msgs(wire)) /\ Before(Msgs(got), Msgs(subHandler.queue))
  /\ Before(InFlight, Msgs(wire)) /\ Before(InFlight, Msgs(subHandler.queue))
  /\ Before(Msgs(wire), Msgs(subHandler.queue))

LEMMA MsgsAppend ==
  ASSUME NEW s \in Seq(Msg), NEW m \in Msg
  PROVE  /\ Append(s, m) \in Seq(Msg) /\ Msgs(Append(s, m)) = Msgs(s) \union {m}
         /\ Rising(s) /\ Before(Msgs(s), {m}) => Rising(Append(s, m))
<1> DEFINE t == Append(s, m)
<1>1. t \in Seq(Msg) /\ Len(s) \in Nat /\ DOMAIN s = 1 .. Len(s) /\ DOMAIN t = 1 .. Len(s) + 1
  OBVIOUS
<1>2. (\A i \in DOMAIN s : t[i] = s[i]) /\ t[Len(s) + 1] = m
  OBVIOUS
<1> HIDE DEF t
<1>3. DOMAIN t = DOMAIN s \union {Len(s) + 1}
  BY <1>1
<1>4. Msgs(t) = Msgs(s) \union {m}
  BY <1>2, <1>3 DEF Msgs
<1>5. ASSUME Rising(s), Before(Msgs(s), {m}) PROVE Rising(t)
  <2>1. \A i \in DOMAIN s : s[i].n < m.n
    BY <1>5 DEF Before, Msgs
  <2> QED BY <1>1, <1>2, <1>5, <2>1 DEF Rising
<1> QED BY <1>1, <1>4, <1>5 DEF t

LEMMA MsgsHead ==
  ASSUME NEW s \in Seq(Msg), s # <<>>
  PROVE  /\ Head(s) \in Msg /\ Tail(s) \in Seq(Msg) /\ Msgs(s) = {Head(s)} \union Msgs(Tail(s))
         /\ Rising(s) => Rising(Tail(s)) /\ Before({Head(s)}, Msgs(Tail(s)))
<1> DEFINE t == Tail(s)
<1>1. /\ t \in Seq(Msg) /\ Len(s) \in Nat \ {0} /\ DOMAIN s = 1 .. Len(s) /\ DOMAIN t = 1 .. Len(s) - 1
      /\ Head(s) = s[1] /\ s[1] \in Msg
  OBVIOUS
<1>2. \A i \in 1 .. Len(s) - 1 : t[i] = s[i + 1]
  OBVIOUS
<1> HIDE DEF t
<1>3. \A j \in DOMAIN s : j = 1 \/ (j - 1 \in DOMAIN t /\ t[j - 1] = s[j])
  BY <1>1, <1>2
<1>4. \A i \in DOMAIN t : i + 1 \in DOMAIN s /\ t[i] = s[i + 1]
  BY <1>1, <1>2
<1>5. Msgs(s) = {s[1]} \union Msgs(t)
  <2>1. \A x \in Msgs(s) : x \in {s[1]} \union Msgs(t)
    BY <1>3 DEF Msgs
  <2>2. \A x \in {s[1]} \union Msgs(t) : x \in Msgs(s)
    BY <1>1, <1>4 DEF Msgs
  <2> QED BY <2>1, <2>2
<1>6. ASSUME Rising(s) PROVE Rising(t) /\ Before({s[1]}, Msgs(t))
  <2>1. Rising(t)
    BY <1>1, <1>4, <1>6 DEF Rising
  <2>2. \A i \in DOMAIN t : s[1].n < t[i].n
    BY <1>1, <1>4, <1>6 DEF Rising
  <2> QED BY <2>1, <2>2 DEF Before, Msgs
<1> QED BY <1>1, <1>5, <1>6 DEF t

\* What was on the topic stays so when more is published.
LEMMA OnTopicStays ==
  ASSUME NEW S, OnTopic(S), published \in Seq(Topics), UNCHANGED subTopic,
         published' = published \/ \E t \in Topics : published' = Append(published, t)
  PROVE  \A m \in S : m.n \in 1 .. Len(published') /\ m.topic = subTopic'.topic /\ published'[m.n] = subTopic'.topic
<1>1. \A i \in 1 .. Len(published) : i \in 1 .. Len(published') /\ published'[i] = published[i]
  OBVIOUS
<1> QED BY <1>1 DEF OnTopic

LEMMA PubSubInits == PubSubInit => SubInv
<1> SUFFICES ASSUME PubSubInit PROVE SubInv
  OBVIOUS
<1>1. <<>> \in Seq(Msg) /\ <<>> \in Seq(Topics) /\ Msgs(<<>>) = {} /\ Rising(<<>>)
  BY DEF Msgs, Rising
<1>2. NoMsg \in Msg
  BY DEF NoMsg, Msg
<1>3. SubTypes /\ subHandler.pc = "none" /\ subHandler.queue = <<>> /\ got = <<>> /\ wire = <<>> /\ InFlight = {}
  BY <1>1, <1>2 DEF PubSubInit, SubTypes, InFlight
<1> QED BY <1>1, <1>3 DEF SubInv, OnTopic, Before

\* Messages that go away or stay where they are.
LEMMA FewerMessages ==
  ASSUME SubInv, SubTypes', UNCHANGED <<subTopic, published>>,
         subHandler'.pc = "next" => subHandler'.topic = subTopic.topic,
         UNCHANGED got, UNCHANGED wire, InFlight' \subseteq InFlight,
         subHandler'.queue \in {<<>>, subHandler.queue}
  PROVE  SubInv'
<1>1. Msgs(subHandler'.queue) \subseteq Msgs(subHandler.queue) /\ Rising(subHandler'.queue)
  BY DEF SubInv, Msgs, Rising
<1>2. \A S, T : T \subseteq S /\ OnTopic(S) => OnTopic(T)'
  BY DEF OnTopic
<1>3. \A S, T, U, V : Before(S, T) /\ U \subseteq S /\ V \subseteq T => Before(U, V)
  BY DEF Before
<1>4. Msgs(got') = Msgs(got) /\ Msgs(wire') = Msgs(wire) /\ Rising(got') /\ Rising(wire')
  BY DEF SubInv
<1> QED
  <2> HIDE DEF InFlight
  <2> QED BY <1>1, <1>2, <1>3, <1>4 DEF SubInv

LEMMA PubSubSteps ==
  ASSUME SubInv, [PubSubNext]_psVars
  PROVE  SubInv'
<1>0. SubTypes /\ wire \in Seq(Msg) /\ got \in Seq(Msg) /\ subHandler.queue \in Seq(Msg) /\ published \in Seq(Topics)
  BY DEF SubInv, SubTypes
<1>a. \A S, T, U, V : Before(S, T) /\ U \subseteq S /\ V \subseteq T => Before(U, V)
  BY DEF Before
<1>b. \A S, T, U : Before(S \union T, U) <=> Before(S, U) /\ Before(T, U)
  BY DEF Before
<1>c. \A S, T, U : Before(U, S \union T) <=> Before(U, S) /\ Before(U, T)
  BY DEF Before
<1>d. \A S, T : OnTopic(S \union T) <=> OnTopic(S) /\ OnTopic(T)
  BY DEF OnTopic
<1>e. NoMsg \in Msg /\ ErrMsg \in Msg /\ <<>> \in Seq(Msg)
  BY DEF NoMsg, ErrMsg, Msg
<1>1. ASSUME NEW t \in Topics, Publish([topic |-> t, base |-> "base64url"])
      PROVE  SubInv'
  <2>1. /\ published' = Append(published, t) /\ UNCHANGED <<subTopic, wire, subLoop, got>>
        /\ subHandler' = IF subHandler.pc = "next" /\ subHandler.topic = t /\ Len(subHandler.queue) < SubBuffer
                         THEN [subHandler EXCEPT !.queue = Append(@, [n |-> Len(published) + 1, topic |-> t])]
                         ELSE subHandler
    BY <1>1 DEF Publish, UrlArgsDecoder, ThroughUrl
  <2>2. published' \in Seq(Topics) /\ Len(published') = Len(published) + 1 /\ published'[Len(published) + 1] = t
    BY <1>0, <2>1
  <2>3. \A S : OnTopic(S) => \A m \in S : m.n \in 1 .. Len(published') /\ m.topic = subTopic'.topic /\ published'[m.n] = subTopic'.topic
    BY <1>0, <2>1, OnTopicStays
  <2>4. CASE subHandler' = subHandler
    <3>1. SubTypes'
      BY <1>0, <2>1, <2>2, <2>4 DEF SubTypes
    <3>2. Msgs(got') = Msgs(got) /\ Msgs(wire') = Msgs(wire) /\ Msgs(subHandler'.queue) = Msgs(subHandler.queue) /\ InFlight' = InFlight
      BY <2>1, <2>4 DEF InFlight
    <3>3. OnTopic(Msgs(got))' /\ OnTopic(InFlight)' /\ OnTopic(Msgs(wire))' /\ OnTopic(Msgs(subHandler.queue))'
      BY <2>3, <3>2 DEF SubInv, OnTopic
    <3> QED BY <2>1, <2>4, <3>1, <3>2, <3>3 DEF SubInv
  <2>5. CASE subHandler' # subHandler
    <3>1. PICK m : m = [n |-> Len(published) + 1, topic |-> t]
      OBVIOUS
    <3>2. PICK q : q = Append(subHandler.queue, m)
      OBVIOUS
    <3>3. subHandler.pc = "next" /\ subHandler.topic = t /\ subTopic.topic = t /\ subHandler' = [subHandler EXCEPT !.queue = q]
      BY <2>1, <2>5, <3>1, <3>2 DEF SubInv
    <3>4. m \in Msg /\ m.n = Len(published) + 1 /\ m.topic = t
      BY <1>0, <3>1 DEF Msg
    <3>5. \A S : OnTopic(S) => Before(S, {m})
      BY <1>0, <3>4 DEF OnTopic, Before
    <3>6. q \in Seq(Msg) /\ Msgs(q) = Msgs(subHandler.queue) \union {m} /\ Rising(q)
      BY <1>0, <3>4, <3>5, <3>2, MsgsAppend DEF SubInv
    <3>7. subHandler' \in [pc : {"none", "next", "ended", "refused"}, topic : Topics \union {"none"}, queue : Seq(Msg)]
          /\ subHandler'.queue = q /\ subHandler'.pc = "next" /\ subHandler'.topic = t
      BY <1>0, <3>3, <3>6 DEF SubTypes
    <3>8. SubTypes'
      BY <1>0, <2>1, <2>2, <3>7 DEF SubTypes
    <3>9. OnTopic({m})'
      BY <1>0, <2>1, <2>2, <3>3, <3>4 DEF OnTopic
    <3>10. Msgs(got') = Msgs(got) /\ Msgs(wire') = Msgs(wire) /\ InFlight' = InFlight
      BY <2>1 DEF InFlight
    <3>11. OnTopic(Msgs(got))' /\ OnTopic(InFlight)' /\ OnTopic(Msgs(wire))' /\ OnTopic(Msgs(subHandler.queue))'
      BY <2>3, <3>6, <3>7, <3>9, <3>10 DEF SubInv, OnTopic
    <3>12. Before(Msgs(got), {m}) /\ Before(InFlight, {m}) /\ Before(Msgs(wire), {m})
      BY <3>5 DEF SubInv
    <3> HIDE DEF InFlight, Before
    <3>13. /\ Before(Msgs(got), Msgs(q)) /\ Before(InFlight, Msgs(q)) /\ Before(Msgs(wire), Msgs(q))
           /\ Before(Msgs(got), InFlight) /\ Before(Msgs(got), Msgs(wire)) /\ Before(InFlight, Msgs(wire))
      BY <1>c, <3>6, <3>12, Zenon DEF SubInv
    <3>14. Rising(got) /\ Rising(wire) /\ subTopic' = subTopic /\ got' = got /\ wire' = wire
      BY <2>1 DEF SubInv
    <3> QED BY <3>3, <3>6, <3>7, <3>8, <3>10, <3>11, <3>13, <3>14 DEF SubInv
  <2> QED BY <2>4, <2>5
<1>2. CASE Subscribe
  <2>1. CASE subHandler' = [subHandler EXCEPT !.pc = "refused"] /\ UNCHANGED subLoop
    <3>1. SubTypes' /\ subHandler'.pc = "refused" /\ subHandler'.queue = subHandler.queue /\ InFlight' = InFlight
      BY <1>0, <1>2, <2>1 DEF SubTypes, Subscribe, InFlight
    <3> QED BY <1>2, <3>1, FewerMessages DEF Subscribe
  <2>2. CASE ~(subHandler' = [subHandler EXCEPT !.pc = "refused"] /\ UNCHANGED subLoop)
    <3> DEFINE topic == UrlArgsDecoder(ThroughUrl(subTopic))
    <3>1. topic # "refused" /\ subHandler' = [subHandler EXCEPT !.pc = "next", !.topic = topic] /\ subLoop' = [subLoop EXCEPT !.pc = "decode"]
      BY <1>2, <2>2 DEF Subscribe
    <3>2. topic # "refused" => topic = subTopic.topic
      BY <1>0 DEF SubTypes, UrlArgsDecoder, ThroughUrl
    <3>3. topic \in Topics
      BY <1>0, <3>1, <3>2 DEF SubTypes
    <3>4. topic = subTopic.topic
      BY <3>1, <3>2
    <3> HIDE DEF topic
    <3>5. /\ subHandler' \in [pc : {"none", "next", "ended", "refused"}, topic : Topics \union {"none"}, queue : Seq(Msg)]
          /\ subHandler'.pc = "next" /\ subHandler'.topic = topic /\ subHandler'.queue = subHandler.queue
      BY <1>0, <3>1, <3>3 DEF SubTypes
    <3>6. SubTypes' /\ InFlight' = {}
      BY <1>0, <1>2, <3>1, <3>5 DEF SubTypes, Subscribe, InFlight
    <3> QED BY <1>2, <3>4, <3>5, <3>6, FewerMessages DEF Subscribe
  <2> QED BY <2>1, <2>2
<1>3. CASE SubEmit
  <2> DEFINE m == Head(subHandler.queue)
             q == Tail(subHandler.queue)
             w == Append(wire, m)
  <2>1. /\ wire' = w /\ subHandler.pc = "next" /\ subHandler' = [subHandler EXCEPT !.queue = q] /\ subHandler.queue # <<>>
        /\ UNCHANGED <<published, subTopic, subLoop, got>>
    BY <1>3 DEF SubEmit
  <2>2. /\ m \in Msg /\ q \in Seq(Msg) /\ Msgs(subHandler.queue) = {m} \union Msgs(q)
        /\ Rising(q) /\ Before({m}, Msgs(q))
    BY <1>0, <2>1, MsgsHead DEF SubInv
  <2> HIDE DEF m, q
  <2>3. Before(Msgs(wire), {m})
    BY <1>a, <2>2 DEF SubInv
  <2>4. w \in Seq(Msg) /\ Msgs(w) = Msgs(wire) \union {m} /\ Rising(w)
    BY <1>0, <2>2, <2>3, MsgsAppend DEF SubInv
  <2> HIDE DEF w
  <2>5. /\ subHandler' \in [pc : {"none", "next", "ended", "refused"}, topic : Topics \union {"none"}, queue : Seq(Msg)]
        /\ subHandler'.pc = "next" /\ subHandler'.topic = subHandler.topic /\ subHandler'.queue = q
    BY <1>0, <2>1, <2>2 DEF SubTypes
  <2>6. SubTypes' /\ InFlight' = InFlight
    BY <1>0, <2>1, <2>4, <2>5 DEF SubTypes, InFlight
  <2>7. OnTopic(Msgs(wire))' /\ OnTopic(Msgs(subHandler.queue))' /\ OnTopic(Msgs(got))' /\ OnTopic(InFlight)'
    BY <2>1, <2>2, <2>4, <2>5, <2>6 DEF SubInv, OnTopic
  <2>8. /\ Before(Msgs(got), Msgs(w)) /\ Before(Msgs(got), Msgs(q)) /\ Before(InFlight, Msgs(w))
        /\ Before(InFlight, Msgs(q)) /\ Before(Msgs(w), Msgs(q))
    <3> HIDE DEF InFlight, Before
    <3>1. Before(Msgs(got), {m} \union Msgs(q)) /\ Before(InFlight, {m} \union Msgs(q)) /\ Before(Msgs(wire), {m} \union Msgs(q))
      BY <2>2 DEF SubInv
    <3>2. Before(Msgs(got), Msgs(wire)) /\ Before(InFlight, Msgs(wire))
      BY DEF SubInv
    <3> QED BY <1>b, <1>c, <2>2, <2>4, <3>1, <3>2, Zenon
  <2> HIDE DEF InFlight, Before
  <2> QED BY <2>1, <2>2, <2>4, <2>5, <2>6, <2>7, <2>8 DEF SubInv
<1>4. CASE SubCancelled
  <2>1. SubTypes' /\ subHandler'.pc = "ended" /\ subHandler'.queue = <<>> /\ InFlight' = InFlight
    BY <1>0, <1>4, <1>e DEF SubTypes, SubCancelled, InFlight
  <2> QED BY <1>4, <2>1, FewerMessages DEF SubCancelled
<1>5. CASE SubDecode
  <2> DEFINE m == Head(wire)
             w == Tail(wire)
  <2>1. /\ wire' = w /\ wire # <<>> /\ subLoop.pc = "decode" /\ subLoop' = [pc |-> "send", msg |-> m]
        /\ UNCHANGED <<published, subTopic, subHandler, got>>
    BY <1>5 DEF SubDecode
  <2>2. /\ m \in Msg /\ w \in Seq(Msg) /\ Msgs(wire) = {m} \union Msgs(w)
        /\ Rising(w) /\ Before({m}, Msgs(w))
    BY <1>0, <2>1, MsgsHead DEF SubInv
  <2> HIDE DEF m, w
  <2>3. SubTypes' /\ InFlight' \subseteq {m}
    BY <1>0, <2>1, <2>2 DEF SubTypes, InFlight
  <2>4. OnTopic(Msgs(wire))' /\ OnTopic(Msgs(subHandler.queue))' /\ OnTopic(Msgs(got))' /\ OnTopic(InFlight)'
    BY <2>1, <2>2, <2>3 DEF SubInv, OnTopic
  <2>5. /\ Before(Msgs(got), InFlight') /\ Before(Msgs(got), Msgs(w)) /\ Before(InFlight', Msgs(w))
        /\ Before(InFlight', Msgs(subHandler.queue)) /\ Before(Msgs(w), Msgs(subHandler.queue))
    <3> HIDE DEF InFlight
    <3> QED BY <1>a, <1>b, <1>c, <2>2, <2>3 DEF SubInv
  <2> HIDE DEF InFlight, Before
  <2> QED BY <2>1, <2>2, <2>3, <2>4, <2>5 DEF SubInv
<1>6. CASE SubDecodeError \/ SubLoopEnds
  <2>1. SubTypes' /\ InFlight' = {} /\ UNCHANGED <<subHandler, wire, got, subTopic, published>>
    BY <1>0, <1>6, <1>e DEF SubTypes, SubDecodeError, SubLoopEnds, InFlight
  <2> QED BY <2>1, FewerMessages DEF SubInv
<1>7. CASE SubNext
  <2>1. subLoop.pc = "send" /\ subLoop' = [pc |-> "decode", msg |-> NoMsg] /\ UNCHANGED <<published, subTopic, subHandler, wire>>
    BY <1>7 DEF SubNext
  <2>2. CASE subLoop.msg = ErrMsg
    <3>1. SubTypes' /\ InFlight' = {} /\ UNCHANGED got
      BY <1>0, <1>7, <1>e, <2>1, <2>2 DEF SubTypes, SubNext, InFlight
    <3> QED BY <2>1, <3>1, FewerMessages DEF SubInv
  <2>3. CASE subLoop.msg # ErrMsg
    <3> DEFINE m == subLoop.msg
               g == Append(got, m)
    <3>1. m \in Msg /\ InFlight = {m} /\ got' = g /\ InFlight' = {}
      BY <1>0, <1>7, <2>1, <2>3 DEF SubTypes, InFlight, SubNext
    <3> HIDE DEF m
    <3>2. g \in Seq(Msg) /\ Msgs(g) = Msgs(got) \union {m} /\ Rising(g)
      BY <1>0, <3>1, MsgsAppend DEF SubInv
    <3> HIDE DEF g
    <3>3. SubTypes'
      BY <1>0, <1>e, <2>1, <3>1, <3>2 DEF SubTypes
    <3>4. OnTopic(Msgs(got))' /\ OnTopic(InFlight)' /\ OnTopic(Msgs(wire))' /\ OnTopic(Msgs(subHandler.queue))'
      BY <2>1, <3>1, <3>2 DEF SubInv, OnTopic
    <3>5. Before(Msgs(g), Msgs(wire)) /\ Before(Msgs(g), Msgs(subHandler.queue)) /\ Before(Msgs(g), {}) /\ Before({}, Msgs(wire)) /\ Before({}, Msgs(subHandler.queue))
      BY <3>1, <3>2 DEF SubInv, Before
    <3> HIDE DEF InFlight, Before
    <3> QED BY <2>1, <3>1, <3>2, <3>3, <3>4, <3>5 DEF SubInv
  <2> QED BY <2>2, <2>3
<1>8. CASE SubClose
  <2>1. SubTypes' /\ InFlight' = {} /\ UNCHANGED <<subHandler, wire, got, subTopic, published>>
    BY <1>0, <1>8, <1>e DEF SubTypes, SubClose, InFlight
  <2> QED BY <2>1, FewerMessages DEF SubInv
<1>9. CASE CallerCancels \/ UNCHANGED psVars
  <2>1. SubTypes' /\ InFlight' = InFlight /\ UNCHANGED <<subHandler, wire, got, subTopic, published>>
    BY <1>0, <1>9 DEF SubTypes, CallerCancels, psVars, InFlight
  <2> QED BY <2>1, FewerMessages DEF SubInv
<1> QED BY <1>1, <1>2, <1>3, <1>4, <1>5, <1>6, <1>7, <1>8, <1>9 DEF PubSubNext, PubSubStep

LEMMA SubInvImplies == SubInv => GotOnTopic
<1> SUFFICES ASSUME SubInv PROVE GotOnTopic
  OBVIOUS
<1>1. got \in Seq(Msg) /\ DOMAIN got = 1 .. Len(got)
  BY DEF SubInv, SubTypes
<1>2. \A i \in DOMAIN got : got[i].topic = subTopic.topic /\ published[got[i].n] = subTopic.topic
  BY DEF SubInv, OnTopic, Msgs
<1> QED BY <1>1, <1>2 DEF SubInv, Rising, GotOnTopic

-----------------------------------------------------------------------------
(***************************************************************************)
(* swarm connect.                                                          *)
(***************************************************************************)
\* What is known of an argument that the loop has passed.
ArgHandled(i) ==
  CASE sargs[i].kind = "direct" -> sargs[i].peers \subseteq found
    [] sargs[i].kind = "dns" /\ resolver[i].state = "sending" -> sargs[i].peers \ resolver[i].left \subseteq found
    [] sargs[i].kind = "dns" /\ resolver[i].state = "done" -> errors > 0 \/ sargs[i].peers \subseteq found
    [] OTHER -> TRUE

ArgSet == [kind : {"direct", "dns", "bad"}, peers : SUBSET SwarmPeers]
ResolverSet == [state : {"done", "resolving", "sending"}, left : SUBSET SwarmPeers]

\* What an argument gave is found, sent or still to be sent, until the command acts on it.
SwarmInv ==
  /\ spc \in {"idle", "parse", "collect", "connect", "disconnect"} /\ sop \in {"connect", "disconnect"}
  /\ sargs \in Seq(ArgSet) /\ resolver \in [DOMAIN sargs -> ResolverSet]
  /\ next \in Nat \ {0} /\ errors \in Nat
  /\ \A i \in DOMAIN sargs : resolver[i].state # "done" => sargs[i].kind = "dns" /\ resolver[i].left \subseteq sargs[i].peers
  /\ spc \in {"parse", "collect"} =>
       /\ found \subseteq UNION {sargs[i].peers : i \in DOMAIN sargs}
       /\ \A i \in DOMAIN sargs : i < next => sargs[i].kind # "bad" /\ ArgHandled(i)
       /\ \A i \in DOMAIN sargs : i >= next => resolver[i] = NoResolver
       /\ spc = "collect" => next > Len(sargs)
  /\ spc \notin {"parse", "collect"} /\ (\A i \in DOMAIN sargs : sargs[i].kind # "bad") =>
       \A i \in DOMAIN sargs : resolver[i].state = "done"

LEMMA SwarmInits == SwarmInit => SwarmInv
<1> SUFFICES ASSUME SwarmInit PROVE SwarmInv
  OBVIOUS
<1>1. <<>> \in Seq(ArgSet) /\ DOMAIN <<>> = {} /\ <<>> \in [{} -> ResolverSet]
  OBVIOUS
<1>2. sargs \in Seq(ArgSet) /\ resolver \in [DOMAIN sargs -> ResolverSet] /\ DOMAIN sargs = {}
  BY <1>1 DEF SwarmInit
<1> QED BY <1>2 DEF SwarmInit, SwarmInv

LEMMA SwarmSteps ==
  ASSUME SwarmInv, [SwarmNext]_sVars
  PROVE  SwarmInv'
<1> USE DEF SwarmInv
<1>0. /\ DOMAIN sargs = 1 .. Len(sargs) /\ Len(sargs) \in Nat
      /\ \A i \in DOMAIN sargs : sargs[i] \in ArgSet /\ resolver[i] \in ResolverSet
  OBVIOUS
<1>1. CASE UNCHANGED cmdVars
  BY <1>1 DEF cmdVars, ArgHandled
<1>2. ASSUME NEW op \in {"connect", "disconnect"}, NEW args \in SwarmArgs, SwarmStart(op, args)
      PROVE  SwarmInv'
  <2>1. args \in Seq(ArgSet)
    BY SwarmConstants DEF ArgSet
  <2>2. NoResolver \in ResolverSet
    BY DEF NoResolver, ResolverSet
  <2>3. /\ spc' = "parse" /\ sop' = op /\ sargs' = args /\ next' = 1 /\ found' = {} /\ errors' = 0
        /\ resolver' = [i \in DOMAIN args |-> NoResolver]
    BY <1>2 DEF SwarmStart
  <2>4. \A i \in DOMAIN args : i >= 1 /\ ~(i < 1) /\ resolver'[i] = NoResolver /\ NoResolver.state = "done"
    BY <2>1, <2>3 DEF NoResolver
  <2> HIDE DEF NoResolver
  <2> QED BY <2>1, <2>2, <2>3, <2>4
<1>3. CASE ParseArg
  <2> DEFINE a == sargs[next]
  <2>1. /\ spc = "parse" /\ next \in DOMAIN sargs /\ next' = next + 1 /\ UNCHANGED <<sop, sargs, errors>>
        /\ spc' = IF a.kind = "bad" THEN "idle" ELSE "parse"
        /\ found' = IF a.kind = "direct" THEN found \union a.peers ELSE found
        /\ resolver' = IF a.kind = "dns" THEN [resolver EXCEPT ![next].state = "resolving"] ELSE resolver
    BY <1>0, <1>3 DEF ParseArg
  <2>2. resolver[next] = NoResolver /\ NoResolver.state = "done" /\ NoResolver.left = {}
    BY <2>1 DEF NoResolver
  <2>3. a \in ArgSet /\ a.kind \in {"direct", "dns", "bad"} /\ a.peers \subseteq SwarmPeers
    BY <1>0, <2>1 DEF ArgSet
  <2>4. resolver' \in [DOMAIN sargs' -> ResolverSet]
    BY <1>0, <2>1 DEF ResolverSet
  <2>5. \A i \in DOMAIN sargs : i # next => resolver'[i] = resolver[i]
    BY <2>1
  <2>6. /\ a.kind = "dns" => resolver'[next].state = "resolving" /\ resolver'[next].left = {}
        /\ a.kind # "dns" => resolver'[next] = NoResolver
    BY <1>0, <2>1, <2>2, <2>3 DEF ResolverSet
  <2>7. a.peers \subseteq UNION {sargs[i].peers : i \in DOMAIN sargs} /\ found \subseteq found'
    BY <2>1
  <2>8. ASSUME NEW i \in DOMAIN sargs, i = next, a.kind # "bad"
        PROVE  ArgHandled(i)'
    <3>1. sargs'[i] = a /\ (a.kind = "dns" => resolver'[i].state = "resolving")
      BY <2>1, <2>6, <2>8
    <3> QED BY <2>1, <2>3, <2>8, <3>1 DEF ArgHandled
  <2>9. ASSUME NEW i \in DOMAIN sargs, i < next
        PROVE  ArgHandled(i)'
    <3>1. ArgHandled(i) /\ resolver'[i] = resolver[i]
      BY <2>1, <2>5, <2>9
    <3> QED BY <2>1, <2>7, <3>1 DEF ArgHandled
  <2>10. \A i \in DOMAIN sargs : resolver'[i].state # "done" => sargs[i].kind = "dns" /\ resolver'[i].left \subseteq sargs[i].peers
    BY <2>2, <2>5, <2>6
  <2>11. \A i \in DOMAIN sargs : (i < next' => i = next \/ i < next) /\ (i >= next' => i >= next /\ i # next)
    BY <1>0, <2>1
  <2> HIDE DEF a, ArgHandled
  <2>12. CASE a.kind = "bad"
    <3>1. spc' = "idle" /\ ~(\A i \in DOMAIN sargs : sargs[i].kind # "bad")
      BY <2>1, <2>12 DEF a
    <3> QED BY <1>0, <2>1, <2>4, <2>10, <3>1
  <2>13. CASE a.kind # "bad"
    <3>1. spc' = "parse" /\ sargs' = sargs /\ next' \in Nat \ {0}
      BY <2>1, <2>13
    <3>2. found' \subseteq UNION {sargs[i].peers : i \in DOMAIN sargs}
      BY <2>1, <2>7
    <3>3. \A i \in DOMAIN sargs : i < next' => sargs[i].kind # "bad" /\ ArgHandled(i)'
      BY <2>1, <2>8, <2>9, <2>11, <2>13 DEF a
    <3>4. \A i \in DOMAIN sargs : i >= next' => resolver'[i] = NoResolver
      BY <2>1, <2>5, <2>11
    <3> QED BY <2>1, <2>4, <2>10, <3>1, <3>2, <3>3, <3>4
  <2> QED BY <2>12, <2>13
<1>4. CASE ArgsParsed
  BY <1>4 DEF ArgsParsed, ArgHandled
<1>5. ASSUME NEW i \in 1 .. Len(sargs), Resolve(i)
      PROVE  SwarmInv'
  <2>1. /\ i \in DOMAIN sargs /\ resolver[i].state = "resolving" /\ sargs[i].kind = "dns" /\ UNCHANGED <<spc, sop, sargs, next, found>>
    BY <1>0, <1>5 DEF Resolve
  <2>2. spc \in {"parse", "collect"} => i < next
    <3>1. NoResolver.state = "done"
      BY DEF NoResolver
    <3> QED BY <1>0, <2>1, <3>1
  <2>3. sargs[i].peers \subseteq SwarmPeers
    BY <1>0 DEF ArgSet
  <2>4. /\ resolver' \in [DOMAIN sargs -> ResolverSet]
        /\ \A j \in DOMAIN sargs : j # i => resolver'[j] = resolver[j]
        /\ errors' \in Nat /\ (errors > 0 => errors' > 0)
        /\ \/ resolver'[i].state = "sending" /\ resolver'[i].left = sargs[i].peers
           \/ resolver'[i].state = "done" /\ errors' > 0
    <3>1. CASE resolver' = [resolver EXCEPT ![i] = [state |-> "sending", left |-> sargs[i].peers]] /\ UNCHANGED errors
      <4>1. PICK g : g = [state |-> "sending", left |-> sargs[i].peers]
        OBVIOUS
      <4>2. g \in ResolverSet /\ g.state = "sending" /\ g.left = sargs[i].peers
        BY <2>3, <4>1 DEF ResolverSet
      <4>3. resolver' = [resolver EXCEPT ![i] = g]
        BY <3>1, <4>1
      <4>4. resolver \in [DOMAIN sargs -> ResolverSet] /\ errors \in Nat
        OBVIOUS
      <4> HIDE DEF SwarmInv, ResolverSet
      <4>5. resolver' \in [DOMAIN sargs -> ResolverSet] /\ \A j \in DOMAIN sargs : j # i => resolver'[j] = resolver[j]
        BY <4>2, <4>3, <4>4
      <4>6. resolver'[i] = g
        BY <2>1, <4>3, <4>4
      <4> QED BY <3>1, <4>2, <4>4, <4>5, <4>6
    <3>2. CASE resolver' = [resolver EXCEPT ![i].state = "done"] /\ errors' = errors + 1
      <4>1. PICK g : g = [resolver[i] EXCEPT !.state = "done"]
        OBVIOUS
      <4>2. g \in ResolverSet /\ g.state = "done"
        BY <1>0, <2>1, <4>1 DEF ResolverSet
      <4>3. resolver' = [resolver EXCEPT ![i] = g]
        BY <3>2, <4>1
      <4>4. resolver \in [DOMAIN sargs -> ResolverSet] /\ errors \in Nat
        OBVIOUS
      <4> HIDE DEF SwarmInv, ResolverSet
      <4>5. resolver' \in [DOMAIN sargs -> ResolverSet] /\ \A j \in DOMAIN sargs : j # i => resolver'[j] = resolver[j]
        BY <4>2, <4>3, <4>4
      <4>6. resolver'[i] = g
        BY <2>1, <4>3, <4>4
      <4> QED BY <3>2, <4>2, <4>4, <4>5, <4>6
    <3> QED BY <1>5, <3>1, <3>2 DEF Resolve
  <2>5. ArgHandled(i)'
    BY <2>1, <2>4 DEF ArgHandled
  <2>6. \A j \in DOMAIN sargs : j # i /\ ArgHandled(j) => ArgHandled(j)'
    BY <2>1, <2>4 DEF ArgHandled
  <2>7. \A j \in DOMAIN sargs : resolver'[j].state # "done" => sargs[j].kind = "dns" /\ resolver'[j].left \subseteq sargs[j].peers
    BY <2>1, <2>4
  <2>8. spc \notin {"parse", "collect"} => ~(\A j \in DOMAIN sargs : sargs[j].kind # "bad")
    BY <2>1
  <2>9. spc \in {"parse", "collect"} => \A j \in DOMAIN sargs : j < next => sargs[j].kind # "bad" /\ ArgHandled(j)'
    BY <2>5, <2>6
  <2>10. spc \in {"parse", "collect"} => \A j \in DOMAIN sargs : j >= next => resolver'[j] = NoResolver
    BY <1>0, <2>2, <2>4
  <2> HIDE DEF ArgHandled
  <2> QED BY <2>1, <2>4, <2>7, <2>8, <2>9, <2>10
<1>6. ASSUME NEW i \in 1 .. Len(sargs), Collect(i)
      PROVE  SwarmInv'
  <2>1. /\ i \in DOMAIN sargs /\ spc = "collect" /\ resolver[i].state = "sending" /\ UNCHANGED <<spc, sop, sargs, next, errors>>
    <3>1. i \in DOMAIN sargs
      BY <1>0
    <3> HIDE DEF SwarmInv
    <3> QED BY <1>6, <3>1, Zenon DEF Collect
  <2>2. PICK p \in resolver[i].left :
          /\ found' = found \union {p}
          /\ resolver' = [resolver EXCEPT ![i].left = @ \ {p}, ![i].state = IF resolver[i].left = {p} THEN "done" ELSE "sending"]
    <3> HIDE DEF SwarmInv
    <3> QED BY <1>6, Zenon DEF Collect
  <2> DEFINE l == resolver[i].left \ {p}
             st == IF resolver[i].left = {p} THEN "done" ELSE "sending"
  <2>3. sargs[i].kind = "dns" /\ resolver[i].left \subseteq sargs[i].peers /\ resolver[i].left \in SUBSET SwarmPeers
    BY <1>0, <2>1 DEF ResolverSet
  <2>4. l \in SUBSET SwarmPeers /\ l \subseteq sargs[i].peers /\ st \in {"done", "sending"} /\ (st = "done" => l = {}) /\ l \union {p} = resolver[i].left
    BY <2>3
  <2> HIDE DEF l, st
  <2>5. /\ resolver' \in [DOMAIN sargs -> ResolverSet] /\ resolver'[i].state = st /\ resolver'[i].left = l
        /\ \A j \in DOMAIN sargs : j # i => resolver'[j] = resolver[j]
    <3>1. resolver' = [resolver EXCEPT ![i].left = l, ![i].state = st]
      BY <2>1, <2>2 DEF l, st
    <3>2. PICK g : g = [state |-> st, left |-> l]
      OBVIOUS
    <3>3. g \in ResolverSet /\ g.state = st /\ g.left = l
      BY <2>4, <3>2 DEF ResolverSet
    <3>4. resolver[i] \in ResolverSet /\ i \in DOMAIN resolver
      BY <1>0, <2>1
    <3>5. [[resolver[i] EXCEPT !.left = l] EXCEPT !.state = st] = g
      <4> HIDE DEF SwarmInv
      <4>1. PICK q : q = resolver[i]
        OBVIOUS
      <4>2. q \in [state : {"done", "resolving", "sending"}, left : SUBSET SwarmPeers]
        BY <3>4, <4>1 DEF ResolverSet
      <4>3. q = [state |-> q.state, left |-> q.left]
        BY <4>2
      <4>4. [q EXCEPT !.left = l] = [state |-> q.state, left |-> l]
        BY <4>3
      <4>5. [[state |-> q.state, left |-> l] EXCEPT !.state = st] = [state |-> st, left |-> l]
        OBVIOUS
      <4>6. [[q EXCEPT !.left = l] EXCEPT !.state = st] = [state |-> st, left |-> l]
        BY <4>4, <4>5
      <4> QED BY <3>2, <4>1, <4>6
    <3>6. resolver' = [resolver EXCEPT ![i] = g]
      <4> HIDE DEF SwarmInv
      <4>1. [resolver EXCEPT ![i] = [resolver[i] EXCEPT !.left = l]][i] = [resolver[i] EXCEPT !.left = l]
        BY <3>4
      <4>2. PICK h : h = [resolver[i] EXCEPT !.left = l]
        OBVIOUS
      <4>3. resolver' = [[resolver EXCEPT ![i] = h] EXCEPT ![i] = g]
        BY <3>1, <3>5, <4>1, <4>2
      <4> QED BY <3>4, <4>3
    <3> QED BY <2>1, <3>3, <3>6
  <2>6. ArgHandled(i)
    BY <1>0, <2>1
  <2>7. sargs[i].peers \ l \subseteq found'
    BY <2>1, <2>2, <2>3, <2>4, <2>6 DEF ArgHandled
  <2>8. ArgHandled(i)'
    BY <2>1, <2>4, <2>5, <2>7 DEF ArgHandled
  <2>9. \A j \in DOMAIN sargs : j # i /\ ArgHandled(j) => ArgHandled(j)'
    BY <2>1, <2>2, <2>5 DEF ArgHandled
  <2>10. found' \subseteq UNION {sargs[j].peers : j \in DOMAIN sargs}
    BY <2>1, <2>2, <2>3
  <2>11. \A j \in DOMAIN sargs : j < next
    BY <1>0, <2>1
  <2>12. \A j \in DOMAIN sargs : sargs[j].kind # "bad" /\ ArgHandled(j)'
    BY <2>1, <2>8, <2>9, <2>11
  <2>13. \A j \in DOMAIN sargs : resolver'[j].state # "done" => sargs[j].kind = "dns" /\ resolver'[j].left \subseteq sargs[j].peers
    BY <2>3, <2>4, <2>5
  <2> HIDE DEF ArgHandled
  <2>14. \A j \in DOMAIN sargs : ~(j >= next)
    BY <1>0, <2>11
  <2> QED BY <2>1, <2>5, <2>10, <2>11, <2>12, <2>13, <2>14
<1>7. CASE CollectDone
  BY <1>7 DEF CollectDone
<1>8. CASE Connect
  BY <1>8 DEF Connect
<1>9. CASE Disconnect
  BY <1>9 DEF Disconnect
<1>10. CASE PeerWith \/ PeeringStart \/ PeeringStop \/ UNCHANGED sVars
  BY <1>1, <1>10 DEF PeerWith, PeeringStart, PeeringStop, sVars, cmdVars
<1>11. ASSUME NEW p \in SwarmPeers, PeeringAdd(p) \/ PeeringRm(p) \/ Redial(p) \/ ConnLost(p)
       PROVE  SwarmInv'
  BY <1>1, <1>11 DEF PeeringAdd, PeeringRm, Redial, ConnLost
<1> HIDE DEF SwarmInv
<1> QED BY <1>2, <1>3, <1>4, <1>5, <1>6, <1>7, <1>8, <1>9, <1>10, <1>11
        DEF SwarmNext, SwarmCmdStep, ConnectCmd, DisconnectCmd

\* The step that ends the resolution, and what it finds.
LEMMA SwarmActs ==
  ASSUME SwarmInv, [SwarmNext]_sVars, spc = "collect", spc' \in {"connect", "disconnect"}
  PROVE  found = UNION {sargs[i].peers : i \in DOMAIN sargs}
<1>1. CollectDone /\ errors = 0
  <2>1. CASE UNCHANGED spc
    BY <2>1
  <2>2. CASE ParseArg \/ ArgsParsed \/ Connect \/ Disconnect
    BY <2>2 DEF ParseArg, ArgsParsed, Connect, Disconnect
  <2>3. ASSUME NEW op, NEW args, SwarmStart(op, args)
        PROVE  FALSE
    BY <2>3 DEF SwarmStart
  <2>4. CASE PeerWith \/ PeeringStart \/ PeeringStop \/ UNCHANGED sVars
    BY <2>4 DEF PeerWith, PeeringStart, PeeringStop, sVars, cmdVars
  <2>5. ASSUME NEW p, PeeringAdd(p) \/ PeeringRm(p) \/ Redial(p) \/ ConnLost(p)
        PROVE  UNCHANGED spc
    BY <2>5 DEF PeeringAdd, PeeringRm, Redial, ConnLost, cmdVars
  <2>6. ASSUME NEW i, Resolve(i) \/ Collect(i)
        PROVE  UNCHANGED spc
    BY <2>6 DEF Resolve, Collect
  <2>7. CASE CollectDone
    BY <2>7 DEF CollectDone, SwarmInv
  <2> QED BY <2>1, <2>2, <2>3, <2>4, <2>5, <2>6, <2>7 DEF SwarmNext, SwarmCmdStep, ConnectCmd, DisconnectCmd
<1>2. \A i \in DOMAIN sargs : i < next
  BY DEF SwarmInv
<1>3. \A i \in DOMAIN sargs : sargs[i].kind \in {"direct", "dns"} /\ ArgHandled(i) /\ resolver[i].state = "done"
  <2>1. \A i \in DOMAIN sargs : sargs[i] \in ArgSet /\ i \in DOMAIN resolver
    BY DEF SwarmInv
  <2> QED BY <1>1, <1>2, <2>1 DEF SwarmInv, ArgSet, CollectDone
<1>4. \A i \in DOMAIN sargs : sargs[i].peers \subseteq found
  BY <1>1, <1>3 DEF ArgHandled
<1> QED BY <1>4 DEF SwarmInv


-----------------------------------------------------------------------------
(***************************************************************************)
(* dag import.                                                             *)
(***************************************************************************)
CarFile == [roots : SUBSET CarBlocks, blocks : Seq(CarBlocks), end : {"eof", "broken"}]

ImportTypes ==
  /\ carFiles \in Seq(CarFile) /\ carOpts \in BOOLEAN /\ carLocked \in BOOLEAN /\ carFault \in BOOLEAN
  /\ imp \in [pc : {"start", "open", "read", "commit", "roots", "done"}, file : Nat, at : Nat,
              roots : SUBSET CarBlocks, left : SUBSET CarBlocks, count : Nat, err : BOOLEAN]
  /\ batch \in [nodes : SUBSET CarBlocks, commits : Seq(SUBSET CarBlocks), results : Seq(BOOLEAN), err : BOOLEAN]
  /\ carStore \subseteq CarBlocks /\ carPinned \subseteq CarBlocks

\* The places of the blocks: of all, and of those that were read.
Places == {p \in Nat \X Nat : p[1] \in DOMAIN carFiles /\ p[2] \in DOMAIN carFiles[p[1]].blocks}
WasRead(i, j) == i < imp.file \/ (i = imp.file /\ imp.pc = "read" /\ j < imp.at)
ReadPlaces == {p \in Places : WasRead(p[1], p[2])}

AtWork == imp.pc \in {"start", "open", "read", "commit"}

\* Where the reader is, and what it has counted.
ImportPlace ==
  /\ imp.file >= 1 /\ \A i \in DOMAIN carFiles : i < imp.file => carFiles[i].end = "eof"
  /\ imp.pc = "start" => imp.file = 1
  /\ imp.pc = "read" => imp.file \in DOMAIN carFiles /\ imp.at >= 1
  /\ imp.pc \in {"commit", "roots"} => imp.file > Len(carFiles)
  /\ AtWork \/ imp.pc = "roots" => IsFiniteSet(ReadPlaces) /\ imp.count = Cardinality(ReadPlaces)

\* Under the lock every block that was read is on its way to the store.
ImportBlocks ==
  /\ carOpts /\ imp.pc \notin {"start", "done"} => carLocked
  /\ AtWork \/ imp.pc = "roots" => (carFault => TRUE \in ToSet(batch.results)) /\ batch.err = FALSE
  /\ imp.pc = "commit" => batch.nodes = {}
  /\ carOpts /\ ~carFault /\ (AtWork \/ imp.pc = "roots") =>
       \A p \in ReadPlaces : \/ carFiles[p[1]].blocks[p[2]] \in carStore \union batch.nodes
                             \/ \E k \in DOMAIN batch.commits : carFiles[p[1]].blocks[p[2]] \in batch.commits[k]

\* The roots seen, and what has become of them.
ImportRoots ==
  /\ AtWork \/ imp.pc = "roots" =>
       imp.roots = UNION {carFiles[i].roots : i \in {i \in DOMAIN carFiles : i < imp.file \/ (i = imp.file /\ imp.pc = "read")}}
  /\ AtWork => carPinned = {} /\ DOMAIN rootMetas = {} /\ imp.left = {}
  /\ imp.pc = "roots" \/ carPinned # {} =>
       /\ batch.commits = <<>> /\ ~carFault /\ imp.count = Cardinality(Places)
       /\ \A i \in DOMAIN carFiles : carFiles[i].end = "eof"
  /\ imp.pc = "roots" /\ carOpts =>
       /\ Imported \subseteq carStore /\ imp.left \subseteq Roots /\ DOMAIN rootMetas = Roots \ imp.left
       /\ \A r \in Roots \ imp.left : Below[r] \subseteq Imported => rootMetas[r] = "pinned"
  /\ RootsStick /\ PinnedWhole

ImportInv == ImportTypes /\ ImportPlace /\ ImportBlocks /\ ImportRoots

LEMMA PlacesAre ==
  ASSUME carFiles \in Seq(CarFile)
  PROVE  /\ UNION {{<<i, j>> : j \in DOMAIN carFiles[i].blocks} : i \in DOMAIN carFiles} = Places
         /\ \A p \in Places : carFiles[p[1]].blocks[p[2]] \in Imported
         /\ \A b \in Imported : \E p \in Places : b = carFiles[p[1]].blocks[p[2]]
<1>1. /\ DOMAIN carFiles = 1 .. Len(carFiles) /\ Len(carFiles) \in Nat
      /\ \A i \in DOMAIN carFiles : carFiles[i].blocks \in Seq(CarBlocks)
  <2>1. DOMAIN carFiles = 1 .. Len(carFiles) /\ Len(carFiles) \in Nat /\ \A i \in DOMAIN carFiles : carFiles[i] \in CarFile
    OBVIOUS
  <2>2. \A f \in CarFile : f.blocks \in Seq(CarBlocks)
    BY DEF CarFile
  <2> QED BY <2>1, <2>2
<1>2. \A i \in DOMAIN carFiles : /\ DOMAIN carFiles[i].blocks = 1 .. Len(carFiles[i].blocks)
                                 /\ Len(carFiles[i].blocks) \in Nat
                                 /\ ToSet(carFiles[i].blocks) = {carFiles[i].blocks[j] : j \in DOMAIN carFiles[i].blocks}
  BY <1>1 DEF ToSet
<1>3. \A i \in DOMAIN carFiles : \A j \in DOMAIN carFiles[i].blocks : <<i, j>> \in Places
  BY <1>1, <1>2 DEF Places
<1>4. \A p \in Places : p = <<p[1], p[2]>> /\ p[1] \in DOMAIN carFiles /\ p[2] \in DOMAIN carFiles[p[1]].blocks
  BY DEF Places
<1>5. UNION {{<<i, j>> : j \in DOMAIN carFiles[i].blocks} : i \in DOMAIN carFiles} = Places
  BY <1>3, <1>4
<1>6. ASSUME NEW p \in Places
      PROVE  carFiles[p[1]].blocks[p[2]] \in Imported
  <2>1. carFiles[p[1]].blocks[p[2]] \in ToSet(carFiles[p[1]].blocks)
    BY <1>2, <1>4, ZenonT(60)
  <2> QED BY <1>4, <2>1 DEF Imported
<1>7. ASSUME NEW b \in Imported
      PROVE  \E p \in Places : b = carFiles[p[1]].blocks[p[2]]
  <2>1. PICK i \in DOMAIN carFiles : b \in ToSet(carFiles[i].blocks)
    BY <1>7 DEF Imported
  <2>2. PICK j \in DOMAIN carFiles[i].blocks : b = carFiles[i].blocks[j]
    BY <1>2, <2>1
  <2> QED BY <1>3, <2>2
<1> QED BY <1>5, <1>6, <1>7

LEMMA PlaceBounds ==
  ASSUME carFiles \in Seq(CarFile), NEW p \in Places
  PROVE  /\ p[1] \in DOMAIN carFiles /\ p[1] \in Nat /\ p[2] \in Nat /\ p[2] >= 1
         /\ p[2] <= Len(carFiles[p[1]].blocks)
<1>1. p[1] \in DOMAIN carFiles /\ p[2] \in DOMAIN carFiles[p[1]].blocks
  BY DEF Places
<1>2. carFiles[p[1]].blocks \in Seq(CarBlocks) /\ p[1] \in Nat
  <2>1. \A f \in CarFile : f.blocks \in Seq(CarBlocks)
    BY DEF CarFile
  <2>2. carFiles[p[1]] \in CarFile /\ p[1] \in Nat
    BY <1>1
  <2> QED BY <2>1, <2>2
<1>3. PICK b \in Seq(CarBlocks) : b = carFiles[p[1]].blocks
  BY <1>2
<1>4. p[2] \in 1 .. Len(b) /\ Len(b) \in Nat
  <2>1. p[2] \in DOMAIN b
    BY <1>1, <1>3
  <2>2. DOMAIN b = 1 .. Len(b) /\ Len(b) \in Nat
    OBVIOUS
  <2> QED BY <2>1, <2>2
<1> QED BY <1>1, <1>2, <1>3, <1>4

LEMMA ImportInits == ImportInit => ImportInv
<1> SUFFICES ASSUME ImportInit PROVE ImportInv
  OBVIOUS
<1>1. carFiles \in Seq(CarFile)
  BY CarConstants DEF ImportInit, CarFile
<1>2. <<>> \in Seq(SUBSET CarBlocks) /\ <<>> \in Seq(BOOLEAN) /\ DOMAIN <<>> = {} /\ ToSet(<<>>) = {}
  BY DEF ToSet
<1>3. imp = [pc |-> "start", file |-> 1, at |-> 0, roots |-> {}, left |-> {}, count |-> 0, err |-> FALSE]
      /\ batch = [nodes |-> {}, commits |-> <<>>, results |-> <<>>, err |-> FALSE]
      /\ carStore = {} /\ carPinned = {} /\ carLocked = FALSE /\ carFault = FALSE /\ carOpts \in BOOLEAN
      /\ DOMAIN rootMetas = {}
  BY DEF ImportInit
<1>4. ImportTypes
  BY <1>1, <1>2, <1>3 DEF ImportTypes
<1>5. ReadPlaces = {} /\ {i \in DOMAIN carFiles : i < imp.file \/ (i = imp.file /\ imp.pc = "read")} = {}
  BY <1>1, <1>3 DEF ReadPlaces, Places, WasRead
<1>6. ImportPlace
  BY <1>1, <1>3, <1>5, FS_EmptySet DEF ImportPlace
<1>7. ImportBlocks
  BY <1>3, <1>5 DEF ImportBlocks
<1>8. ImportRoots
  <2>1. UNION {carFiles[i].roots : i \in {i \in DOMAIN carFiles : i < imp.file \/ (i = imp.file /\ imp.pc = "read")}} = {}
    BY <1>5
  <2> QED BY <1>3, <2>1 DEF ImportRoots, RootsStick, PinnedWhole
<1> QED BY <1>4, <1>6, <1>7, <1>8 DEF ImportInv

\* What the names of a step that keeps the files mean after it.
LEMMA FilesKept ==
  ASSUME carFiles' = carFiles
  PROVE  Places' = Places /\ Imported' = Imported /\ Roots' = Roots
BY DEF Places, Imported, Roots

LEMMA SeenIs ==
  ASSUME ImportTypes, NEW s, s = WithResults(batch)
  PROVE  /\ s.nodes = batch.nodes /\ s.commits = batch.commits /\ s.results = <<>>
         /\ s.err = (batch.err \/ TRUE \in ToSet(batch.results))
         /\ s \in [nodes : SUBSET CarBlocks, commits : Seq(SUBSET CarBlocks), results : Seq(BOOLEAN), err : BOOLEAN]
<1>1. <<>> \in Seq(BOOLEAN)
  OBVIOUS
<1>2. PICK e \in BOOLEAN : e = (batch.err \/ TRUE \in ToSet(batch.results))
  BY Zenon
<1>3. s = [[batch EXCEPT !.results = <<>>] EXCEPT !.err = e]
  BY <1>2, Zenon DEF WithResults
<1> HIDE DEF WithResults
<1>4. batch \in [nodes : SUBSET CarBlocks, commits : Seq(SUBSET CarBlocks), results : Seq(BOOLEAN), err : BOOLEAN]
  BY DEF ImportTypes
<1> QED BY <1>1, <1>2, <1>3, <1>4

\* An import that ends with an error, before or while it pins.
LEMMA ImportFails ==
  ASSUME ImportInv, ImportEnds(TRUE), UNCHANGED <<carFiles, carOpts, carStore, rootMetas, carFault>>,
         imp.pc # "start", batch'.commits = batch.commits,
         batch' \in [nodes : SUBSET CarBlocks, commits : Seq(SUBSET CarBlocks), results : Seq(BOOLEAN), err : BOOLEAN],
         \/ carPinned' = carPinned
         \/ imp.pc = "roots" /\ \E r \in CarBlocks : Pinnable(r) /\ carPinned' = carPinned \union {r}
  PROVE  ImportInv'
<1>1. imp'.pc = "done" /\ imp'.err = TRUE /\ imp'.file = imp.file /\ imp'.count = imp.count /\ carLocked' = FALSE
  BY DEF ImportEnds, ImportInv, ImportTypes
<1>2. ImportTypes'
  BY DEF ImportEnds, ImportInv, ImportTypes
<1>3. ImportPlace'
  BY <1>1 DEF ImportInv, ImportPlace, AtWork
<1>4. ImportBlocks'
  BY <1>1 DEF ImportBlocks, AtWork
<1>5. PinnedWhole'
  BY DEF ImportInv, ImportRoots, PinnedWhole, Pinnable
<1>6. carPinned' # {} => imp.pc = "roots" \/ carPinned # {}
  OBVIOUS
<1>7. ImportRoots'
  BY <1>1, <1>5, <1>6, FilesKept DEF ImportInv, ImportRoots, AtWork, RootsStick
<1> QED BY <1>2, <1>3, <1>4, <1>7 DEF ImportInv

\* One more block read.
LEMMA ReadOneMore ==
  ASSUME ImportInv, imp.pc = "read", imp.at <= Len(carFiles[imp.file].blocks), UNCHANGED carFiles,
         imp'.pc = "read", imp'.file = imp.file, imp'.at = imp.at + 1, imp'.count = imp.count + 1
  PROVE  /\ ReadPlaces' = ReadPlaces \union {<<imp.file, imp.at>>}
         /\ IsFiniteSet(ReadPlaces') /\ imp'.count = Cardinality(ReadPlaces')
         /\ carFiles[imp.file].blocks[imp.at] \in CarBlocks
<1>1. /\ imp.file \in DOMAIN carFiles /\ imp.at >= 1 /\ imp.file \in Nat /\ imp.at \in Nat
      /\ carFiles \in Seq(CarFile) /\ IsFiniteSet(ReadPlaces) /\ imp.count = Cardinality(ReadPlaces)
  BY DEF ImportInv, ImportTypes, ImportPlace, AtWork
<1>2. carFiles[imp.file].blocks \in Seq(CarBlocks)
  <2>1. \A f \in CarFile : f.blocks \in Seq(CarBlocks)
    BY DEF CarFile
  <2> QED BY <1>1, <2>1
<1>3. imp.at \in DOMAIN carFiles[imp.file].blocks /\ carFiles[imp.file].blocks[imp.at] \in CarBlocks
  BY <1>1, <1>2
<1> DEFINE f == imp.file
           a == imp.at
<1>4. /\ \A i, j : WasRead(i, j) <=> i < f \/ (i = f /\ j < a)
      /\ \A i, j : WasRead(i, j)' <=> i < f \/ (i = f /\ j < a + 1)
  BY DEF WasRead
<1>5. /\ \A p \in Places : p[1] \in Nat /\ p[2] \in Nat /\ p = <<p[1], p[2]>>
      /\ <<f, a>> \in Places
  BY <1>1, <1>3 DEF Places
<1>6. Places' = Places
  BY FilesKept
<1> HIDE DEF f, a, WasRead, Places
<1>7. f \in Nat /\ a \in Nat
  BY <1>1 DEF f, a
<1>8. \A p \in Places : WasRead(p[1], p[2])' <=> WasRead(p[1], p[2]) \/ p = <<f, a>>
  BY <1>4, <1>5, <1>7
<1>9. <<f, a>> \notin ReadPlaces
  BY <1>4, <1>7 DEF ReadPlaces
<1>10. ReadPlaces' = ReadPlaces \union {<<f, a>>}
  BY <1>5, <1>6, <1>8 DEF ReadPlaces
<1>11. IsFiniteSet(ReadPlaces') /\ Cardinality(ReadPlaces') = Cardinality(ReadPlaces) + 1
  BY <1>1, <1>9, <1>10, FS_AddElement
<1> QED BY <1>1, <1>3, <1>10, <1>11 DEF f, a

\* All is read when the last file is.
LEMMA ReadAll ==
  ASSUME ImportInv, imp.file > Len(carFiles)
  PROVE  /\ ReadPlaces = Places /\ \A i \in DOMAIN carFiles : carFiles[i].end = "eof"
         /\ {i \in DOMAIN carFiles : i < imp.file \/ (i = imp.file /\ imp.pc = "read")} = DOMAIN carFiles
<1>1. carFiles \in Seq(CarFile) /\ imp.file \in Nat
  BY DEF ImportInv, ImportTypes
<1>2. DOMAIN carFiles = 1 .. Len(carFiles) /\ Len(carFiles) \in Nat
  BY <1>1
<1>3. \A i \in DOMAIN carFiles : i < imp.file
  BY <1>1, <1>2
<1> QED BY <1>3 DEF ReadPlaces, Places, WasRead, ImportInv, ImportPlace

\* A commit that starts takes the nodes of the batch with it.
LEMMA CommitStarts ==
  ASSUME NEW b \in [nodes : SUBSET CarBlocks, commits : Seq(SUBSET CarBlocks), results : Seq(BOOLEAN), err : BOOLEAN],
         NEW c, c = AsyncCommit(b)
  PROVE  /\ c \in [nodes : SUBSET CarBlocks, commits : Seq(SUBSET CarBlocks), results : Seq(BOOLEAN), err : BOOLEAN]
         /\ c.nodes = {} /\ c.results = b.results /\ c.err = b.err
         /\ \A x : x \in b.nodes \/ (\E k \in DOMAIN b.commits : x \in b.commits[k])
                     => \E k \in DOMAIN c.commits : x \in c.commits[k]
<1>1. CASE b.nodes = {}
  BY <1>1 DEF AsyncCommit
<1>2. CASE b.nodes # {}
  <2>1. c = [b EXCEPT !.commits = Append(b.commits, b.nodes), !.nodes = {}]
    BY <1>2 DEF AsyncCommit
  <2>2. PICK s : s = Append(b.commits, b.nodes)
    OBVIOUS
  <2>3. s \in Seq(SUBSET CarBlocks) /\ Len(b.commits) \in Nat /\ DOMAIN s = 1 .. Len(b.commits) + 1 /\ DOMAIN b.commits = 1 .. Len(b.commits)
        /\ s[Len(b.commits) + 1] = b.nodes /\ \A k \in DOMAIN b.commits : s[k] = b.commits[k]
    BY <2>2
  <2>4. c.commits = s /\ c.nodes = {} /\ c.results = b.results /\ c.err = b.err
    BY <2>1, <2>2
  <2>5. c \in [nodes : SUBSET CarBlocks, commits : Seq(SUBSET CarBlocks), results : Seq(BOOLEAN), err : BOOLEAN]
    BY <2>1, <2>2, <2>3
  <2>6. ASSUME NEW x, x \in b.nodes \/ \E k \in DOMAIN b.commits : x \in b.commits[k]
        PROVE  \E k \in DOMAIN s : x \in s[k]
    <3>1. Len(b.commits) + 1 \in DOMAIN s /\ \A k \in DOMAIN b.commits : k \in DOMAIN s
      BY <2>3
    <3> QED BY <2>3, <2>6, <3>1
  <2> QED BY <2>4, <2>5, <2>6
<1> QED BY <1>1, <1>2

LEMMA ImportBlockKeeps ==
  ASSUME ImportInv, ImportBlock
  PROVE  ImportInv'
<1> DEFINE car == carFiles[imp.file]
           BatchSet == [nodes : SUBSET CarBlocks, commits : Seq(SUBSET CarBlocks), results : Seq(BOOLEAN), err : BOOLEAN]
<1>1. PICK seen : seen = WithResults(batch)
  OBVIOUS
<1>2. PICK added : added = [seen EXCEPT !.nodes = @ \union {car.blocks[imp.at]}]
  OBVIOUS
<1>3. /\ imp.pc = "read" /\ imp.at <= Len(car.blocks)
      /\ batch' = IF seen.err THEN seen ELSE IF Cardinality(added.nodes) > BatchMaxNodes THEN AsyncCommit(added) ELSE added
      /\ IF seen.err THEN ImportEnds(TRUE)
         ELSE imp' = [imp EXCEPT !.at = @ + 1, !.count = @ + 1] /\ UNCHANGED carLocked
      /\ UNCHANGED <<carFiles, carOpts, carStore, carPinned, rootMetas, carFault>>
  BY <1>1, <1>2, Zenon DEF ImportBlock
<1>4. /\ seen.nodes = batch.nodes /\ seen.commits = batch.commits /\ seen.results = <<>>
      /\ seen.err = (batch.err \/ TRUE \in ToSet(batch.results)) /\ seen \in BatchSet
  BY <1>1, SeenIs DEF ImportInv
<1> HIDE DEF BatchSet
<1>5. CASE seen.err
  <2>1. ImportEnds(TRUE) /\ batch' = seen
    BY <1>3, <1>5
  <2> QED BY <1>3, <1>4, <2>1, ImportFails DEF BatchSet
<1>6. CASE ~seen.err
  <2>1. PICK n : n = imp.count + 1
    OBVIOUS
  <2>2. imp' = [imp EXCEPT !.at = imp.at + 1, !.count = n] /\ carLocked' = carLocked
    BY <1>3, <1>6, <2>1
  <2>3. ImportTypes /\ imp.at + 1 \in Nat /\ n \in Nat
    BY <2>1 DEF ImportInv, ImportTypes
  <2>4. /\ imp'.pc = "read" /\ imp'.file = imp.file /\ imp'.at = imp.at + 1 /\ imp'.count = n
        /\ imp'.roots = imp.roots /\ imp'.left = imp.left
        /\ imp' \in [pc : {"start", "open", "read", "commit", "roots", "done"}, file : Nat, at : Nat,
                     roots : SUBSET CarBlocks, left : SUBSET CarBlocks, count : Nat, err : BOOLEAN]
    BY <1>3, <2>2, <2>3 DEF ImportTypes
  <2>5. /\ ReadPlaces' = ReadPlaces \union {<<imp.file, imp.at>>} /\ IsFiniteSet(ReadPlaces') /\ imp'.count = Cardinality(ReadPlaces')
        /\ car.blocks[imp.at] \in CarBlocks
    BY <1>3, <2>1, <2>4, ReadOneMore
  <2>6. /\ added \in BatchSet /\ added.nodes = batch.nodes \union {car.blocks[imp.at]} /\ added.commits = batch.commits
        /\ added.results = <<>> /\ added.err = seen.err
    BY <1>2, <1>4, <2>5 DEF BatchSet
  <2>7. batch.err = FALSE /\ TRUE \notin ToSet(batch.results) /\ seen.err = FALSE /\ carFault = FALSE
    BY <1>3, <1>4, <1>6 DEF ImportInv, ImportBlocks, ImportTypes, AtWork
  <2>8. /\ batch' \in BatchSet /\ batch'.err = FALSE
        /\ \A x : \/ x \in batch.nodes \/ x = car.blocks[imp.at] \/ \E k \in DOMAIN batch.commits : x \in batch.commits[k]
                  => x \in batch'.nodes \/ \E k \in DOMAIN batch'.commits : x \in batch'.commits[k]
    <3>1. CASE batch' = added
      BY <2>6, <2>7, <3>1
    <3>2. CASE batch' = AsyncCommit(added)
      <4>1. PICK c : c = batch'
        OBVIOUS
      <4> QED BY <2>6, <2>7, <3>2, <4>1, CommitStarts DEF BatchSet
    <3> QED BY <1>3, <1>6, <3>1, <3>2
  <2> HIDE DEF car
  <2>9. ImportTypes'
    BY <1>3, <2>2, <2>3, <2>4, <2>8 DEF ImportTypes, BatchSet
  <2>10. ImportPlace'
    <3>1. imp.at \in Nat
      BY DEF ImportInv, ImportTypes
    <3> QED BY <1>3, <2>4, <2>5, <3>1 DEF ImportInv, ImportPlace
  <2>11. ASSUME NEW p \in ReadPlaces', carOpts
         PROVE  \/ carFiles[p[1]].blocks[p[2]] \in carStore \union batch'.nodes
                \/ \E k \in DOMAIN batch'.commits : carFiles[p[1]].blocks[p[2]] \in batch'.commits[k]
    <3>1. CASE p \in ReadPlaces
      <4>1. \/ carFiles[p[1]].blocks[p[2]] \in carStore \union batch.nodes
            \/ \E k \in DOMAIN batch.commits : carFiles[p[1]].blocks[p[2]] \in batch.commits[k]
        BY <1>3, <2>7, <2>11, <3>1 DEF ImportInv, ImportBlocks, AtWork
      <4> QED BY <2>8, <4>1
    <3>2. CASE p = <<imp.file, imp.at>>
      BY <2>8, <3>2 DEF car
    <3> QED BY <2>5, <3>1, <3>2
  <2>12. ImportBlocks'
    BY <1>3, <2>2, <2>4, <2>7, <2>8, <2>11 DEF ImportInv, ImportBlocks
  <2>13. ImportRoots'
    <3>1. carPinned = {} /\ DOMAIN rootMetas = {} /\ imp.left = {}
          /\ imp.roots = UNION {carFiles[i].roots : i \in {i \in DOMAIN carFiles : i < imp.file \/ (i = imp.file /\ imp.pc = "read")}}
      BY <1>3 DEF ImportInv, ImportRoots, AtWork
    <3> QED BY <1>3, <2>4, <3>1 DEF ImportRoots, RootsStick, PinnedWhole, AtWork
  <2> QED BY <2>9, <2>10, <2>12, <2>13 DEF ImportInv
<1> QED BY <1>5, <1>6

LEMMA ImportStartKeeps ==
  ASSUME ImportInv, ImportStart
  PROVE  ImportInv'
<1>1. /\ imp.pc = "start" /\ imp' = [imp EXCEPT !.pc = "open"] /\ carLocked' = carOpts /\ imp.file = 1
      /\ UNCHANGED <<carFiles, carOpts, batch, carStore, carPinned, rootMetas, carFault>>
  BY DEF ImportStart, ImportInv, ImportPlace
<1>2. ImportTypes' /\ imp' = [imp EXCEPT !.pc = "open"] /\ imp'.pc = "open" /\ imp'.file = imp.file /\ imp'.count = imp.count
      /\ imp'.roots = imp.roots /\ imp'.left = imp.left
  BY <1>1 DEF ImportInv, ImportTypes
<1>3. /\ ReadPlaces' = ReadPlaces
      /\ {i \in DOMAIN carFiles : i < imp.file \/ (i = imp.file /\ imp.pc = "read")}'
           = {i \in DOMAIN carFiles : i < imp.file \/ (i = imp.file /\ imp.pc = "read")}
  BY <1>1, <1>2 DEF ReadPlaces, Places, WasRead
<1>4. ImportPlace'
  BY <1>1, <1>2, <1>3 DEF ImportInv, ImportPlace, AtWork
<1>5. ImportBlocks'
  BY <1>1, <1>2, <1>3 DEF ImportInv, ImportBlocks, AtWork
<1>6. ImportRoots'
  BY <1>1, <1>2, <1>3 DEF ImportInv, ImportRoots, AtWork, RootsStick, PinnedWhole
<1> QED BY <1>2, <1>4, <1>5, <1>6 DEF ImportInv

LEMMA ImportOpenKeeps ==
  ASSUME ImportInv, ImportOpen
  PROVE  ImportInv'
<1> DEFINE Open == {i \in DOMAIN carFiles : i < imp.file \/ (i = imp.file /\ imp.pc = "read")}
<1>1. /\ imp.pc = "open" /\ imp.file <= Len(carFiles)
      /\ UNCHANGED <<carFiles, carOpts, batch, carStore, carPinned, carLocked, rootMetas, carFault>>
  BY DEF ImportOpen
<1>2. /\ carFiles \in Seq(CarFile) /\ imp.file \in Nat /\ imp.file >= 1 /\ imp.roots \subseteq CarBlocks
  BY DEF ImportInv, ImportTypes, ImportPlace
<1>3. imp.file \in DOMAIN carFiles /\ carFiles[imp.file] \in CarFile
  BY <1>1, <1>2
<1>4. PICK rs : rs = imp.roots \union carFiles[imp.file].roots
  OBVIOUS
<1>5. imp' = [imp EXCEPT !.pc = "read", !.at = 1, !.roots = rs] /\ rs \subseteq CarBlocks
  BY <1>2, <1>3, <1>4 DEF ImportOpen, CarFile
<1>6. ImportTypes' /\ imp'.pc = "read" /\ imp'.file = imp.file /\ imp'.at = 1 /\ imp'.count = imp.count
      /\ imp'.roots = rs /\ imp'.left = imp.left
  BY <1>1, <1>5 DEF ImportInv, ImportTypes
<1>7. ReadPlaces' = ReadPlaces
  <2>1. \A p \in Places : ~(p[2] < 1)
    BY <1>2, PlaceBounds
  <2>2. \A p \in Places : WasRead(p[1], p[2])' <=> WasRead(p[1], p[2])
    BY <1>1, <1>6, <2>1 DEF WasRead
  <2> QED BY <1>1, <2>2, FilesKept DEF ReadPlaces
<1>8. ImportPlace'
  BY <1>1, <1>3, <1>6, <1>7 DEF ImportInv, ImportPlace, AtWork
<1>9. ImportBlocks'
  BY <1>1, <1>6, <1>7 DEF ImportInv, ImportBlocks, AtWork
<1>10. rs = UNION {carFiles[i].roots : i \in Open'}
  <2>1. Open' = Open \union {imp.file}
    BY <1>1, <1>2, <1>3, <1>6
  <2>2. imp.roots = UNION {carFiles[i].roots : i \in Open}
    BY <1>1 DEF ImportInv, ImportRoots, AtWork
  <2> HIDE DEF Open
  <2> QED BY <1>4, <2>1, <2>2
<1>11. ImportRoots'
  BY <1>1, <1>6, <1>10 DEF ImportInv, ImportRoots, AtWork, RootsStick, PinnedWhole
<1> QED BY <1>6, <1>8, <1>9, <1>11 DEF ImportInv

LEMMA ImportFileEndKeeps ==
  ASSUME ImportInv, ImportFileEnd
  PROVE  ImportInv'
<1> DEFINE Open == {i \in DOMAIN carFiles : i < imp.file \/ (i = imp.file /\ imp.pc = "read")}
<1>1. /\ imp.pc = "read" /\ imp.at > Len(carFiles[imp.file].blocks)
      /\ UNCHANGED <<carFiles, carOpts, batch, carStore, carPinned, rootMetas, carFault>>
  BY DEF ImportFileEnd
<1>2. /\ carFiles \in Seq(CarFile) /\ imp.file \in Nat /\ imp.file \in DOMAIN carFiles /\ imp.at \in Nat
  BY <1>1 DEF ImportInv, ImportTypes, ImportPlace
<1>3. CASE carFiles[imp.file].end = "eof"
  <2>1. PICK n : n = imp.file + 1
    OBVIOUS
  <2>2. imp' = [imp EXCEPT !.pc = "open", !.file = n] /\ carLocked' = carLocked /\ n \in Nat
    BY <1>2, <1>3, <2>1 DEF ImportFileEnd
  <2>3. ImportTypes' /\ imp'.pc = "open" /\ imp'.file = n /\ imp'.count = imp.count /\ imp'.roots = imp.roots /\ imp'.left = imp.left
    BY <1>1, <2>2 DEF ImportInv, ImportTypes
  <2>4. ReadPlaces' = ReadPlaces
    <3>1. \A p \in Places : p[1] \in Nat /\ p[2] \in Nat /\ p[2] <= Len(carFiles[p[1]].blocks)
      BY <1>2, PlaceBounds
    <3>2. ASSUME NEW p \in Places, p[1] = imp.file
          PROVE  p[2] < imp.at
      <4>1. PICK b \in Seq(CarBlocks) : b = carFiles[imp.file].blocks
        <5>1. \A f \in CarFile : f.blocks \in Seq(CarBlocks)
          BY DEF CarFile
        <5> QED BY <1>2, <5>1
      <4> QED BY <1>1, <1>2, <3>1, <3>2, <4>1
    <3>3. \A p \in Places : WasRead(p[1], p[2])' <=> WasRead(p[1], p[2])
      <4>1. PICK f : f = imp.file
        OBVIOUS
      <4>2. \A i, j : (WasRead(i, j)' <=> i < f + 1) /\ (WasRead(i, j) <=> i < f \/ (i = f /\ j < imp.at))
        BY <1>1, <1>2, <2>1, <2>3, <4>1 DEF WasRead
      <4> HIDE DEF WasRead
      <4> QED BY <1>2, <3>1, <3>2, <4>1, <4>2
    <3> QED BY <1>1, <3>3, FilesKept DEF ReadPlaces
  <2>5. ImportPlace'
    BY <1>1, <1>2, <1>3, <2>1, <2>3, <2>4 DEF ImportInv, ImportPlace, AtWork
  <2>6. ImportBlocks'
    BY <1>1, <2>2, <2>3, <2>4 DEF ImportInv, ImportBlocks, AtWork
  <2>7. Open' = Open
    BY <1>1, <1>2, <2>1, <2>3
  <2>8. ImportRoots'
    BY <1>1, <2>3, <2>7 DEF ImportInv, ImportRoots, AtWork, RootsStick, PinnedWhole
  <2> QED BY <2>3, <2>5, <2>6, <2>8 DEF ImportInv
<1>4. CASE carFiles[imp.file].end # "eof"
  <2>1. ImportEnds(TRUE)
    BY <1>4 DEF ImportFileEnd
  <2> QED BY <1>1, <2>1, ImportFails DEF ImportInv, ImportTypes
<1> QED BY <1>3, <1>4

LEMMA ImportCommitKeeps ==
  ASSUME ImportInv, ImportCommit
  PROVE  ImportInv'
<1> DEFINE BatchSet == [nodes : SUBSET CarBlocks, commits : Seq(SUBSET CarBlocks), results : Seq(BOOLEAN), err : BOOLEAN]
           Open == {i \in DOMAIN carFiles : i < imp.file \/ (i = imp.file /\ imp.pc = "read")}
<1>1. PICK seen : seen = WithResults(batch)
  OBVIOUS
<1>2. /\ imp.pc = "open" /\ imp.file > Len(carFiles)
      /\ batch' = IF seen.err THEN seen ELSE AsyncCommit(seen)
      /\ IF seen.err THEN ImportEnds(TRUE) ELSE imp' = [imp EXCEPT !.pc = "commit"] /\ UNCHANGED carLocked
      /\ UNCHANGED <<carFiles, carOpts, carStore, carPinned, rootMetas, carFault>>
  BY <1>1, Zenon DEF ImportCommit
<1>3. /\ seen.nodes = batch.nodes /\ seen.commits = batch.commits /\ seen.results = <<>>
      /\ seen.err = (batch.err \/ TRUE \in ToSet(batch.results)) /\ seen \in BatchSet
  BY <1>1, SeenIs DEF ImportInv
<1> HIDE DEF BatchSet
<1>4. CASE seen.err
  <2>1. ImportEnds(TRUE) /\ batch' = seen
    BY <1>2, <1>4
  <2> QED BY <1>2, <1>3, <2>1, ImportFails DEF BatchSet
<1>5. CASE ~seen.err
  <2>1. imp' = [imp EXCEPT !.pc = "commit"] /\ carLocked' = carLocked /\ batch' = AsyncCommit(seen)
    BY <1>2, <1>5
  <2>2. /\ batch' \in BatchSet /\ batch'.nodes = {} /\ batch'.err = seen.err
        /\ \A x : x \in seen.nodes \/ (\E k \in DOMAIN seen.commits : x \in seen.commits[k])
                    => \E k \in DOMAIN batch'.commits : x \in batch'.commits[k]
    <3>1. PICK c : c = batch'
      OBVIOUS
    <3> QED BY <1>3, <2>1, <3>1, CommitStarts DEF BatchSet
  <2>3. batch.err = FALSE /\ TRUE \notin ToSet(batch.results) /\ seen.err = FALSE /\ carFault = FALSE
    BY <1>2, <1>3, <1>5 DEF ImportInv, ImportBlocks, ImportTypes, AtWork
  <2>4. /\ imp'.pc = "commit" /\ imp'.file = imp.file /\ imp'.count = imp.count /\ imp'.roots = imp.roots /\ imp'.left = imp.left
        /\ imp' \in [pc : {"start", "open", "read", "commit", "roots", "done"}, file : Nat, at : Nat,
                     roots : SUBSET CarBlocks, left : SUBSET CarBlocks, count : Nat, err : BOOLEAN]
    BY <2>1 DEF ImportInv, ImportTypes
  <2>5. ImportTypes'
    BY <1>2, <2>1, <2>2, <2>4 DEF ImportInv, ImportTypes, BatchSet
  <2>6. ReadPlaces' = ReadPlaces /\ Open' = Open
    BY <1>2, <2>4 DEF ReadPlaces, Places, WasRead
  <2>7. ImportPlace'
    BY <1>2, <2>4, <2>6 DEF ImportInv, ImportPlace, AtWork
  <2>8. ASSUME NEW p \in ReadPlaces, carOpts
        PROVE  \/ carFiles[p[1]].blocks[p[2]] \in carStore \union batch'.nodes
               \/ \E k \in DOMAIN batch'.commits : carFiles[p[1]].blocks[p[2]] \in batch'.commits[k]
    <3>1. \/ carFiles[p[1]].blocks[p[2]] \in carStore \union batch.nodes
          \/ \E k \in DOMAIN batch.commits : carFiles[p[1]].blocks[p[2]] \in batch.commits[k]
      BY <1>2, <2>3, <2>8 DEF ImportInv, ImportBlocks, AtWork
    <3> QED BY <1>3, <2>2, <3>1
  <2>9. ImportBlocks'
    BY <1>2, <2>1, <2>2, <2>3, <2>4, <2>6, <2>8 DEF ImportInv, ImportBlocks
  <2>10. ImportRoots'
    BY <1>2, <2>4, <2>6 DEF ImportInv, ImportRoots, AtWork, RootsStick, PinnedWhole
  <2> QED BY <2>5, <2>7, <2>9, <2>10 DEF ImportInv
<1> QED BY <1>4, <1>5

LEMMA ImportCommittedKeeps ==
  ASSUME ImportInv, ImportCommitted
  PROVE  ImportInv'
<1> DEFINE BatchSet == [nodes : SUBSET CarBlocks, commits : Seq(SUBSET CarBlocks), results : Seq(BOOLEAN), err : BOOLEAN]
           Open == {i \in DOMAIN carFiles : i < imp.file \/ (i = imp.file /\ imp.pc = "read")}
<1>1. imp.pc = "commit" /\ UNCHANGED <<carFiles, carOpts, carStore, carPinned, rootMetas, carFault>>
  BY DEF ImportCommitted
<1>2. /\ imp.file > Len(carFiles) /\ batch.nodes = {} /\ batch.err = FALSE /\ (carFault => TRUE \in ToSet(batch.results))
      /\ ImportTypes
  BY <1>1 DEF ImportInv, ImportPlace, ImportBlocks, AtWork
<1>3. CASE batch.results # <<>> /\ batch' = WithResults(batch) /\ IF batch'.err THEN ImportEnds(TRUE) ELSE UNCHANGED <<imp, carLocked>>
  <2>1. PICK seen : seen = WithResults(batch)
    OBVIOUS
  <2>2. /\ seen.nodes = batch.nodes /\ seen.commits = batch.commits /\ seen.results = <<>>
        /\ seen.err = (batch.err \/ TRUE \in ToSet(batch.results)) /\ seen \in BatchSet
    BY <1>2, <2>1, SeenIs
  <2> HIDE DEF BatchSet
  <2>3. CASE seen.err
    <3>1. ImportEnds(TRUE) /\ batch' = seen
      BY <1>3, <2>1, <2>3
    <3> QED BY <1>1, <2>2, <3>1, ImportFails DEF BatchSet
  <2>4. CASE ~seen.err
    <3>1. UNCHANGED <<imp, carLocked>> /\ batch' = seen /\ seen.err = FALSE /\ carFault = FALSE
      BY <1>2, <1>3, <2>1, <2>2, <2>4 DEF ImportTypes
    <3>2. ImportTypes'
      BY <1>1, <1>2, <2>2, <3>1 DEF ImportTypes, BatchSet
    <3>3. ReadPlaces' = ReadPlaces /\ Open' = Open /\ AtWork' = AtWork
      BY <1>1, <3>1 DEF ReadPlaces, Places, WasRead, AtWork
    <3>4. ImportPlace'
      BY <1>1, <3>1, <3>3 DEF ImportInv, ImportPlace
    <3>5. ImportBlocks'
      BY <1>1, <2>2, <3>1, <3>3 DEF ImportInv, ImportBlocks
    <3>6. ImportRoots'
      BY <1>1, <3>1, <3>3 DEF ImportInv, ImportRoots, RootsStick, PinnedWhole, AtWork
    <3> QED BY <3>2, <3>4, <3>5, <3>6 DEF ImportInv
  <2> QED BY <2>3, <2>4
<1>4. CASE /\ Running(batch) = 0 /\ UNCHANGED <<batch, carLocked>>
           /\ imp' = [imp EXCEPT !.pc = "roots", !.left = IF carOpts THEN imp.roots ELSE {}]
  <2>1. batch.commits = <<>> /\ batch.results = <<>> /\ carFault = FALSE
    <3>1. batch.commits \in Seq(SUBSET CarBlocks) /\ batch.results \in Seq(BOOLEAN) /\ carFault \in BOOLEAN
      BY <1>2 DEF ImportTypes
    <3>2. PICK a \in Seq(SUBSET CarBlocks), b \in Seq(BOOLEAN) : a = batch.commits /\ b = batch.results
      BY <3>1
    <3>3. Len(a) + Len(b) = 0 /\ Len(a) \in Nat /\ Len(b) \in Nat
      <4>1. Len(batch.commits) + Len(batch.results) = 0
        BY <1>4 DEF Running
      <4>2. Len(a) + Len(b) = 0
        BY <3>2, <4>1
      <4> QED BY <4>2
    <3>4. a = <<>> /\ b = <<>>
      BY <3>3, EmptySeq
    <3>5. ToSet(<<>>) = {}
      BY DEF ToSet
    <3> QED BY <1>2, <3>1, <3>2, <3>4, <3>5
  <2>2. PICK l : l = IF carOpts THEN imp.roots ELSE {}
    OBVIOUS
  <2>3. imp' = [imp EXCEPT !.pc = "roots", !.left = l] /\ l \subseteq CarBlocks
    BY <1>2, <1>4, <2>2 DEF ImportTypes
  <2>4. /\ imp'.pc = "roots" /\ imp'.file = imp.file /\ imp'.count = imp.count /\ imp'.roots = imp.roots /\ imp'.left = l
        /\ imp' \in [pc : {"start", "open", "read", "commit", "roots", "done"}, file : Nat, at : Nat,
                     roots : SUBSET CarBlocks, left : SUBSET CarBlocks, count : Nat, err : BOOLEAN]
    BY <1>2, <2>3 DEF ImportTypes
  <2>5. ImportTypes'
    BY <1>1, <1>2, <1>4, <2>4 DEF ImportTypes
  <2>6. ReadPlaces' = ReadPlaces /\ Open' = Open /\ AtWork /\ ~AtWork'
    BY <1>1, <2>4 DEF ReadPlaces, Places, WasRead, AtWork
  <2>7. ImportPlace'
    BY <1>1, <1>2, <2>4, <2>6 DEF ImportInv, ImportPlace
  <2>8. ImportBlocks'
    BY <1>1, <1>4, <2>1, <2>4, <2>6 DEF ImportInv, ImportBlocks
  <2>9. ReadPlaces = Places /\ Open = DOMAIN carFiles /\ \A i \in DOMAIN carFiles : carFiles[i].end = "eof"
    BY <1>2, ReadAll
  <2>10. imp.count = Cardinality(Places) /\ carPinned = {} /\ DOMAIN rootMetas = {}
    BY <2>6, <2>9 DEF ImportInv, ImportPlace, ImportRoots
  <2>11. imp.roots = Roots
    BY <2>6, <2>9 DEF ImportInv, ImportRoots, Roots
  <2>12. carOpts => Imported \subseteq carStore
    <3>1. carOpts => \A p \in Places : carFiles[p[1]].blocks[p[2]] \in carStore
      BY <1>2, <2>1, <2>6, <2>9 DEF ImportInv, ImportBlocks
    <3> HIDE DEF Imported, Places
    <3> QED BY <1>2, <3>1, PlacesAre DEF ImportTypes
  <2> HIDE DEF Open
  <2>13. ImportRoots'
    <3>1. Places' = Places /\ Imported' = Imported /\ Roots' = Roots
      BY <1>1, FilesKept
    <3>2. imp'.roots = UNION {carFiles'[i].roots : i \in Open'}
      BY <1>1, <2>4, <2>6, <2>9, <2>11 DEF Roots
    <3>3. PinnedWhole' /\ RootsStick'
      BY <1>1, <2>4, <2>10 DEF PinnedWhole, RootsStick
    <3>4. carOpts => l = Roots
      BY <2>2, <2>11
    <3>5. carOpts' => /\ Imported' \subseteq carStore' /\ imp'.left \subseteq Roots' /\ DOMAIN rootMetas' = Roots' \ imp'.left
                      /\ \A r \in Roots' \ imp'.left : Below[r] \subseteq Imported' => rootMetas'[r] = "pinned"
      BY <1>1, <2>4, <2>10, <2>12, <3>1, <3>4
    <3>6. /\ batch'.commits = <<>> /\ ~carFault' /\ imp'.count = Cardinality(Places')
          /\ \A i \in DOMAIN carFiles' : carFiles'[i].end = "eof"
      BY <1>1, <1>4, <2>1, <2>4, <2>9, <2>10, <3>1
    <3> QED BY <2>6, <3>2, <3>3, <3>5, <3>6 DEF ImportRoots, Open
  <2> QED BY <2>5, <2>7, <2>8, <2>13 DEF ImportInv
<1> QED BY <1>3, <1>4 DEF ImportCommitted

LEMMA ImportPinKeeps ==
  ASSUME ImportInv, NEW r \in CarBlocks, ImportPin(r)
  PROVE  ImportInv'
<1>1. /\ imp.pc = "roots" /\ r \in imp.left /\ imp' = [imp EXCEPT !.left = @ \ {r}]
      /\ carPinned' = IF Pinnable(r) THEN carPinned \union {r} ELSE carPinned
      /\ DOMAIN rootMetas' = DOMAIN rootMetas \union {r}
      /\ rootMetas'[r] = IF Pinnable(r) THEN "pinned" ELSE "error"
      /\ \A x \in DOMAIN rootMetas : x # r => rootMetas'[x] = rootMetas[x]
      /\ UNCHANGED <<carFiles, carOpts, batch, carStore, carLocked, carFault>>
  BY DEF ImportPin
<1>2. /\ imp'.pc = "roots" /\ imp'.file = imp.file /\ imp'.count = imp.count /\ imp'.roots = imp.roots /\ imp'.left = imp.left \ {r}
      /\ ImportTypes'
  BY <1>1 DEF ImportInv, ImportTypes
<1>3. ReadPlaces' = ReadPlaces
      /\ {i \in DOMAIN carFiles : i < imp.file \/ (i = imp.file /\ imp.pc = "read")}'
           = {i \in DOMAIN carFiles : i < imp.file \/ (i = imp.file /\ imp.pc = "read")}
  BY <1>1, <1>2 DEF ReadPlaces, Places, WasRead
<1>4. ImportPlace'
  BY <1>1, <1>2, <1>3 DEF ImportInv, ImportPlace, AtWork
<1>5. ImportBlocks'
  BY <1>1, <1>2, <1>3 DEF ImportInv, ImportBlocks, AtWork
<1>6. Places' = Places /\ Imported' = Imported /\ Roots' = Roots
  BY <1>1, FilesKept
<1>7. PinnedWhole'
  BY <1>1 DEF ImportInv, ImportRoots, PinnedWhole, Pinnable
<1>8. carOpts => /\ Imported \subseteq carStore /\ imp'.left \subseteq Roots /\ DOMAIN rootMetas' = Roots \ imp'.left
                 /\ \A x \in Roots \ imp'.left : Below[x] \subseteq Imported => rootMetas'[x] = "pinned"
  <2> SUFFICES ASSUME carOpts PROVE /\ Imported \subseteq carStore /\ imp'.left \subseteq Roots /\ DOMAIN rootMetas' = Roots \ imp'.left
                 /\ \A x \in Roots \ imp'.left : Below[x] \subseteq Imported => rootMetas'[x] = "pinned"
    OBVIOUS
  <2>1. /\ Imported \subseteq carStore /\ imp.left \subseteq Roots /\ DOMAIN rootMetas = Roots \ imp.left
        /\ \A x \in Roots \ imp.left : Below[x] \subseteq Imported => rootMetas[x] = "pinned"
    BY <1>1 DEF ImportInv, ImportRoots
  <2>2. Below[r] \subseteq Imported => Pinnable(r)
    BY <2>1 DEF Pinnable
  <2> HIDE DEF Imported, Roots, Pinnable
  <2> QED BY <1>1, <1>2, <2>1, <2>2
<1> HIDE DEF Imported, Roots, Places
<1>9. ImportRoots'
  <2>1. /\ imp.roots = UNION {carFiles[i].roots : i \in {i \in DOMAIN carFiles : i < imp.file \/ (i = imp.file /\ imp.pc = "read")}}
        /\ batch.commits = <<>> /\ ~carFault /\ imp.count = Cardinality(Places) /\ \A i \in DOMAIN carFiles : carFiles[i].end = "eof"
    BY <1>1 DEF ImportInv, ImportRoots
  <2>2. ~AtWork' /\ RootsStick'
    BY <1>2 DEF AtWork, RootsStick
  <2> QED BY <1>1, <1>2, <1>3, <1>6, <1>7, <1>8, <2>1, <2>2 DEF ImportRoots
<1> QED BY <1>2, <1>4, <1>5, <1>9 DEF ImportInv

LEMMA ImportDoneKeeps ==
  ASSUME ImportInv, ImportDone
  PROVE  ImportInv'
<1>1. /\ imp.pc = "roots" /\ imp.left = {} /\ ImportEnds(FALSE)
      /\ UNCHANGED <<carFiles, carOpts, batch, carStore, carPinned, rootMetas, carFault>>
  BY DEF ImportDone
<1>2. imp'.pc = "done" /\ imp'.file = imp.file /\ imp'.count = imp.count /\ ImportTypes'
  BY <1>1 DEF ImportEnds, ImportInv, ImportTypes
<1>3. ImportPlace' /\ ImportBlocks'
  BY <1>1, <1>2 DEF ImportInv, ImportPlace, ImportBlocks, AtWork
<1>4. Places' = Places /\ Imported' = Imported /\ Roots' = Roots
  BY <1>1, FilesKept
<1>5. RootsStick'
  <2>1. carOpts => /\ DOMAIN rootMetas = Roots
                   /\ \A r \in Roots : Below[r] \subseteq Imported => rootMetas[r] = "pinned"
    BY <1>1 DEF ImportInv, ImportRoots
  <2> HIDE DEF Roots, Imported
  <2> QED BY <1>1, <1>4, <2>1 DEF RootsStick
<1>6. PinnedWhole'
  BY <1>1 DEF ImportInv, ImportRoots, PinnedWhole
<1>7. ImportRoots'
  BY <1>1, <1>2, <1>4, <1>5, <1>6 DEF ImportInv, ImportRoots, AtWork
<1> QED BY <1>2, <1>3, <1>7 DEF ImportInv

\* What is left when one element is taken out of a sequence.
Removed(S, c, i, d) ==
  /\ d \in Seq(S) /\ Len(d) = Len(c) - 1 /\ DOMAIN d = 1 .. (Len(c) - 1)
  /\ \A k \in 1 .. (i - 1) : d[k] = c[k]
  /\ \A k \in (i + 1) .. Len(c) : d[k - 1] = c[k]

LEMMA RemovedAt ==
  ASSUME NEW S, NEW c \in Seq(S), NEW i \in 1 .. Len(c), NEW d, d = RemoveAt(c, i)
  PROVE  Removed(S, c, i, d)
<1>1. Len(c) \in Nat /\ \A k \in 1 .. Len(c) : c[k] \in S
  OBVIOUS
<1>2. PICK x : x = SubSeq(c, 1, i - 1)
  OBVIOUS
<1>3. PICK y : y = SubSeq(c, i + 1, Len(c))
  OBVIOUS
<1>4. x \in Seq(S) /\ Len(x) = i - 1 /\ \A k \in 1 .. (i - 1) : x[k] = c[k]
  <2>1. \A k \in 1 .. (i - 1) : c[k] \in S
    BY <1>1
  <2>2. /\ SubSeq(c, 1, i - 1) \in Seq(S) /\ Len(SubSeq(c, 1, i - 1)) = IF 1 <= i - 1 THEN i - 1 - 1 + 1 ELSE 0
        /\ \A k \in 1 .. i - 1 - 1 + 1 : SubSeq(c, 1, i - 1)[k] = c[1 + k - 1]
    BY <1>1, <2>1, SubSeqProperties
  <2>3. \A k \in 1 .. (i - 1) : k \in 1 .. i - 1 - 1 + 1 /\ 1 + k - 1 = k
    BY <1>1
  <2> QED BY <1>1, <1>2, <2>2, <2>3
<1>5. y \in Seq(S) /\ Len(y) = Len(c) - i /\ \A k \in 1 .. (Len(c) - i) : y[k] = c[i + k]
  <2>1. \A k \in (i + 1) .. Len(c) : c[k] \in S
    BY <1>1
  <2>2. /\ SubSeq(c, i + 1, Len(c)) \in Seq(S)
        /\ Len(SubSeq(c, i + 1, Len(c))) = IF i + 1 <= Len(c) THEN Len(c) - (i + 1) + 1 ELSE 0
        /\ \A k \in 1 .. Len(c) - (i + 1) + 1 : SubSeq(c, i + 1, Len(c))[k] = c[i + 1 + k - 1]
    BY <1>1, <2>1, SubSeqProperties
  <2>3. \A k \in 1 .. (Len(c) - i) : k \in 1 .. Len(c) - (i + 1) + 1 /\ i + 1 + k - 1 = i + k
    BY <1>1
  <2> QED BY <1>1, <1>3, <2>2, <2>3
<1>6. d = x \o y
  BY <1>2, <1>3, Zenon DEF RemoveAt
<1>7. /\ d \in Seq(S) /\ Len(d) = Len(x) + Len(y)
      /\ \A k \in 1 .. Len(x) + Len(y) : d[k] = IF k <= Len(x) THEN x[k] ELSE y[k - Len(x)]
  <2>1. /\ x \o y \in Seq(S) /\ Len(x \o y) = Len(x) + Len(y)
        /\ \A k \in 1 .. Len(x) + Len(y) : (x \o y)[k] = IF k <= Len(x) THEN x[k] ELSE y[k - Len(x)]
    BY <1>4, <1>5, ConcatProperties, Zenon
  <2> QED BY <1>6, <2>1, Zenon
<1>8. Len(d) = Len(c) - 1 /\ DOMAIN d = 1 .. (Len(c) - 1)
  BY <1>1, <1>4, <1>5, <1>7
<1>9. \A k \in 1 .. (i - 1) : d[k] = c[k]
  <2>1. \A k \in 1 .. (i - 1) : k \in 1 .. Len(x) + Len(y) /\ k <= Len(x)
    BY <1>1, <1>4, <1>5
  <2> QED BY <1>4, <1>7, <2>1
<1>10. ASSUME NEW k \in (i + 1) .. Len(c)
       PROVE  d[k - 1] = c[k]
  <2>1. PICK l : l = k - i
    OBVIOUS
  <2>2. /\ k - 1 \in 1 .. Len(x) + Len(y) /\ ~(k - 1 <= Len(x)) /\ k - 1 - Len(x) = l
        /\ l \in 1 .. (Len(c) - i) /\ i + l = k
    BY <1>1, <1>4, <1>5, <2>1
  <2>3. d[k - 1] = y[l]
    BY <1>7, <2>2
  <2> QED BY <1>5, <2>2, <2>3
<1> QED BY <1>7, <1>8, <1>9, <1>10 DEF Removed

LEMMA ResultAdded ==
  ASSUME ImportTypes
  PROVE  /\ \A e \in BOOLEAN : Append(batch.results, e) \in Seq(BOOLEAN) /\ e \in ToSet(Append(batch.results, e))
         /\ \A e \in BOOLEAN : TRUE \in ToSet(batch.results) => TRUE \in ToSet(Append(batch.results, e))
<1>1. PICK b \in Seq(BOOLEAN) : b = batch.results
  BY DEF ImportTypes
<1>2. ASSUME NEW S, NEW s \in Seq(S), NEW e \in S
      PROVE  /\ Append(s, e) \in Seq(S) /\ e \in ToSet(Append(s, e))
             /\ \A x \in ToSet(s) : x \in ToSet(Append(s, e))
  <2>1. PICK q : q = Append(s, e)
    OBVIOUS
  <2>2. Len(s) \in Nat /\ q \in Seq(S) /\ DOMAIN q = 1 .. Len(s) + 1 /\ DOMAIN s = 1 .. Len(s) /\ q[Len(s) + 1] = e
        /\ \A k \in DOMAIN s : q[k] = s[k]
    BY <2>1
  <2>3. Len(s) + 1 \in DOMAIN q /\ \A k \in DOMAIN s : k \in DOMAIN q
    BY <2>2
  <2> QED BY <2>1, <2>2, <2>3 DEF ToSet
<1> QED BY <1>1, <1>2, Zenon

\* A commit that ends, well or not, among others.
CommitEnd(i, wrote, q) ==
  /\ carStore' = carStore \union wrote
  /\ batch' = [batch EXCEPT !.commits = RemoveAt(batch.commits, i), !.results = q]
  /\ TRUE \in ToSet(batch.results) => TRUE \in ToSet(q)
  /\ carFault' \in BOOLEAN
  /\ carFault' => carFault \/ TRUE \in ToSet(q)
  /\ ~carFault' => ~carFault /\ wrote = batch.commits[i]
  /\ UNCHANGED <<carFiles, carOpts, imp, carPinned, carLocked, rootMetas>>

LEMMA CommitEnds ==
  ASSUME ImportInv, NEW i \in DOMAIN batch.commits, NEW wrote \in SUBSET batch.commits[i], NEW q \in Seq(BOOLEAN),
         CommitEnd(i, wrote, q)
  PROVE  ImportInv'
<1>0. ImportTypes
  BY DEF ImportInv
<1>1. PICK c \in Seq(SUBSET CarBlocks) : c = batch.commits
  BY <1>0 DEF ImportTypes
<1>2. PICK d : d = RemoveAt(c, i)
  OBVIOUS
<1>3. i \in 1 .. Len(c) /\ Len(c) \in Nat /\ DOMAIN c = 1 .. Len(c)
  BY <1>1
<1>5. /\ d \in Seq(SUBSET CarBlocks) /\ Len(d) = Len(c) - 1 /\ DOMAIN d = 1 .. (Len(c) - 1)
      /\ \A k \in 1 .. (i - 1) : d[k] = c[k]
      /\ \A k \in (i + 1) .. Len(c) : d[k - 1] = c[k]
  <2>1. Removed(SUBSET CarBlocks, c, i, d)
    BY <1>2, <1>3, RemovedAt
  <2> QED BY <2>1 DEF Removed
<1>6. \A x : (\E k \in DOMAIN c : x \in c[k]) => x \in c[i] \/ \E k \in DOMAIN d : x \in d[k]
  <2> SUFFICES ASSUME NEW x, NEW k \in DOMAIN c, x \in c[k], k # i
               PROVE  \E l \in DOMAIN d : x \in d[l]
    OBVIOUS
  <2>1. CASE k < i
    <3>1. k \in 1 .. (i - 1) /\ k \in 1 .. (Len(c) - 1)
      BY <1>3, <2>1
    <3>2. k \in DOMAIN d /\ d[k] = c[k]
      BY <1>5, <3>1, Zenon
    <3> QED BY <3>2
  <2>2. CASE k > i
    <3>1. k \in (i + 1) .. Len(c) /\ k - 1 \in 1 .. (Len(c) - 1)
      BY <1>3, <2>2
    <3>2. k - 1 \in DOMAIN d /\ d[k - 1] = c[k]
      BY <1>5, <3>1, Zenon
    <3> QED BY <3>2
  <2> QED BY <1>3, <2>1, <2>2
<1>9. batch' = [batch EXCEPT !.commits = d, !.results = q]
  BY <1>1, <1>2 DEF CommitEnd
<1>10. batch'.commits = d /\ batch'.results = q /\ batch'.nodes = batch.nodes /\ batch'.err = batch.err
       /\ batch' \in [nodes : SUBSET CarBlocks, commits : Seq(SUBSET CarBlocks), results : Seq(BOOLEAN), err : BOOLEAN]
  BY <1>0, <1>5, <1>9 DEF ImportTypes
<1>11. wrote \subseteq CarBlocks
  <2>1. c[i] \subseteq CarBlocks
    BY <1>3
  <2> QED BY <1>1, <2>1
<1>12. ImportTypes'
  BY <1>0, <1>10, <1>11 DEF ImportTypes, CommitEnd
<1>13. ReadPlaces' = ReadPlaces /\ Places' = Places /\ Imported' = Imported /\ Roots' = Roots /\ AtWork' = AtWork
       /\ {i_1 \in DOMAIN carFiles : i_1 < imp.file \/ (i_1 = imp.file /\ imp.pc = "read")}'
            = {i_1 \in DOMAIN carFiles : i_1 < imp.file \/ (i_1 = imp.file /\ imp.pc = "read")}
  BY FilesKept DEF ReadPlaces, WasRead, AtWork, CommitEnd
<1>14. ImportPlace'
  BY <1>13 DEF ImportInv, ImportPlace, CommitEnd
<1>15. ASSUME carOpts, ~carFault', AtWork \/ imp.pc = "roots", NEW p \in ReadPlaces
       PROVE  \/ carFiles[p[1]].blocks[p[2]] \in carStore' \union batch'.nodes
              \/ \E k \in DOMAIN batch'.commits : carFiles[p[1]].blocks[p[2]] \in batch'.commits[k]
  <2>1. ~carFault /\ wrote = batch.commits[i]
    BY <1>15 DEF CommitEnd
  <2>2. \/ carFiles[p[1]].blocks[p[2]] \in carStore \union batch.nodes
        \/ \E k \in DOMAIN batch.commits : carFiles[p[1]].blocks[p[2]] \in batch.commits[k]
    BY <1>15, <2>1 DEF ImportInv, ImportBlocks
  <2> QED BY <1>1, <1>6, <1>10, <2>1, <2>2 DEF CommitEnd
<1>16. ImportBlocks'
  BY <1>10, <1>13, <1>15 DEF ImportInv, ImportBlocks, CommitEnd
<1>17. imp.pc # "roots" /\ carPinned = {}
  <2>1. c # <<>>
    BY <1>3
  <2> QED BY <1>1, <2>1 DEF ImportInv, ImportRoots
<1>18. ImportRoots'
  BY <1>13, <1>17 DEF ImportInv, ImportRoots, RootsStick, PinnedWhole, CommitEnd
<1> QED BY <1>12, <1>14, <1>16, <1>18 DEF ImportInv

\* The collector takes nothing below a pin, and waits while an import holds the lock.
LEMMA CarGCKeeps ==
  ASSUME ImportInv, CarGC
  PROVE  ImportInv'
<1>1. /\ carLocked = FALSE /\ carStore' = carStore \intersect UNION {Below[r] : r \in carPinned}
      /\ UNCHANGED <<carFiles, carOpts, imp, batch, carPinned, carLocked, rootMetas, carFault>>
  BY DEF CarGC, ImportInv, ImportTypes
<1>2. carOpts => imp.pc \in {"start", "done"}
  BY <1>1 DEF ImportInv, ImportBlocks
<1>3. ImportTypes'
  BY <1>1 DEF ImportInv, ImportTypes
<1>4. ReadPlaces' = ReadPlaces /\ Places' = Places /\ Imported' = Imported /\ Roots' = Roots /\ AtWork' = AtWork
      /\ {i \in DOMAIN carFiles : i < imp.file \/ (i = imp.file /\ imp.pc = "read")}'
           = {i \in DOMAIN carFiles : i < imp.file \/ (i = imp.file /\ imp.pc = "read")}
  BY <1>1, FilesKept DEF ReadPlaces, WasRead, AtWork
<1>5. ImportPlace'
  BY <1>1, <1>4 DEF ImportInv, ImportPlace
<1>6. carOpts /\ (AtWork \/ imp.pc = "roots") => ReadPlaces = {}
  <2>1. carOpts /\ (AtWork \/ imp.pc = "roots") => imp.pc = "start" /\ imp.file = 1
    BY <1>2 DEF AtWork, ImportInv, ImportPlace
  <2>2. imp.pc = "start" /\ imp.file = 1 => ReadPlaces = {}
    <3>1. carFiles \in Seq(CarFile)
      BY DEF ImportInv, ImportTypes
    <3> QED BY <3>1 DEF ReadPlaces, Places, WasRead
  <2> QED BY <2>1, <2>2
<1>7. ImportBlocks'
  BY <1>1, <1>4, <1>6 DEF ImportInv, ImportBlocks
<1>8. PinnedWhole'
  BY <1>1 DEF ImportInv, ImportRoots, PinnedWhole
<1> HIDE DEF Imported, Roots, Places
<1>9. RootsStick'
  BY <1>1, <1>4 DEF ImportInv, ImportRoots, RootsStick
<1>10. ImportRoots'
  BY <1>1, <1>2, <1>4, <1>8, <1>9 DEF ImportInv, ImportRoots
<1> QED BY <1>3, <1>5, <1>7, <1>10 DEF ImportInv

LEMMA ImportSteps ==
  ASSUME ImportInv, [ImportNext]_imVars
  PROVE  ImportInv'
<1>1. CASE UNCHANGED imVars
  <2>1. UNCHANGED <<carFiles, carOpts, imp, batch, carStore, carPinned, carLocked, rootMetas, carFault>>
    BY <1>1 DEF imVars
  <2>2. ReadPlaces' = ReadPlaces /\ Places' = Places /\ Imported' = Imported /\ Roots' = Roots /\ AtWork' = AtWork
    BY <2>1, FilesKept DEF ReadPlaces, WasRead, AtWork
  <2>3. ImportTypes' /\ ImportPlace' /\ ImportBlocks'
    BY <2>1, <2>2 DEF ImportInv, ImportTypes, ImportPlace, ImportBlocks
  <2> HIDE DEF Imported, Roots, Places
  <2>4. ImportRoots'
    BY <2>1, <2>2 DEF ImportInv, ImportRoots, RootsStick, PinnedWhole
  <2> QED BY <2>3, <2>4 DEF ImportInv
<1>2. ASSUME NEW r \in CarBlocks, ImportEmitFails(r)
      PROVE  ImportInv'
  BY <1>2, ImportFails DEF ImportEmitFails, ImportInv, ImportTypes
<1>3. ASSUME NEW i \in DOMAIN batch.commits, CommitWrites(i)
      PROVE  ImportInv'
  <2>1. /\ carStore' = carStore \union batch.commits[i] /\ carFault' = carFault
        /\ batch' = [batch EXCEPT !.commits = RemoveAt(batch.commits, i), !.results = Append(batch.results, FALSE)]
        /\ UNCHANGED <<carFiles, carOpts, imp, carPinned, carLocked, rootMetas>>
    BY <1>3, Zenon DEF CommitWrites
  <2>2. PICK q : q = Append(batch.results, FALSE)
    OBVIOUS
  <2>3. q \in Seq(BOOLEAN) /\ (TRUE \in ToSet(batch.results) => TRUE \in ToSet(q))
    BY <2>2, ResultAdded DEF ImportInv
  <2>4. carFault \in BOOLEAN
    BY DEF ImportInv, ImportTypes
  <2>5. CommitEnd(i, batch.commits[i], q)
    BY <2>1, <2>2, <2>3, <2>4 DEF CommitEnd
  <2> QED BY <2>3, <2>5, CommitEnds
<1>4. ASSUME NEW i \in DOMAIN batch.commits, CommitFails(i)
      PROVE  ImportInv'
  <2>1. PICK wrote \in SUBSET batch.commits[i] : carStore' = carStore \union wrote
    BY <1>4, Zenon DEF CommitFails
  <2>2. /\ batch' = [batch EXCEPT !.commits = RemoveAt(batch.commits, i), !.results = Append(batch.results, TRUE)]
        /\ carFault' = TRUE /\ UNCHANGED <<carFiles, carOpts, imp, carPinned, carLocked, rootMetas>>
    BY <1>4, Zenon DEF CommitFails
  <2>3. PICK q : q = Append(batch.results, TRUE)
    OBVIOUS
  <2>4. q \in Seq(BOOLEAN) /\ TRUE \in ToSet(q)
    BY <2>3, ResultAdded DEF ImportInv
  <2>5. CommitEnd(i, wrote, q)
    BY <2>1, <2>2, <2>3, <2>4 DEF CommitEnd
  <2> QED BY <2>4, <2>5, CommitEnds
<1> QED BY <1>1, <1>2, <1>3, <1>4, ImportStartKeeps, ImportOpenKeeps, ImportBlockKeeps, ImportFileEndKeeps, ImportCommitKeeps,
           ImportCommittedKeeps, ImportPinKeeps, ImportDoneKeeps, CarGCKeeps DEF ImportNext, ImportStep, CommitStep

LEMMA ImportInvImplies == ImportInv => ImportKeepsRoots
<1> SUFFICES ASSUME ImportInv PROVE ImportKeepsRoots
  OBVIOUS
<1>1. UNION {{<<i, j>> : j \in DOMAIN carFiles[i].blocks} : i \in DOMAIN carFiles} = Places
  BY PlacesAre DEF ImportInv, ImportTypes
<1> HIDE DEF Places
<1> QED BY <1>1 DEF ImportInv, ImportRoots, ImportKeepsRoots, PinsOnlyWellFormed

-----------------------------------------------------------------------------
(***************************************************************************)
(* The peer log.                                                           *)
(***************************************************************************)
\* The events of the queue q and of the log ev, of n emitted: in order, the logged ones first.
InOrder(q, ev, n) ==
  /\ q \in Seq(Nat) /\ ev \in Seq(Nat)
  /\ \A i \in DOMAIN q : q[i] <= n
  /\ \A i \in DOMAIN ev : ev[i] <= n
  /\ \A i, j \in DOMAIN q : i < j => q[i] < q[j]
  /\ \A i, j \in DOMAIN ev : i < j => ev[i] < ev[j]
  /\ \A i \in DOMAIN ev, j \in DOMAIN q : ev[i] < q[j]

CollectorSet == [pc : {"check", "sleep", "drain", "report", "recv", "stopped"}, dropped : Nat, drained : Nat]
PeerLogSet == [events : Seq(Nat), skipped : Nat, reported : Nat]

\* Every event is in one place, and the places are in order.
PeerLogInv ==
  /\ evEmitted \in Nat /\ droppedCount \in Nat /\ collector \in CollectorSet /\ peerLog \in PeerLogSet
  /\ evEmitted = Len(evQueue) + droppedCount + collector.dropped
               + Len(peerLog.events) + peerLog.skipped + peerLog.reported
  /\ collector.pc \in {"check", "recv"} => collector.dropped = 0
  /\ InOrder(evQueue, peerLog.events, evEmitted)

LEMMA PeerLogInits == PeerLogInit => PeerLogInv
<1>1. <<>> \in Seq(Nat) /\ Len(<<>>) = 0 /\ DOMAIN <<>> = {}
  OBVIOUS
<1> QED BY <1>1 DEF PeerLogInit, PeerLogInv, InOrder, CollectorSet, PeerLogSet

LEMMA NatAppend ==
  ASSUME NEW s \in Seq(Nat), NEW e \in Nat, NEW t, t = Append(s, e)
  PROVE  /\ t \in Seq(Nat) /\ Len(t) = Len(s) + 1 /\ Len(s) \in Nat /\ DOMAIN s = 1 .. Len(s) /\ DOMAIN t = 1 .. Len(s) + 1
         /\ t[Len(s) + 1] = e /\ \A k \in DOMAIN s : t[k] = s[k] /\ s[k] \in Nat
OBVIOUS

LEMMA NatTail ==
  ASSUME NEW s \in Seq(Nat), s # <<>>, NEW t, t = Tail(s)
  PROVE  /\ t \in Seq(Nat) /\ Len(t) = Len(s) - 1 /\ Len(s) \in Nat /\ Len(s) >= 1 /\ DOMAIN s = 1 .. Len(s)
         /\ DOMAIN t = 1 .. (Len(s) - 1) /\ Head(s) = s[1] /\ Head(s) \in Nat /\ \A k \in DOMAIN t : t[k] = s[k + 1]
<1>1. Len(s) \in Nat /\ Len(s) >= 1
  BY EmptySeq
<1> QED BY <1>1, HeadTailProperties

\* An event that is emitted is the last, in the queue or not.
LEMMA OrderEmit ==
  ASSUME NEW q, NEW ev, NEW n \in Nat, InOrder(q, ev, n)
  PROVE  InOrder(Append(q, n + 1), ev, n + 1) /\ InOrder(q, ev, n + 1) /\ Len(Append(q, n + 1)) = Len(q) + 1 /\ Len(q) \in Nat
<1>1. PICK t : t = Append(q, n + 1)
  OBVIOUS
<1>2. /\ t \in Seq(Nat) /\ Len(t) = Len(q) + 1 /\ Len(q) \in Nat /\ DOMAIN q = 1 .. Len(q) /\ DOMAIN t = 1 .. Len(q) + 1
      /\ t[Len(q) + 1] = n + 1 /\ \A k \in DOMAIN q : t[k] = q[k] /\ q[k] \in Nat /\ q[k] <= n
  BY <1>1, NatAppend DEF InOrder
<1>3. \A k \in DOMAIN t : k = Len(q) + 1 \/ k \in DOMAIN q
  BY <1>2
<1>4. \A k \in DOMAIN ev : ev[k] \in Nat /\ ev[k] <= n
  BY DEF InOrder
<1>5. InOrder(q, ev, n + 1)
  <2>1. (\A k \in DOMAIN q : q[k] <= n + 1) /\ \A k \in DOMAIN ev : ev[k] <= n + 1
    BY <1>2, <1>4
  <2> QED BY <2>1 DEF InOrder
<1>6. \A k \in DOMAIN t : t[k] <= n + 1
  BY <1>2, <1>3
<1>7. \A i, j \in DOMAIN t : i < j => t[i] < t[j]
  <2> SUFFICES ASSUME NEW i \in DOMAIN t, NEW j \in DOMAIN t, i < j PROVE t[i] < t[j]
    OBVIOUS
  <2>1. i \in DOMAIN q
    BY <1>2
  <2>2. CASE j = Len(q) + 1
    BY <1>2, <2>1, <2>2
  <2>3. CASE j \in DOMAIN q
    BY <1>2, <2>1, <2>3 DEF InOrder
  <2> QED BY <1>3, <2>2, <2>3
<1>8. ASSUME NEW i \in DOMAIN ev, NEW j \in DOMAIN t
      PROVE  ev[i] < t[j]
  <2>1. CASE j = Len(q) + 1
    BY <1>2, <1>4, <2>1
  <2>2. CASE j \in DOMAIN q
    BY <1>2, <2>2 DEF InOrder
  <2> QED BY <1>3, <2>1, <2>2
<1>9. InOrder(t, ev, n + 1)
  <2>1. ev \in Seq(Nat) /\ (\A k \in DOMAIN ev : ev[k] <= n + 1) /\ \A i, j \in DOMAIN ev : i < j => ev[i] < ev[j]
    BY <1>5 DEF InOrder
  <2> QED BY <1>2, <1>6, <1>7, <1>8, <2>1 DEF InOrder
<1> QED BY <1>1, <1>2, <1>5, <1>9

\* The first event of the queue is taken, and logged or not.
LEMMA OrderTake ==
  ASSUME NEW q, NEW ev, NEW n \in Nat, InOrder(q, ev, n), q # <<>>
  PROVE  /\ InOrder(Tail(q), ev, n) /\ InOrder(Tail(q), Append(ev, Head(q)), n)
         /\ Len(Tail(q)) = Len(q) - 1 /\ Len(Append(ev, Head(q))) = Len(ev) + 1 /\ Len(q) \in Nat /\ Len(ev) \in Nat
<1>1. PICK t : t = Tail(q)
  OBVIOUS
<1>2. PICK u : u = Append(ev, Head(q))
  OBVIOUS
<1>3. /\ t \in Seq(Nat) /\ Len(t) = Len(q) - 1 /\ Len(q) \in Nat /\ Len(q) >= 1 /\ DOMAIN q = 1 .. Len(q)
      /\ DOMAIN t = 1 .. (Len(q) - 1) /\ Head(q) = q[1] /\ Head(q) \in Nat /\ \A k \in DOMAIN t : t[k] = q[k + 1]
  BY <1>1, NatTail DEF InOrder
<1>4. /\ u \in Seq(Nat) /\ Len(u) = Len(ev) + 1 /\ Len(ev) \in Nat /\ DOMAIN ev = 1 .. Len(ev) /\ DOMAIN u = 1 .. Len(ev) + 1
      /\ u[Len(ev) + 1] = q[1] /\ \A k \in DOMAIN ev : u[k] = ev[k] /\ ev[k] \in Nat
  BY <1>2, <1>3, NatAppend DEF InOrder
<1>5. 1 \in DOMAIN q /\ \A k \in DOMAIN t : k \in Nat /\ k + 1 \in DOMAIN q /\ 1 < k + 1
  <2>1. PICK m \in Nat : m = Len(q)
    BY <1>3
  <2>2. DOMAIN q = 1 .. m /\ DOMAIN t = 1 .. (m - 1) /\ m >= 1
    BY <1>3, <2>1
  <2> QED BY <2>2
<1>6. \A k \in DOMAIN u : k = Len(ev) + 1 \/ k \in DOMAIN ev
  BY <1>4
<1>7. \A i \in DOMAIN t : t[i] <= n /\ q[1] < t[i]
  BY <1>3, <1>5 DEF InOrder
<1>8. \A i, j \in DOMAIN t : i < j => t[i] < t[j]
  <2> SUFFICES ASSUME NEW i \in DOMAIN t, NEW j \in DOMAIN t, i < j PROVE t[i] < t[j]
    OBVIOUS
  <2>1. i + 1 < j + 1
    BY <1>5
  <2> QED BY <1>3, <1>5, <2>1 DEF InOrder
<1>9. \A i \in DOMAIN ev : \A j \in DOMAIN t : ev[i] < t[j]
  BY <1>3, <1>5 DEF InOrder
<1>10. InOrder(t, ev, n)
  BY <1>3, <1>7, <1>8, <1>9 DEF InOrder
<1>11. \A k \in DOMAIN u : u[k] <= n
  BY <1>4, <1>5, <1>6 DEF InOrder
<1>12. \A i, j \in DOMAIN u : i < j => u[i] < u[j]
  <2> SUFFICES ASSUME NEW i \in DOMAIN u, NEW j \in DOMAIN u, i < j PROVE u[i] < u[j]
    OBVIOUS
  <2>1. i \in DOMAIN ev
    BY <1>4
  <2>2. ev[i] < q[1] /\ (j \in DOMAIN ev => ev[i] < ev[j])
    BY <1>5, <2>1 DEF InOrder
  <2> QED BY <1>4, <1>6, <2>1, <2>2
<1>13. \A i \in DOMAIN u : \A j \in DOMAIN t : u[i] < t[j]
  BY <1>4, <1>6, <1>7, <1>9
<1>14. InOrder(t, u, n)
  BY <1>3, <1>4, <1>7, <1>8, <1>11, <1>12, <1>13 DEF InOrder
<1> QED BY <1>1, <1>2, <1>3, <1>4, <1>10, <1>14

LEMMA PeerLogSteps ==
  ASSUME PeerLogInv, [PeerLogNext]_plVars
  PROVE  PeerLogInv'
<1>0. /\ evEmitted \in Nat /\ droppedCount \in Nat /\ collector \in CollectorSet /\ peerLog \in PeerLogSet
      /\ InOrder(evQueue, peerLog.events, evEmitted)
      /\ collector.pc \in {"check", "sleep", "drain", "report", "recv", "stopped"} /\ collector.dropped \in Nat /\ collector.drained \in Nat
      /\ peerLog.events \in Seq(Nat) /\ peerLog.skipped \in Nat /\ peerLog.reported \in Nat
      /\ Len(evQueue) \in Nat /\ Len(peerLog.events) \in Nat
      /\ evEmitted = Len(evQueue) + droppedCount + collector.dropped
                   + Len(peerLog.events) + peerLog.skipped + peerLog.reported
  BY DEF PeerLogInv, CollectorSet, PeerLogSet, InOrder
<1>1. CASE UNCHANGED plVars
  BY <1>1 DEF plVars, PeerLogInv
<1>a. PICK n \in Nat, q \in Nat, d \in Nat, k \in Nat, e \in Nat, s \in Nat, r \in Nat :
        /\ n = evEmitted /\ q = Len(evQueue) /\ d = droppedCount /\ k = collector.dropped
        /\ e = Len(peerLog.events) /\ s = peerLog.skipped /\ r = peerLog.reported
  BY <1>0
<1>b. n = q + d + k + e + s + r
  BY <1>0, <1>a
<1>2. CASE Emit
  <2>1. evEmitted' = n + 1 /\ UNCHANGED <<collector, peerLog>>
    BY <1>2, <1>a DEF Emit
  <2>2. CASE evQueue' = Append(evQueue, evEmitted') /\ UNCHANGED droppedCount
    <3>1. evQueue' = Append(evQueue, n + 1)
      BY <2>1, <2>2
    <3>2. InOrder(evQueue', peerLog.events, n + 1) /\ Len(evQueue') = q + 1
      BY <1>0, <1>a, <3>1, OrderEmit
    <3>3. n + 1 = (q + 1) + d + k + e + s + r
      BY <1>b
    <3>4. evEmitted' = Len(evQueue') + droppedCount' + collector'.dropped
                     + Len(peerLog'.events) + peerLog'.skipped + peerLog'.reported
      BY <1>a, <2>1, <2>2, <3>2, <3>3
    <3>5. evEmitted' \in Nat /\ droppedCount' \in Nat /\ InOrder(evQueue', peerLog'.events, evEmitted')
      <4>1. n + 1 \in Nat /\ d \in Nat
        OBVIOUS
      <4>2. evEmitted' \in Nat /\ droppedCount' \in Nat
        BY <1>0, <2>1, <2>2, <4>1
      <4> QED BY <2>1, <3>2, <4>2
    <3>6. collector' \in CollectorSet /\ peerLog' \in PeerLogSet /\ (collector'.pc \in {"check", "recv"} => collector'.dropped = 0)
      BY <2>1 DEF PeerLogInv
    <3> QED BY <3>4, <3>5, <3>6 DEF PeerLogInv
  <2>3. CASE droppedCount' = droppedCount + 1 /\ UNCHANGED evQueue
    <3>1. InOrder(evQueue, peerLog.events, n + 1)
      BY <1>0, <1>a, OrderEmit
    <3>2. n + 1 = q + (d + 1) + k + e + s + r
      BY <1>b
    <3>3. evEmitted' = Len(evQueue') + droppedCount' + collector'.dropped
                     + Len(peerLog'.events) + peerLog'.skipped + peerLog'.reported
      BY <1>a, <2>1, <2>3, <3>2
    <3>4. evEmitted' \in Nat /\ droppedCount' \in Nat /\ InOrder(evQueue', peerLog'.events, evEmitted')
      <4>1. n + 1 \in Nat /\ d + 1 \in Nat
        OBVIOUS
      <4>2. evEmitted' \in Nat /\ droppedCount' \in Nat
        BY <1>a, <2>1, <2>3, <4>1
      <4>3. evQueue' = evQueue /\ peerLog' = peerLog
        BY <2>1, <2>3
      <4> QED BY <2>1, <3>1, <4>2, <4>3
    <3>5. collector' \in CollectorSet /\ peerLog' \in PeerLogSet /\ (collector'.pc \in {"check", "recv"} => collector'.dropped = 0)
      BY <2>1 DEF PeerLogInv
    <3> QED BY <3>3, <3>4, <3>5 DEF PeerLogInv
  <2> QED BY <1>2, <2>2, <2>3 DEF Emit
\* The steps that touch no event.
<1>3. ASSUME NEW c \in CollectorSet, NEW p \in PeerLogSet, collector' = c, peerLog' = p,
             UNCHANGED <<evEmitted, evQueue>>, p.events = peerLog.events, NEW d2 \in Nat, droppedCount' = d2,
             d + k + s + r = d2 + c.dropped + p.skipped + p.reported,
             c.pc \in {"check", "recv"} => c.dropped = 0
      PROVE  PeerLogInv'
  <2>1. c.dropped \in Nat /\ p.skipped \in Nat /\ p.reported \in Nat
    BY DEF CollectorSet, PeerLogSet
  <2>2. PICK k2 \in Nat, s2 \in Nat, r2 \in Nat : k2 = c.dropped /\ s2 = p.skipped /\ r2 = p.reported
    BY <2>1
  <2>3. d + k + s + r = d2 + k2 + s2 + r2
    BY <1>3, <2>2
  <2>4. n = q + d2 + k2 + e + s2 + r2
    BY <1>b, <2>3
  <2> QED BY <1>0, <1>3, <1>a, <2>2, <2>4 DEF PeerLogInv
<1>4. CASE CollectCheck
  <2>1. collector.dropped = 0 /\ droppedCount' = 0 /\ UNCHANGED <<evEmitted, evQueue, peerLog>>
    BY <1>4 DEF CollectCheck, PeerLogInv
  <2>2. collector' \in CollectorSet /\ collector'.dropped = droppedCount /\ (collector'.pc \in {"check", "recv"} => collector'.dropped = 0)
    <3>1. CASE droppedCount > 0
      BY <1>0, <1>4, <3>1 DEF CollectCheck, CollectorSet
    <3>2. CASE droppedCount = 0
      <4>1. collector' = [collector EXCEPT !.pc = "recv"]
        BY <1>0, <1>4, <3>2 DEF CollectCheck
      <4> QED BY <1>0, <2>1, <3>2, <4>1 DEF CollectorSet
    <3> QED BY <1>0, <3>1, <3>2
  <2>3. collector' \in CollectorSet /\ peerLog' \in PeerLogSet /\ collector'.dropped = d /\ k = 0
    BY <1>0, <1>a, <2>1, <2>2
  <2>4. d + 0 + s + r = 0 + d + s + r
    OBVIOUS
  <2> QED BY <1>3, <1>a, <2>1, <2>2, <2>3, <2>4
<1>5. CASE CollectWake \/ CollectStop
  <2>1. UNCHANGED <<evEmitted, evQueue, droppedCount, peerLog>>
    BY <1>5 DEF CollectWake, CollectStop
  <2>2. collector'.dropped = collector.dropped /\ collector'.pc \in {"drain", "stopped"} /\ collector' \in CollectorSet
    BY <1>0, <1>5 DEF CollectWake, CollectStop, CollectorSet
  <2> QED BY <1>0, <1>3, <1>a, <2>1, <2>2
<1>6. CASE CollectReport
  <2>1. droppedCount' = 0 /\ UNCHANGED <<evEmitted, evQueue>> /\ collector' = [pc |-> "recv", dropped |-> 0, drained |-> 0]
    BY <1>6 DEF CollectReport
  <2>2. PICK m \in Nat : m = r + k + d
    OBVIOUS
  <2>3. peerLog' = [peerLog EXCEPT !.reported = m]
    BY <1>6, <1>a, <2>2 DEF CollectReport
  <2>4. peerLog' \in PeerLogSet /\ peerLog'.events = peerLog.events
        /\ peerLog'.skipped = peerLog.skipped /\ peerLog'.reported = m
    BY <1>0, <2>3 DEF PeerLogSet
  <2>5. collector' \in CollectorSet /\ collector'.dropped = 0
    BY <2>1 DEF CollectorSet
  <2>6. d + k + s + r = 0 + 0 + s + m
    BY <2>2
  <2> QED BY <1>3, <1>a, <2>1, <2>4, <2>5, <2>6
\* The steps that take the first event of the queue.
<1>7. ASSUME evQueue # <<>>, evQueue' = Tail(evQueue), UNCHANGED <<evEmitted, droppedCount>>, NEW c \in CollectorSet, NEW p \in PeerLogSet,
             collector' = c, peerLog' = p, c.pc \in {"check", "recv"} => c.dropped = 0,
             p.events = peerLog.events \/ p.events = Append(peerLog.events, Head(evQueue)),
             Len(p.events) + c.dropped + p.skipped + p.reported = e + k + s + r + 1
      PROVE  PeerLogInv'
  <2>1. c.dropped \in Nat /\ p.skipped \in Nat /\ p.reported \in Nat /\ p.events \in Seq(Nat)
    BY DEF CollectorSet, PeerLogSet
  <2>2. InOrder(evQueue', p.events, evEmitted) /\ Len(evQueue') = Len(evQueue) - 1
    <3>1. /\ InOrder(Tail(evQueue), peerLog.events, n) /\ InOrder(Tail(evQueue), Append(peerLog.events, Head(evQueue)), n)
          /\ Len(Tail(evQueue)) = Len(evQueue) - 1
      <4>1. InOrder(evQueue, peerLog.events, n)
        BY <1>0, <1>a
      <4> QED BY <1>7, <4>1, OrderTake
    <3> QED BY <1>7, <1>a, <3>1
  <2>3. Len(p.events) \in Nat
    BY <2>1
  <2>4. PICK q2 \in Nat, k2 \in Nat, e2 \in Nat, s2 \in Nat, r2 \in Nat :
             k2 = c.dropped /\ s2 = p.skipped /\ r2 = p.reported /\ e2 = Len(p.events) /\ q2 = Len(evQueue')
    BY <2>1, <2>2, <2>3 DEF InOrder
  <2>5. e2 + k2 + s2 + r2 = e + k + s + r + 1 /\ q2 = q - 1
    BY <1>7, <1>a, <2>2, <2>4
  <2>6. n = q2 + d + k2 + e2 + s2 + r2
    BY <1>b, <2>5
  <2> QED BY <1>0, <1>7, <1>a, <2>2, <2>4, <2>6 DEF PeerLogInv
<1>8. CASE CollectDrain
  <2>1. collector.pc = "drain" /\ UNCHANGED <<evEmitted, droppedCount, peerLog>>
    BY <1>8 DEF CollectDrain
  <2>2. CASE collector.drained < BusyDrop /\ evQueue # <<>>
    <3>1. PICK k2 \in Nat : k2 = k + 1
      OBVIOUS
    <3>a. PICK y \in Nat : y = collector.drained
      BY <1>0
    <3>2. PICK x \in Nat : x = y + 1
      OBVIOUS
    <3>3. evQueue' = Tail(evQueue) /\ collector' = [collector EXCEPT !.dropped = k2, !.drained = x]
      BY <1>8, <1>a, <2>2, <3>1, <3>a, <3>2 DEF CollectDrain
    <3>4. collector' = [pc |-> "drain", dropped |-> k2, drained |-> x]
      BY <1>0, <2>1, <3>3 DEF CollectorSet
    <3>5. collector' \in CollectorSet /\ collector'.pc = "drain" /\ collector'.dropped = k2
      BY <3>4 DEF CollectorSet
    <3>6. e + k2 + s + r = e + k + s + r + 1
      BY <3>1
    <3> QED BY <1>0, <1>7, <1>a, <2>1, <2>2, <3>3, <3>5, <3>6
  <2>3. CASE ~(collector.drained < BusyDrop /\ evQueue # <<>>)
    <3>1. collector' = [collector EXCEPT !.pc = "report"] /\ evQueue' = evQueue
      BY <1>8, <2>3 DEF CollectDrain
    <3>2. collector' \in CollectorSet /\ collector'.pc = "report" /\ collector'.dropped = collector.dropped
      BY <1>0, <3>1 DEF CollectorSet
    <3> QED BY <1>0, <1>3, <1>a, <2>1, <3>1, <3>2
  <2> QED BY <2>2, <2>3
<1>9. CASE CollectLog
  <2>1. collector.pc = "recv" /\ collector.dropped = 0 /\ evQueue # <<>> /\ evQueue' = Tail(evQueue) /\ UNCHANGED <<evEmitted, droppedCount>>
    BY <1>9 DEF CollectLog, PeerLogInv
  <2>2. PICK t : t = Append(peerLog.events, Head(evQueue))
    OBVIOUS
  <2>3. peerLog' = [peerLog EXCEPT !.events = t]
    BY <1>9, <2>2 DEF CollectLog
  <2>4. t \in Seq(Nat) /\ Len(t) = Len(peerLog.events) + 1
    BY <1>0, <2>1, <2>2, OrderTake DEF InOrder
  <2>5. peerLog' \in PeerLogSet /\ peerLog'.events = t /\ peerLog'.skipped = peerLog.skipped /\ peerLog'.reported = peerLog.reported
    BY <1>0, <2>3, <2>4 DEF PeerLogSet
  <2>6. collector' \in CollectorSet /\ collector'.pc = "check" /\ collector'.dropped = collector.dropped
    BY <1>0, <1>9 DEF CollectLog, CollectorSet
  <2>7. Len(t) = e + 1
    BY <1>a, <2>4
  <2>8. (e + 1) + k + s + r = e + k + s + r + 1
    OBVIOUS
  <2> QED BY <1>7, <1>a, <2>1, <2>2, <2>5, <2>6, <2>7, <2>8
<1>10. CASE CollectSkip
  <2>1. collector.pc = "recv" /\ collector.dropped = 0 /\ evQueue # <<>> /\ evQueue' = Tail(evQueue) /\ UNCHANGED <<evEmitted, droppedCount>>
    BY <1>10 DEF CollectSkip, PeerLogInv
  <2>2. PICK m \in Nat : m = s + 1
    OBVIOUS
  <2>3. peerLog' = [peerLog EXCEPT !.skipped = m]
    BY <1>10, <1>a, <2>2 DEF CollectSkip
  <2>4. peerLog' \in PeerLogSet /\ peerLog'.events = peerLog.events /\ peerLog'.skipped = m /\ peerLog'.reported = peerLog.reported
    BY <1>0, <2>3 DEF PeerLogSet
  <2>5. collector' \in CollectorSet /\ collector'.pc = "check" /\ collector'.dropped = collector.dropped
    BY <1>0, <1>10 DEF CollectSkip, CollectorSet
  <2>6. e + k + m + r = e + k + s + r + 1
    BY <2>2
  <2> QED BY <1>7, <1>a, <2>1, <2>4, <2>5, <2>6
<1> QED BY <1>1, <1>2, <1>4, <1>5, <1>6, <1>8, <1>9, <1>10 DEF PeerLogNext, CollectStep

LEMMA PeerLogInvImplies == PeerLogInv => EventsAccounted
<1> SUFFICES ASSUME PeerLogInv PROVE EventsAccounted
  OBVIOUS
<1>1. DOMAIN peerLog.events = 1 .. Len(peerLog.events)
  BY DEF PeerLogInv, InOrder
<1>2. \A i, j \in 1 .. Len(peerLog.events) : i < j => peerLog.events[i] < peerLog.events[j]
  BY <1>1 DEF PeerLogInv, InOrder
<1>3. evEmitted = Len(evQueue) + droppedCount + collector.dropped
                + Len(peerLog.events) + peerLog.skipped + peerLog.reported
  BY DEF PeerLogInv
<1> HIDE DEF PeerLogInv
<1> QED BY <1>2, <1>3, Zenon DEF EventsAccounted, IsSorted

-----------------------------------------------------------------------------
(***************************************************************************)
(* The request log.                                                        *)
(***************************************************************************)
ReqEntry == [active : BOOLEAN, end : Nat]

\* Increasing, and of the first n requests.
Ascending(q, n) == q \in Seq(1 .. n) /\ \A i, j \in DOMAIN q : i < j => q[i] < q[j]

\* The keep time is the one that was set, and every request is shown or may go.
ReqLogInv ==
  /\ reqStarted \in Seq(ReqEntry) /\ reqNow \in Nat /\ reqKeep = keepSet
  /\ Ascending(reqEntries, Len(reqStarted))
  /\ \A id \in DOMAIN reqStarted : id \in mayGo \/ \E i \in DOMAIN reqEntries : reqEntries[i] = id

\* One more entry of a log.
OneMore(t, q, e, m) ==
  /\ t \in Seq(Nat) /\ t = Append(q, e) /\ Ascending(t, m)
  /\ DOMAIN t = 1 .. Len(q) + 1 /\ DOMAIN q = 1 .. Len(q)
  /\ t[Len(q) + 1] = e /\ \A i \in 1 .. Len(q) : t[i] = q[i]

LEMMA AscendingAppend ==
  ASSUME NEW n \in Nat, NEW q, Ascending(q, n), NEW m \in Nat, n <= m, NEW e \in 1 .. m, \A i \in DOMAIN q : q[i] < e
  PROVE  OneMore(Append(q, e), q, e, m)
<1>1. PICK l \in Nat : l = Len(q)
  BY DEF Ascending
<1>2. /\ q \in Seq(Nat) /\ e \in Nat /\ DOMAIN q = 1 .. l /\ \A i \in 1 .. l : q[i] \in 1 .. n
      /\ \A i, h \in 1 .. l : i < h => q[i] < q[h]
  <2>1. DOMAIN q = 1 .. l /\ q \in Seq(1 .. n) /\ e \in Nat
    BY <1>1 DEF Ascending
  <2>2. \A i \in 1 .. l : q[i] \in 1 .. n
    BY <1>1, <2>1
  <2>3. 1 .. n \subseteq Nat
    OBVIOUS
  <2>4. q \in Seq(Nat)
    BY <2>1, <2>3
  <2> QED BY <2>1, <2>2, <2>4 DEF Ascending
<1>3. PICK t : t = Append(q, e)
  OBVIOUS
<1>4. t \in Seq(Nat) /\ Len(t) = l + 1 /\ t[l + 1] = e /\ \A i \in 1 .. l : t[i] = q[i]
  BY <1>1, <1>2, <1>3, AppendProperties
<1>5. DOMAIN t = 1 .. l + 1
  BY <1>4
<1>6. \A i \in 1 .. l + 1 : t[i] \in 1 .. m
  BY <1>2, <1>4
<1>7. t \in Seq(1 .. m)
  BY <1>4, <1>6
<1>8. \A i, h \in 1 .. l + 1 : i < h => t[i] < t[h]
  <2> TAKE i, h \in 1 .. l + 1
  <2> SUFFICES ASSUME i < h PROVE t[i] < t[h]
    OBVIOUS
  <2>1. i \in 1 .. l
    OBVIOUS
  <2>2. CASE h = l + 1
    BY <1>2, <1>4, <2>1, <2>2
  <2>3. CASE h # l + 1
    BY <1>2, <1>4, <2>1, <2>3
  <2> QED BY <2>2, <2>3
<1>9. Ascending(t, m)
  BY <1>5, <1>7, <1>8 DEF Ascending
<1> QED BY <1>1, <1>2, <1>3, <1>4, <1>5, <1>9 DEF OneMore

LEMMA OneMoreIndex ==
  ASSUME NEW b \in Nat
  PROVE  b + 1 \in 1 .. b + 1 /\ (\A i \in 1 .. b : i \in 1 .. b + 1) /\ \A i \in 1 .. b + 1 : i = b + 1 \/ i \in 1 .. b
OBVIOUS

\* What stays of a log after its first j entries.
StaysOf(reqs, gone, n, j) ==
  {s \in Seq(Nat) : /\ Ascending(s, n) /\ \A i \in DOMAIN s : \E h \in 1 .. j : s[i] = reqs[h]
                    /\ \A h \in 1 .. j : reqs[h] \in gone \/ \E i \in DOMAIN s : s[i] = reqs[h]}

\* A clean-up goes through the log and keeps the order, and every entry not expired.
LEMMA CleanupIs ==
  ASSUME NEW n \in Nat, NEW reqs, Ascending(reqs, n), NEW entries, NEW k
  PROVE  Cleanup(reqs, entries, k) \in StaysOf(reqs, {id \in 1 .. n : Expired(id, entries, k, reqNow)}, n, Len(reqs))
<1> DEFINE gone == {id \in 1 .. n : Expired(id, entries, k, reqNow)}
           F(j, z) == IF j = 0 THEN <<>>
                      ELSE IF Expired(reqs[j], entries, k, reqNow) THEN z[j - 1] ELSE Append(z[j - 1], reqs[j])
           next1 == [j \in Nat |-> [s \in Seq(Nat) |->
                       IF j < Len(reqs) THEN (IF reqs[j + 1] \in gone THEN s ELSE Append(s, reqs[j + 1])) ELSE s]]
<1>0. PICK l \in Nat : l = Len(reqs)
  BY DEF Ascending
<1>1. /\ reqs \in Seq(Nat) /\ Len(reqs) \in Nat /\ \A j \in 1 .. Len(reqs) : reqs[j] \in 1 .. n
      /\ \A i, j \in 1 .. Len(reqs) : i < j => reqs[i] < reqs[j]
  BY DEF Ascending
<1>2. next1 \in [Nat -> [Seq(Nat) -> Seq(Nat)]]
  <2>1. \A j \in Nat, s \in Seq(Nat) :
           (IF j < Len(reqs) THEN (IF reqs[j + 1] \in gone THEN s ELSE Append(s, reqs[j + 1])) ELSE s) \in Seq(Nat)
    <3> HIDE DEF gone
    <3> QED BY <1>1, AppendProperties
  <2> HIDE DEF gone
  <2> QED BY <2>1
<1>3. <<>> \in Seq(Nat)
  OBVIOUS
<1>4. PICK g \in [Nat -> Seq(Nat)] : g[0] = <<>> /\ \A j \in Nat : g[j + 1] = next1[j][g[j]]
  <2>1. next1 \in Steps(Seq(Nat))
    <3> HIDE DEF next1
    <3> QED BY <1>2 DEF Steps
  <2> HIDE DEF next1
  <2>2. PICK g \in [Nat -> Seq(Nat)] : Iterates(g, <<>>, next1)
    BY <1>3, <2>1, NatRecursion
  <2> QED BY <2>2 DEF Iterates
<1> DEFINE h == [j \in 0 .. Len(reqs) |-> g[j]]
<1>5. h = [j \in 0 .. Len(reqs) |-> F(j, h)]
  <2>1. ASSUME NEW j \in 0 .. Len(reqs), j # 0 PROVE h[j] = F(j, h)
    <3>1. j - 1 \in Nat /\ j - 1 < Len(reqs) /\ (j - 1) + 1 = j /\ j - 1 \in 0 .. Len(reqs)
      <4>1. j \in 0 .. l
        BY <1>0, <2>1
      <4>2. j - 1 \in Nat /\ j - 1 < l /\ (j - 1) + 1 = j /\ j - 1 \in 0 .. l
        <5> HIDE DEF F, h, gone
        <5> QED BY <2>1, <4>1
      <4> QED BY <1>0, <4>2
    <3>2. reqs[j] \in gone <=> Expired(reqs[j], entries, k, reqNow)
      <4>1. reqs[j] \in 1 .. n
        BY <1>1, <2>1
      <4> QED BY <4>1
    <3>3. g[j] = IF reqs[j] \in gone THEN g[j - 1] ELSE Append(g[j - 1], reqs[j])
      <4> HIDE DEF gone
      <4> QED BY <1>4, <3>1
    <3> HIDE DEF gone
    <3> QED BY <2>1, <3>1, <3>2, <3>3
  <2>2. h[0] = F(0, h)
    BY <1>1, <1>4
  <2>3. \A j \in 0 .. Len(reqs) : h[j] = F(j, h)
    <3> HIDE DEF F, h
    <3> QED BY <2>1, <2>2
  <2>4. h = [j \in 0 .. Len(reqs) |-> h[j]]
    OBVIOUS
  <2> HIDE DEF F, h
  <2> QED BY <2>3, <2>4
<1> DEFINE kk == CHOOSE z : z = [j \in 0 .. Len(reqs) |-> F(j, z)]
<1>6. kk = [j \in 0 .. Len(reqs) |-> F(j, kk)]
  <2> HIDE DEF F, h
  <2> QED BY <1>5, Zenon
<1>7. Cleanup(reqs, entries, k) = kk[Len(reqs)]
  BY Zenon DEF Cleanup
<1> DEFINE Stays(j) == StaysOf(reqs, gone, n, j)
           P == {j \in Nat : j <= Len(reqs) => kk[j] \in Stays(j)}
<1>8. 0 \in P
  <2>1. kk[0] = <<>>
    <3> HIDE DEF kk
    <3> QED BY <1>1, <1>6
  <2>2. <<>> \in Seq(Nat) /\ <<>> \in Seq(1 .. n) /\ DOMAIN <<>> = {}
    OBVIOUS
  <2>3. <<>> \in Stays(0)
    <3> HIDE DEF gone
    <3> QED BY <2>2 DEF StaysOf, Ascending
  <2> HIDE DEF kk, Stays
  <2> QED BY <2>1, <2>3
<1>9. ASSUME NEW j \in Nat, j \in P PROVE j + 1 \in P
  <2> SUFFICES ASSUME j + 1 <= Len(reqs) PROVE kk[j + 1] \in Stays(j + 1)
    OBVIOUS
  <2>1. PICK s \in Seq(Nat) : s = kk[j] /\ s \in Stays(j)
    <3>1. kk[j] \in Stays(j)
      BY <1>1, <1>9
    <3> HIDE DEF kk
    <3> QED BY <3>1 DEF StaysOf
  <2>2. PICK e \in 1 .. n : e = reqs[j + 1]
    <3>1. j + 1 \in 1 .. Len(reqs)
      <4> HIDE DEF kk, gone
      <4> QED BY <1>1
    <3>2. reqs[j + 1] \in 1 .. n
      <4> HIDE DEF kk, gone
      <4> QED BY <1>1, <3>1
    <3> QED BY <3>2
  <2>3. kk[j + 1] = IF Expired(e, entries, k, reqNow) THEN s ELSE Append(s, e)
    <3>1. j + 1 \in 0 .. Len(reqs) /\ j + 1 # 0 /\ (j + 1) - 1 = j
      BY <1>1
    <3> HIDE DEF kk
    <3> QED BY <1>6, <2>1, <2>2, <3>1
  <2>4. e \in gone <=> Expired(e, entries, k, reqNow)
    OBVIOUS
  <2> HIDE DEF kk, gone
  <2>5. \A i \in DOMAIN s : s[i] < e
    <3>1. \A i \in DOMAIN s : \E m \in 1 .. j : s[i] = reqs[m]
      BY <2>1 DEF StaysOf
    <3>2. \A m \in 1 .. j : m \in 1 .. Len(reqs) /\ j + 1 \in 1 .. Len(reqs) /\ m < j + 1
      BY <1>1
    <3>3. \A m \in 1 .. j : reqs[m] < e
      BY <1>1, <2>2, <3>2
    <3> QED BY <3>1, <3>3
  <2>6. \A m \in 1 .. j + 1 : m \in 1 .. j \/ m = j + 1
    OBVIOUS
  <2>7. \A m \in 1 .. j : m \in 1 .. j + 1
    OBVIOUS
  <2>8. /\ Ascending(s, n) /\ \A i \in DOMAIN s : \E m \in 1 .. j : s[i] = reqs[m]
        /\ \A m \in 1 .. j : reqs[m] \in gone \/ \E i \in DOMAIN s : s[i] = reqs[m]
    BY <2>1 DEF StaysOf
  <2>9. CASE e \in gone
    <3>1. \A m \in 1 .. j + 1 : reqs[m] \in gone \/ \E i \in DOMAIN s : s[i] = reqs[m]
      BY <2>2, <2>6, <2>8, <2>9
    <3>2. \A i \in DOMAIN s : \E m \in 1 .. j + 1 : s[i] = reqs[m]
      BY <2>7, <2>8
    <3>3. s \in Stays(j + 1)
      BY <2>8, <3>1, <3>2 DEF StaysOf
    <3> QED BY <2>3, <2>4, <2>9, <3>3
  <2>10. CASE e \notin gone
    <3>1. OneMore(Append(s, e), s, e, n)
      <4>1. n <= n /\ e \in 1 .. n
        OBVIOUS
      <4> QED BY <2>5, <2>8, <4>1, AscendingAppend
    <3>2. PICK b \in Nat : b = Len(s)
      OBVIOUS
    <3>3. PICK t :
            /\ t \in Seq(Nat) /\ t = Append(s, e) /\ Ascending(t, n) /\ DOMAIN t = 1 .. b + 1
            /\ DOMAIN s = 1 .. b /\ t[b + 1] = e /\ \A i \in 1 .. b : t[i] = s[i]
      BY <3>1, <3>2 DEF OneMore
    <3>4. b + 1 \in 1 .. b + 1 /\ (\A i \in 1 .. b : i \in 1 .. b + 1) /\ \A i \in 1 .. b + 1 : i = b + 1 \/ i \in 1 .. b
      BY OneMoreIndex
    <3>5. \A i \in DOMAIN t : \E m \in 1 .. j + 1 : t[i] = reqs[m]
      <4> TAKE i \in DOMAIN t
      <4>1. CASE i = b + 1
        BY <2>2, <3>3, <4>1
      <4>2. CASE i # b + 1
        <5>1. i \in DOMAIN s
          BY <3>3, <3>4, <4>2
        <5>2. PICK m \in 1 .. j : s[i] = reqs[m]
          BY <2>8, <5>1
        <5>3. t[i] = s[i]
          BY <3>3, <5>1
        <5> QED BY <2>7, <5>2, <5>3
      <4> QED BY <4>1, <4>2
    <3>6. \A m \in 1 .. j + 1 : reqs[m] \in gone \/ \E i \in DOMAIN t : t[i] = reqs[m]
      <4> TAKE m \in 1 .. j + 1
      <4>1. CASE m = j + 1
        BY <2>2, <3>3, <3>4, <4>1
      <4>2. CASE m \in 1 .. j /\ reqs[m] \notin gone
        <5>1. PICK i \in DOMAIN s : s[i] = reqs[m]
          BY <2>8, <4>2
        <5> QED BY <3>3, <3>4, <5>1
      <4> QED BY <2>6, <4>1, <4>2, <2>8
    <3>7. t \in Stays(j + 1)
      BY <3>3, <3>5, <3>6 DEF StaysOf
    <3> QED BY <2>3, <2>4, <2>10, <3>3, <3>7
  <2> QED BY <2>9, <2>10
<1>10. Nat \subseteq P
  <2> HIDE DEF P
  <2> QED BY <1>8, <1>9, NatSetInduction
<1>11. Len(reqs) \in Nat
  BY <1>1
<1> HIDE DEF kk, gone
<1>12. kk[Len(reqs)] \in Stays(Len(reqs))
  BY <1>10, <1>11
<1> QED BY <1>7, <1>12 DEF gone

\* A log that is cleaned up, or not, keeps what may not go.
LEMMA CleanupKeeps ==
  ASSUME NEW n \in Nat, NEW reqs, Ascending(reqs, n), NEW entries, DOMAIN entries = 1 .. n, NEW k,
         NEW after, after \in {reqs, Cleanup(reqs, entries, k)}
  PROVE  /\ Ascending(after, n)
         /\ \A id \in 1 .. n : (\E i \in DOMAIN reqs : reqs[i] = id) =>
              id \in Droppable(entries, k, reqNow) \/ \E i \in DOMAIN after : after[i] = id
<1>1. CASE after = reqs
  BY <1>1
<1>2. CASE after = Cleanup(reqs, entries, k)
  <2> DEFINE gone == {id \in 1 .. n : Expired(id, entries, k, reqNow)}
  <2>1. after \in StaysOf(reqs, gone, n, Len(reqs))
    BY <1>2, CleanupIs
  <2>2. gone = Droppable(entries, k, reqNow) /\ DOMAIN reqs = 1 .. Len(reqs)
    BY DEF Droppable, Ascending
  <2> HIDE DEF gone
  <2> QED BY <2>1, <2>2 DEF StaysOf
<1> QED BY <1>1, <1>2

LEMMA ReqLogInits == ReqLogInit => ReqLogInv
<1>1. <<>> \in Seq(ReqEntry) /\ Len(<<>>) = 0 /\ DOMAIN <<>> = {} /\ \A n \in Nat : <<>> \in Seq(1 .. n)
  OBVIOUS
<1> QED BY <1>1 DEF ReqLogInit, ReqLogInv, Ascending

\* What a step does to the log: entries may go, and one may come.
LEMMA ReqLogSteps ==
  ASSUME ReqLogInv, [ReqLogNext]_rqVars
  PROVE  ReqLogInv'
<1>0. PICK n \in Nat : n = Len(reqStarted)
  BY DEF ReqLogInv
<1>1. /\ reqStarted \in Seq(ReqEntry) /\ reqNow \in Nat /\ reqKeep = keepSet /\ DOMAIN reqStarted = 1 .. n
      /\ Ascending(reqEntries, n)
      /\ \A id \in 1 .. n : id \in mayGo \/ \E i \in DOMAIN reqEntries : reqEntries[i] = id
  BY <1>0 DEF ReqLogInv
<1>2. CASE UNCHANGED rqVars
  BY <1>2 DEF rqVars, ReqLogInv
\* Nothing of the log changes.
<1>3. ASSUME UNCHANGED <<reqEntries, reqStarted>>, reqNow' \in Nat, reqKeep' = keepSet', mayGo \subseteq mayGo'
      PROVE  ReqLogInv'
  BY <1>3 DEF ReqLogInv
\* A clean-up, after which the entries that went are among those that may go.
<1>4. ASSUME NEW entries \in Seq(ReqEntry), DOMAIN entries = 1 .. n, reqStarted' = entries, NEW k,
             reqEntries' \in {reqEntries, Cleanup(reqEntries, entries, k)},
             mayGo' = mayGo \union Droppable(entries, k, reqNow), UNCHANGED <<reqNow, reqKeep, keepSet>>
      PROVE  ReqLogInv'
  <2>1. PICK after : after = reqEntries' /\ after \in {reqEntries, Cleanup(reqEntries, entries, k)}
    BY <1>4
  <2>2. /\ Ascending(after, n)
        /\ \A id \in 1 .. n : (\E i \in DOMAIN reqEntries : reqEntries[i] = id) =>
             id \in Droppable(entries, k, reqNow) \/ \E i \in DOMAIN after : after[i] = id
    BY <1>1, <1>4, <2>1, CleanupKeeps
  <2>3. Len(entries) = n
    BY <1>4
  <2>4. \A id \in 1 .. n : id \in mayGo' \/ \E i \in DOMAIN after : after[i] = id
    BY <1>1, <1>4, <2>2
  <2> QED BY <1>1, <1>4, <2>1, <2>2, <2>3, <2>4 DEF ReqLogInv
<1>5. CASE ReqLogAdd
  <2>1. PICK e \in ReqEntry : e = [active |-> TRUE, end |-> 0]
    BY DEF ReqEntry
  <2>2. /\ reqStarted' = Append(reqStarted, e) /\ reqEntries' = Append(reqEntries, Len(reqStarted'))
        /\ UNCHANGED <<reqKeep, reqNow, keepSet, mayGo>>
    BY <1>5, <2>1 DEF ReqLogAdd
  <2>3. reqStarted' \in Seq(ReqEntry) /\ Len(reqStarted') = n + 1 /\ DOMAIN reqStarted' = 1 .. n + 1
    BY <1>0, <1>1, <2>2, AppendProperties
  <2>4. \A i \in DOMAIN reqEntries : reqEntries[i] < n + 1
    BY <1>1 DEF Ascending
  <2>5. PICK b \in Nat : b = Len(reqEntries)
    BY <1>1 DEF Ascending
  <2>6. OneMore(Append(reqEntries, n + 1), reqEntries, n + 1, n + 1)
    BY <1>1, <2>4, n + 1 \in Nat, n <= n + 1, n + 1 \in 1 .. n + 1, AscendingAppend
  <2>7. PICK t : /\ t = reqEntries' /\ Ascending(t, n + 1) /\ DOMAIN t = 1 .. b + 1 /\ DOMAIN reqEntries = 1 .. b
                 /\ t[b + 1] = n + 1 /\ \A i \in 1 .. b : t[i] = reqEntries[i]
    BY <2>2, <2>3, <2>5, <2>6 DEF OneMore
  <2>8. (\A i \in 1 .. n + 1 : i = n + 1 \/ i \in 1 .. n) /\ b + 1 \in 1 .. b + 1 /\ \A i \in 1 .. b : i \in 1 .. b + 1
    BY OneMoreIndex
  <2>9. \A id \in 1 .. n + 1 : id \in mayGo' \/ \E i \in DOMAIN t : t[i] = id
    BY <1>1, <2>2, <2>7, <2>8
  <2> QED BY <1>1, <2>2, <2>3, <2>7, <2>9 DEF ReqLogInv
<1>6. ASSUME NEW id \in DOMAIN reqStarted, Finish(id) PROVE ReqLogInv'
  <2>1. PICK e \in ReqEntry : e = [active |-> FALSE, end |-> reqNow]
    BY <1>1 DEF ReqEntry
  <2>2. PICK entries : entries = [reqStarted EXCEPT ![id] = e]
    OBVIOUS
  <2>3. /\ reqStarted' = entries /\ reqEntries' = MaybeCleanup(reqEntries, entries, reqKeep)
        /\ mayGo' = mayGo \union Droppable(entries, keepSet, reqNow) /\ UNCHANGED <<reqKeep, keepSet, reqNow>>
    BY <1>6, <2>1, <2>2 DEF Finish
  <2>4. entries \in Seq(ReqEntry) /\ DOMAIN entries = 1 .. n
    BY <1>1, <2>2
  <2>5. reqEntries' \in {reqEntries, Cleanup(reqEntries, entries, reqKeep)}
    BY <2>3 DEF MaybeCleanup
  <2> QED BY <1>1, <1>4, <2>3, <2>4, <2>5
<1>7. CASE ClearInactive
  BY <1>1, <1>4, <1>7 DEF ClearInactive
<1>8. ASSUME NEW k \in KeepTimes, SetKeepTime(k) PROVE ReqLogInv'
  BY <1>1, <1>3, <1>8 DEF SetKeepTime
<1>9. CASE TimePasses
  BY <1>1, <1>3, <1>9 DEF TimePasses
<1> QED BY <1>2, <1>5, <1>6, <1>7, <1>8, <1>9 DEF ReqLogNext

LEMMA ReqLogInvImplies == ReqLogInv => RequestsShown
<1> SUFFICES ASSUME ReqLogInv PROVE RequestsShown
  OBVIOUS
<1>1. DOMAIN reqStarted \ mayGo \subseteq ToSet(reqEntries)
  BY DEF ReqLogInv, ToSet
<1>2. DOMAIN reqEntries = 1 .. Len(reqEntries) /\ \A i, j \in 1 .. Len(reqEntries) : i < j => reqEntries[i] < reqEntries[j]
  BY DEF ReqLogInv, Ascending
<1> QED BY <1>1, <1>2 DEF RequestsShown, IsSorted

-----------------------------------------------------------------------------
(***************************************************************************)
(* The routers of the config.                                              *)
(***************************************************************************)
DepsIn(cfg, n) == IF cfg[n].type \in Composite THEN {cfg[n].deps[i] : i \in DOMAIN cfg[n].deps} ELSE {}
NeedsIn(cfg, n) ==
  LET level[k \in 0 .. Cardinality(RouterNames)] ==
        IF k = 0 THEN DepsIn(cfg, n) ELSE level[k - 1] \union UNION {DepsIn(cfg, r) : r \in level[k - 1]}
  IN  level[Cardinality(RouterNames)]
BadType(type) == type \notin Composite \union {"http", "dht"}

FrameSet == [name : RouterNames, method : MethodNameList, needs : Seq(RouterNames), begun : BOOLEAN]

\* The calls fs of parse: each was made for a router that the one before it needs, and
\* those begun are of different routers, visited and not yet there, whose other
\* needs are there, to come, or at hand.
FrameOk(f, cfg, done, seen) ==
  /\ f.name \in seen /\ f.name \notin done /\ cfg[f.name].type # "absent"
  /\ \A h \in DOMAIN f.needs : \E d \in DOMAIN cfg[f.name].deps : f.needs[h] = cfg[f.name].deps[d]
Waits(f, r) == \E h \in DOMAIN f.needs : f.needs[h] = r
FramesIn(fs, l, cfg, done, seen) ==
  /\ \A i \in 1 .. l - 1 : fs[i].begun = TRUE /\ fs[i + 1].name \in DepsIn(cfg, fs[i].name)
  /\ \A i \in 1 .. l : fs[i].begun = TRUE =>
       /\ FrameOk(fs[i], cfg, done, seen)
       /\ \A r \in DepsIn(cfg, fs[i].name) : r \in done \/ Waits(fs[i], r) \/ (i < l /\ fs[i + 1].name = r)
  /\ \A i, j \in 1 .. l : fs[i].begun = TRUE /\ fs[j].begun = TRUE /\ fs[i].name = fs[j].name => i = j
  /\ \A r \in seen : r \in done \/ \E i \in 1 .. l : fs[i].begun = TRUE /\ fs[i].name = r
FramesOk(fs, cfg, done, seen) == FramesIn(fs, Len(fs), cfg, done, seen)

\* Routers that are there: built once, of what is there, and not of themselves.
DoneOk(done, built, cfg) ==
  /\ done \subseteq RouterNames /\ built = [n \in RouterNames |-> IF n \in done THEN 1 ELSE 0]
  /\ \A r \in done : DepsIn(cfg, r) \subseteq done /\ r \notin NeedsIn(cfg, r) /\ ~BadType(cfg[r].type)

MethodsOk(fs, todo, done, final, names) ==
  /\ fs # <<>> => fs[1].method \in DOMAIN names /\ fs[1].name = names[fs[1].method]
  /\ \A m \in DOMAIN names : m \in todo \/ names[m] \in done \/ (fs # <<>> /\ fs[1].method = m)
  /\ \A i \in DOMAIN final : final[i][2] = names[final[i][1]]

CannotBuild(cfg, names) ==
  \E m \in DOMAIN names : \E r \in {names[m]} \union NeedsIn(cfg, names[m]) : BadType(cfg[r].type) \/ r \in NeedsIn(cfg, r)

ParseInv ==
  /\ routersCfg \in RouterConfigs /\ methods \in MethodConfigs
  /\ todoMethods \subseteq DOMAIN methods /\ finalRouter \in Seq(MethodNameList \X RouterNames)
  /\ frames \in Seq(FrameSet) /\ visited \subseteq RouterNames
  /\ parseOut \in {"check", "busy", "ok", "error"}
  /\ parseOut \in {"busy", "ok"} => DOMAIN methods = MethodNameList
  /\ FramesOk(frames, routersCfg, created, visited) /\ DoneOk(created, builds, routersCfg)
  /\ MethodsOk(frames, todoMethods, created, finalRouter, methods)
  /\ parseOut = "ok" => frames = <<>> /\ todoMethods = {}
  /\ parseOut = "error" => DOMAIN methods # MethodNameList \/ CannotBuild(routersCfg, methods)
  /\ CallsNamed

\* What the config says of a router is a router.
LEMMA DepsNamed ==
  ASSUME NEW cfg \in RouterConfigs, NEW n \in RouterNames
  PROVE  DepsIn(cfg, n) \subseteq RouterNames
<1>1. cfg[n].deps \in Seq(RouterNames)
  BY RouterConstants
<1>2. \A i \in DOMAIN cfg[n].deps : cfg[n].deps[i] \in RouterNames
  BY <1>1
<1> QED BY <1>2 DEF DepsIn

\* The levels of what a router is made of, as the function that the recursion defines.
IsLevels(level, cfg, n, last) ==
  /\ level \in [0 .. last -> SUBSET RouterNames] /\ level[0] = DepsIn(cfg, n)
  /\ \A k \in 0 .. last - 1 : level[k + 1] = level[k] \union UNION {DepsIn(cfg, r) : r \in level[k]}

LEMMA NeedsLevels ==
  ASSUME NEW cfg \in RouterConfigs, NEW n \in RouterNames
  PROVE  \E level : /\ IsLevels(level, cfg, n, Cardinality(RouterNames))
                    /\ NeedsIn(cfg, n) = level[Cardinality(RouterNames)]
<1>1. PICK last \in Nat : last = Cardinality(RouterNames)
  BY RouterConstants, FS_CardinalityType
<1> DEFINE U == SUBSET RouterNames
           grow == [k \in Nat |-> [S \in U |-> S \union UNION {DepsIn(cfg, r) : r \in S}]]
           F(k, z) == IF k = 0 THEN DepsIn(cfg, n) ELSE z[k - 1] \union UNION {DepsIn(cfg, r) : r \in z[k - 1]}
<1>2. grow \in Steps(U)
  <2>1. \A S \in U : S \union UNION {DepsIn(cfg, r) : r \in S} \in U
    BY DepsNamed
  <2> QED BY <2>1 DEF Steps
<1>3. DepsIn(cfg, n) \in U
  BY DepsNamed
<1>4. PICK g \in [Nat -> U] : Iterates(g, DepsIn(cfg, n), grow)
  <2> HIDE DEF grow, U
  <2> QED BY <1>2, <1>3, NatRecursion
<1>5. g[0] = DepsIn(cfg, n) /\ \A k \in Nat : g[k + 1] = g[k] \union UNION {DepsIn(cfg, r) : r \in g[k]}
  <2>1. g[0] = DepsIn(cfg, n) /\ \A k \in Nat : g[k + 1] = grow[k][g[k]]
    <3> HIDE DEF grow, U
    <3> QED BY <1>4 DEF Iterates
  <2> QED BY <2>1
<1> DEFINE h == [k \in 0 .. last |-> g[k]]
<1>6. h = [k \in 0 .. last |-> F(k, h)]
  <2>1. ASSUME NEW k \in 0 .. last, k # 0 PROVE h[k] = F(k, h)
    <3>1. k - 1 \in Nat /\ (k - 1) + 1 = k /\ k - 1 \in 0 .. last
      BY <2>1
    <3>2. g[k] = g[k - 1] \union UNION {DepsIn(cfg, r) : r \in g[k - 1]}
      <4>1. g[(k - 1) + 1] = g[k - 1] \union UNION {DepsIn(cfg, r) : r \in g[k - 1]}
        BY <1>5, <3>1
      <4> QED BY <3>1, <4>1
    <3> QED BY <2>1, <3>1, <3>2
  <2>2. h[0] = F(0, h)
    BY <1>5
  <2>3. \A k \in 0 .. last : h[k] = F(k, h)
    <3> HIDE DEF F, h
    <3> QED BY <2>1, <2>2
  <2>4. h = [k \in 0 .. last |-> h[k]]
    OBVIOUS
  <2> HIDE DEF F, h
  <2> QED BY <2>3, <2>4
<1> DEFINE level == CHOOSE z : z = [k \in 0 .. last |-> F(k, z)]
<1>7. level = [k \in 0 .. last |-> F(k, level)]
  <2> HIDE DEF F, h
  <2> QED BY <1>6, Zenon
<1>8. NeedsIn(cfg, n) = level[last]
  BY <1>1, Zenon DEF NeedsIn
<1> HIDE DEF level
<1>9. level[0] = DepsIn(cfg, n)
  BY <1>7
<1>10. \A k \in 0 .. last - 1 : level[k + 1] = level[k] \union UNION {DepsIn(cfg, r) : r \in level[k]}
  <2> TAKE k \in 0 .. last - 1
  <2>1. k + 1 \in 0 .. last /\ k + 1 # 0 /\ (k + 1) - 1 = k
    OBVIOUS
  <2> QED BY <1>7, <2>1
<1>11. \A k \in 0 .. last : level[k] \in U
  <2> DEFINE P == {k \in Nat : k <= last => level[k] \in U}
  <2>1. 0 \in P
    BY <1>3, <1>9
  <2>2. ASSUME NEW k \in Nat, k \in P PROVE k + 1 \in P
    <3> SUFFICES ASSUME k + 1 <= last PROVE level[k + 1] \in U
      OBVIOUS
    <3>1. level[k] \in U /\ k \in 0 .. last - 1
      BY <2>2
    <3> QED BY <1>10, <3>1, DepsNamed
  <2>3. Nat \subseteq P
    <3> HIDE DEF P
    <3> QED BY <2>1, <2>2, NatSetInduction
  <2> QED BY <2>3
<1>12. level \in [0 .. last -> U]
  BY <1>7, <1>11
<1>13. IsLevels(level, cfg, n, last)
  BY <1>9, <1>10, <1>12 DEF IsLevels
<1> QED BY <1>1, <1>8, <1>13

\* It is all that the router is made of: those it names, those they name, and no other.
LEMMA NeedsLeast ==
  ASSUME NEW cfg \in RouterConfigs, NEW n \in RouterNames, NEW S, DepsIn(cfg, n) \subseteq S,
         \A r \in S : DepsIn(cfg, r) \subseteq S
  PROVE  NeedsIn(cfg, n) \subseteq S
<1>1. PICK last \in Nat : last = Cardinality(RouterNames)
  BY RouterConstants, FS_CardinalityType
<1>2. PICK level : IsLevels(level, cfg, n, last) /\ NeedsIn(cfg, n) = level[last]
  BY <1>1, NeedsLevels
<1> DEFINE P == {k \in Nat : k <= last => level[k] \subseteq S}
<1>3. 0 \in P
  BY <1>2 DEF IsLevels
<1>4. ASSUME NEW k \in Nat, k \in P PROVE k + 1 \in P
  <2> SUFFICES ASSUME k + 1 <= last PROVE level[k + 1] \subseteq S
    OBVIOUS
  <2>1. level[k] \subseteq S /\ k \in 0 .. last - 1
    BY <1>4
  <2> QED BY <1>2, <2>1 DEF IsLevels
<1>5. Nat \subseteq P
  <2> HIDE DEF P
  <2> QED BY <1>3, <1>4, NatSetInduction
<1> QED BY <1>2, <1>5

LEMMA NeedsClosed ==
  ASSUME NEW cfg \in RouterConfigs, NEW n \in RouterNames
  PROVE  /\ NeedsIn(cfg, n) \subseteq RouterNames /\ DepsIn(cfg, n) \subseteq NeedsIn(cfg, n)
         /\ \A r \in NeedsIn(cfg, n) : DepsIn(cfg, r) \subseteq NeedsIn(cfg, n)
<1>1. PICK last \in Nat : last = Cardinality(RouterNames)
  BY RouterConstants, FS_CardinalityType
<1>2. PICK level : IsLevels(level, cfg, n, last) /\ NeedsIn(cfg, n) = level[last]
  BY <1>1, NeedsLevels
<1>3. /\ level \in [0 .. last -> SUBSET RouterNames] /\ level[0] = DepsIn(cfg, n)
      /\ \A k \in 0 .. last - 1 : level[k + 1] = level[k] \union UNION {DepsIn(cfg, r) : r \in level[k]}
  BY <1>2 DEF IsLevels
<1> DEFINE Closed(S) == \A r \in S : DepsIn(cfg, r) \subseteq S
           P == {k \in Nat : k <= last => DepsIn(cfg, n) \subseteq level[k] /\ (Closed(level[k]) \/ Cardinality(level[k]) >= k)}
<1>4. \A k \in 0 .. last : level[k] \subseteq RouterNames /\ IsFiniteSet(level[k]) /\ Cardinality(level[k]) \in Nat
  <2> TAKE k \in 0 .. last
  <2>1. level[k] \subseteq RouterNames
    BY <1>3
  <2> QED BY <2>1, RouterConstants, FS_Subset, FS_CardinalityType
<1>5. 0 \in P
  BY <1>3, <1>4
<1>6. ASSUME NEW k \in Nat, k \in P PROVE k + 1 \in P
  <2> SUFFICES ASSUME k + 1 <= last
               PROVE  /\ DepsIn(cfg, n) \subseteq level[k + 1]
                      /\ Closed(level[k + 1]) \/ Cardinality(level[k + 1]) >= k + 1
    OBVIOUS
  <2>1. k \in 0 .. last - 1 /\ k \in 0 .. last /\ k + 1 \in 0 .. last
    OBVIOUS
  <2>2. DepsIn(cfg, n) \subseteq level[k] /\ (Closed(level[k]) \/ Cardinality(level[k]) >= k)
    BY <1>6
  <2>3. PICK S : S = level[k]
    OBVIOUS
  <2>4. PICK T : T = level[k + 1]
    OBVIOUS
  <2>5. T = S \union UNION {DepsIn(cfg, r) : r \in S}
    BY <1>3, <2>1, <2>3, <2>4
  <2>6. CASE Closed(S)
    <3>1. T = S
      BY <2>5, <2>6
    <3> QED BY <2>2, <2>3, <2>4, <2>6, <3>1
  <2>7. CASE ~Closed(S)
    <3>1. S \subseteq T /\ S # T
      BY <2>5, <2>7
    <3>2. /\ IsFiniteSet(S) /\ IsFiniteSet(T)
      BY <1>4, <2>1, <2>3, <2>4
    <3>3. PICK c, d \in Nat : c = Cardinality(S) /\ d = Cardinality(T)
      BY <3>2, FS_CardinalityType
    <3>4. c < d
      BY <3>1, <3>2, <3>3, FS_Subset
    <3>5. c >= k
      BY <2>2, <2>3, <2>7, <3>3
    <3>6. d >= k + 1
      BY <3>4, <3>5
    <3>7. DepsIn(cfg, n) \subseteq T
      BY <2>2, <2>3, <3>1
    <3> QED BY <2>4, <3>3, <3>6, <3>7
  <2> QED BY <2>6, <2>7
<1>7. Nat \subseteq P
  <2> HIDE DEF P
  <2> QED BY <1>5, <1>6, NatSetInduction
<1>8. DepsIn(cfg, n) \subseteq level[last] /\ (Closed(level[last]) \/ Cardinality(level[last]) >= last)
  BY <1>7
<1>9. level[last] \subseteq RouterNames /\ IsFiniteSet(level[last]) /\ Cardinality(level[last]) \in Nat
  BY <1>4
<1>10. CASE Cardinality(level[last]) >= last
  <2>1. PICK c \in Nat : c = Cardinality(level[last])
    BY <1>9
  <2>2. Cardinality(level[last]) <= Cardinality(RouterNames)
    BY <1>9, RouterConstants, FS_Subset
  <2>3. c = last
    BY <1>1, <1>10, <2>1, <2>2
  <2>4. level[last] = RouterNames
    BY <1>1, <1>9, <2>1, <2>3, RouterConstants, FS_Subset
  <2> QED BY <1>2, <1>8, <2>4, DepsNamed
<1> QED BY <1>2, <1>8, <1>9, <1>10

\* Along the calls each router is one that the earlier ones are made of.
LEMMA CallsNeeded ==
  ASSUME NEW cfg \in RouterConfigs, NEW fs \in Seq(FrameSet), NEW done, NEW seen, FramesOk(fs, cfg, done, seen)
  PROVE  \A i, j \in 1 .. Len(fs) : i < j => fs[j].name \in NeedsIn(cfg, fs[i].name)
<1>1. PICK l \in Nat : l = Len(fs)
  OBVIOUS
<1>2. \A i \in 1 .. l : fs[i].name \in RouterNames
  <2> TAKE i \in 1 .. l
  <2>1. fs[i] \in FrameSet
    BY <1>1
  <2> QED BY <2>1 DEF FrameSet
<1>3. \A i \in 1 .. l - 1 : fs[i + 1].name \in DepsIn(cfg, fs[i].name)
  BY <1>1 DEF FramesOk, FramesIn
<1> DEFINE P == {d \in Nat : \A i \in 1 .. l : i + d + 1 <= l => fs[i + d + 1].name \in NeedsIn(cfg, fs[i].name)}
<1>4. 0 \in P
  <2>1. ASSUME NEW i \in 1 .. l, i + 0 + 1 <= l PROVE fs[i + 0 + 1].name \in NeedsIn(cfg, fs[i].name)
    <3>1. i \in 1 .. l - 1 /\ i + 0 + 1 = i + 1
      BY <2>1
    <3>2. fs[i + 1].name \in DepsIn(cfg, fs[i].name)
      BY <1>3, <3>1
    <3> QED BY <1>2, <3>1, <3>2, NeedsClosed
  <2> QED BY <2>1
<1>5. ASSUME NEW d \in Nat, d \in P PROVE d + 1 \in P
  <2>1. ASSUME NEW i \in 1 .. l, i + (d + 1) + 1 <= l PROVE fs[i + (d + 1) + 1].name \in NeedsIn(cfg, fs[i].name)
    <3>1. PICK k \in 1 .. l - 1 : k = i + d + 1
      BY <2>1
    <3>2. k \in 1 .. l /\ k + 1 \in 1 .. l /\ i + (d + 1) + 1 = k + 1
      BY <3>1
    <3>3. fs[k].name \in NeedsIn(cfg, fs[i].name)
      BY <1>5, <3>1, <3>2
    <3>4. fs[k + 1].name \in DepsIn(cfg, fs[k].name)
      BY <1>3, <3>1
    <3>5. fs[k + 1].name \in NeedsIn(cfg, fs[i].name)
      BY <1>2, <3>3, <3>4, NeedsClosed
    <3> QED BY <3>2, <3>5
  <2> QED BY <2>1
<1>6. Nat \subseteq P
  <2> HIDE DEF P
  <2> QED BY <1>4, <1>5, NatSetInduction
<1>7. ASSUME NEW i \in 1 .. l, NEW j \in 1 .. l, i < j PROVE fs[j].name \in NeedsIn(cfg, fs[i].name)
  <2>1. PICK d \in Nat : d = j - i - 1
    BY <1>7
  <2>2. i + d + 1 = j /\ i + d + 1 <= l
    BY <2>1
  <2>3. d \in P
    BY <1>6
  <2>4. fs[i + d + 1].name \in NeedsIn(cfg, fs[i].name)
    BY <2>2, <2>3
  <2> QED BY <2>2, <2>4
<1> QED BY <1>1, <1>7

\* The calls without the last, and with others in its place.
LEMMA FramesBelowIs ==
  ASSUME NEW l \in Nat, frames \in Seq(FrameSet), Len(frames) = l + 1
  PROVE  /\ Top = frames[l + 1] /\ Top \in FrameSet
         /\ FramesBelow \in Seq(FrameSet) /\ Len(FramesBelow) = l
         /\ \A i \in 1 .. l : FramesBelow[i] = frames[i] /\ frames[i] \in FrameSet
<1>1. PICK b \in Nat : b = l
  OBVIOUS
<1>2. FramesBelow = SubSeq(frames, 1, b)
  BY <1>1 DEF FramesBelow
<1>3. 1 \in 1 .. Len(frames) + 1 /\ b \in 1 - 1 .. Len(frames)
  BY <1>1
<1>4. /\ SubSeq(frames, 1, b) \in Seq(FrameSet) /\ Len(SubSeq(frames, 1, b)) = b
      /\ \A i \in 1 .. b : SubSeq(frames, 1, b)[i] = frames[i]
  <2>1. /\ SubSeq(frames, 1, b) \in Seq(FrameSet)
        /\ Len(SubSeq(frames, 1, b)) = IF 1 <= b THEN b - 1 + 1 ELSE 0
        /\ \A i \in 1 .. b - 1 + 1 : SubSeq(frames, 1, b)[i] = frames[1 + i - 1]
    BY <1>3, SubSeqProperties
  <2> QED BY <2>1
<1>5. Top = frames[l + 1] /\ Top \in FrameSet
  BY DEF Top
<1> QED BY <1>1, <1>2, <1>4, <1>5

LEMMA FramesWith ==
  ASSUME NEW l \in Nat, NEW fs \in Seq(FrameSet), Len(fs) = l, NEW f \in FrameSet
  PROVE  \E gs \in Seq(FrameSet) : gs = Append(fs, f) /\ Len(gs) = l + 1 /\ gs[l + 1] = f /\ \A i \in 1 .. l : gs[i] = fs[i]
<1>1. PICK gs : gs = Append(fs, f)
  OBVIOUS
<1> QED BY <1>1, AppendProperties

LEMMA LastAdded ==
  ASSUME NEW U, NEW s \in Seq(U), NEW e \in U
  PROVE  /\ s \o <<e>> \in Seq(U) /\ Len(s \o <<e>>) = Len(s) + 1 /\ (s \o <<e>>)[Len(s) + 1] = e
         /\ \A i \in 1 .. Len(s) : (s \o <<e>>)[i] = s[i]
<1>1. <<e>> \in Seq(U) /\ Len(<<e>>) = 1 /\ <<e>>[1] = e
  OBVIOUS
<1>2. Len(s) \in Nat
  OBVIOUS
<1>3. /\ s \o <<e>> \in Seq(U) /\ Len(s \o <<e>>) = Len(s) + Len(<<e>>)
      /\ \A i \in 1 .. Len(s) + Len(<<e>>) : (s \o <<e>>)[i] = IF i <= Len(s) THEN s[i] ELSE <<e>>[i - Len(s)]
  BY <1>1, ConcatProperties
<1> QED BY <1>1, <1>2, <1>3

\* The innermost call ends: its router is there.
LEMMA FramesReturn ==
  ASSUME NEW l \in Nat, frames \in Seq(FrameSet), Len(frames) = l + 1, NEW cfg, NEW done, NEW seen,
         FramesOk(frames, cfg, done, seen), Top.begun = TRUE \/ Top.name \in done
  PROVE  FramesOk(FramesBelow, cfg, done \union {Top.name}, seen)
<1>1. PICK fs \in Seq(FrameSet) : fs = FramesBelow /\ Len(fs) = l /\ \A i \in 1 .. l : fs[i] = frames[i]
  BY FramesBelowIs
<1>2. PICK f \in FrameSet : f = Top /\ f = frames[l + 1]
  BY FramesBelowIs
<1>3. PICK fin : fin = done \union {f.name}
  OBVIOUS
<1>4. \A i \in 1 .. l : i \in 1 .. l + 1 /\ i < l + 1 /\ i # l + 1
  OBVIOUS
<1>5. \A i \in 1 .. l - 1 : fs[i].begun = TRUE /\ fs[i + 1].name \in DepsIn(cfg, fs[i].name)
  <2> TAKE i \in 1 .. l - 1
  <2>1. i \in 1 .. l /\ i + 1 \in 1 .. l /\ i \in 1 .. (l + 1) - 1
    OBVIOUS
  <2> QED BY <1>1, <2>1 DEF FramesOk, FramesIn
<1>6. \A i \in 1 .. l : fs[i].begun = TRUE => FrameOk(fs[i], cfg, fin, seen)
  <2> TAKE i \in 1 .. l
  <2> SUFFICES ASSUME fs[i].begun = TRUE PROVE FrameOk(fs[i], cfg, fin, seen)
    OBVIOUS
  <2>1. FrameOk(fs[i], cfg, done, seen)
    BY <1>1, <1>4 DEF FramesOk, FramesIn
  <2>2. fs[i].name # f.name
    <3>1. CASE f.name \in done
      BY <2>1, <3>1 DEF FrameOk
    <3>2. CASE f.begun = TRUE
      BY <1>1, <1>2, <1>4, <3>2, l + 1 \in 1 .. l + 1 DEF FramesOk, FramesIn
    <3> QED BY <1>2, <3>1, <3>2
  <2> QED BY <1>3, <2>1, <2>2 DEF FrameOk
<1>7. \A i \in 1 .. l : fs[i].begun = TRUE =>
        \A r \in DepsIn(cfg, fs[i].name) : r \in fin \/ Waits(fs[i], r) \/ (i < l /\ fs[i + 1].name = r)
  <2> TAKE i \in 1 .. l
  <2> SUFFICES ASSUME fs[i].begun = TRUE, NEW r \in DepsIn(cfg, fs[i].name)
               PROVE  r \in fin \/ Waits(fs[i], r) \/ (i < l /\ fs[i + 1].name = r)
    OBVIOUS
  <2>1. r \in done \/ Waits(fs[i], r) \/ frames[i + 1].name = r
    BY <1>1, <1>4 DEF FramesOk, FramesIn
  <2>2. CASE i = l
    BY <1>2, <1>3, <2>1, <2>2
  <2>3. CASE i # l
    <3>1. i < l /\ i + 1 \in 1 .. l
      BY <2>3
    <3> QED BY <1>1, <1>3, <2>1, <3>1
  <2> QED BY <2>2, <2>3
<1>8. \A i, j \in 1 .. l : fs[i].begun = TRUE /\ fs[j].begun = TRUE /\ fs[i].name = fs[j].name => i = j
  BY <1>1, <1>4 DEF FramesOk, FramesIn
<1>9. \A r \in seen : r \in fin \/ \E i \in 1 .. l : fs[i].begun = TRUE /\ fs[i].name = r
  <2> TAKE r \in seen
  <2>1. r \in done \/ \E i \in 1 .. l + 1 : frames[i].begun = TRUE /\ frames[i].name = r
    BY DEF FramesOk, FramesIn
  <2>2. \A i \in 1 .. l + 1 : i = l + 1 \/ i \in 1 .. l
    OBVIOUS
  <2> QED BY <1>1, <1>2, <1>3, <2>1, <2>2
<1>10. FramesOk(fs, cfg, fin, seen)
  BY <1>1, <1>5, <1>6, <1>7, <1>8, <1>9 DEF FramesOk, FramesIn
<1> QED BY <1>1, <1>2, <1>3, <1>10

\* A router is begun: it was neither there nor visited.
LEMMA FramesBegin ==
  ASSUME NEW l \in Nat, frames \in Seq(FrameSet), Len(frames) = l + 1, NEW cfg, NEW done, NEW seen,
         FramesOk(frames, cfg, done, seen), Top.begun # TRUE, Top.name \notin done \union seen,
         cfg[Top.name].type # "absent", NEW g \in FrameSet, g.name = Top.name, g.begun = TRUE, g.needs = cfg[Top.name].deps
  PROVE  FramesOk(Append(FramesBelow, g), cfg, done, seen \union {Top.name})
<1>1. PICK fs \in Seq(FrameSet) : fs = FramesBelow /\ Len(fs) = l /\ \A i \in 1 .. l : fs[i] = frames[i]
  BY FramesBelowIs
<1>2. PICK f \in FrameSet : f = Top /\ f = frames[l + 1]
  BY FramesBelowIs
<1>3. PICK gs \in Seq(FrameSet) : gs = Append(fs, g) /\ Len(gs) = l + 1 /\ gs[l + 1] = g /\ \A i \in 1 .. l : gs[i] = frames[i]
  <2>1. PICK gs \in Seq(FrameSet) : gs = Append(fs, g) /\ Len(gs) = l + 1 /\ gs[l + 1] = g /\ \A i \in 1 .. l : gs[i] = fs[i]
    BY <1>1, FramesWith, ZenonT(60)
  <2> QED BY <1>1, <2>1
<1>4. PICK now : now = seen \union {f.name}
  OBVIOUS
<1>5. (\A i \in 1 .. l : i \in 1 .. l + 1 /\ i < l + 1 /\ i # l + 1) /\ (\A i \in 1 .. l + 1 : i \in 1 .. l \/ i = l + 1)
        /\ l + 1 \in 1 .. l + 1 /\ (\A i \in 1 .. (l + 1) - 1 : i \in 1 .. l) /\ (\A i \in 1 .. l : i + 1 \in 1 .. l \/ i + 1 = l + 1)
  OBVIOUS
<1>6. \A i \in 1 .. l : gs[i + 1].name = frames[i + 1].name
  BY <1>2, <1>3, <1>5
<1>7. \A i \in 1 .. (l + 1) - 1 : gs[i].begun = TRUE /\ gs[i + 1].name \in DepsIn(cfg, gs[i].name)
  BY <1>3, <1>5, <1>6 DEF FramesOk, FramesIn
<1>8. \A i \in 1 .. l : gs[i].begun = TRUE =>
        /\ FrameOk(gs[i], cfg, done, now)
        /\ \A r \in DepsIn(cfg, gs[i].name) : r \in done \/ Waits(gs[i], r) \/ (i < l + 1 /\ gs[i + 1].name = r)
  <2> TAKE i \in 1 .. l
  <2> SUFFICES ASSUME gs[i].begun = TRUE
               PROVE  /\ FrameOk(gs[i], cfg, done, now)
                      /\ \A r \in DepsIn(cfg, gs[i].name) : r \in done \/ Waits(gs[i], r) \/ (i < l + 1 /\ gs[i + 1].name = r)
    OBVIOUS
  <2>1. FrameOk(gs[i], cfg, done, seen)
    BY <1>3, <1>5 DEF FramesOk, FramesIn
  <2>2. FrameOk(gs[i], cfg, done, now)
    BY <1>4, <2>1 DEF FrameOk
  <2> QED BY <1>3, <1>5, <1>6, <2>2 DEF FramesOk, FramesIn
<1>9. /\ FrameOk(g, cfg, done, now)
      /\ \A r \in DepsIn(cfg, g.name) : r \in done \/ Waits(g, r) \/ (l + 1 < l + 1 /\ gs[(l + 1) + 1].name = r)
  <2>1. FrameOk(g, cfg, done, now)
    BY <1>2, <1>4 DEF FrameOk
  <2>2. \A r \in DepsIn(cfg, g.name) : Waits(g, r)
    BY <1>2 DEF DepsIn, Waits
  <2> QED BY <2>1, <2>2
<1>10. \A i \in 1 .. l : gs[i].begun = TRUE => gs[i].name # g.name
  <2> TAKE i \in 1 .. l
  <2> SUFFICES ASSUME gs[i].begun = TRUE PROVE gs[i].name # g.name
    OBVIOUS
  <2>1. FrameOk(gs[i], cfg, done, seen)
    BY <1>3, <1>5 DEF FramesOk, FramesIn
  <2> QED BY <2>1 DEF FrameOk
<1>11. \A i, j \in 1 .. l + 1 : gs[i].begun = TRUE /\ gs[j].begun = TRUE /\ gs[i].name = gs[j].name => i = j
  <2>1. \A i, j \in 1 .. l : gs[i].begun = TRUE /\ gs[j].begun = TRUE /\ gs[i].name = gs[j].name => i = j
    BY <1>3, <1>5 DEF FramesOk, FramesIn
  <2> QED BY <1>3, <1>5, <1>10, <2>1
<1>12. \A r \in now : r \in done \/ \E i \in 1 .. l + 1 : gs[i].begun = TRUE /\ gs[i].name = r
  <2> TAKE r \in now
  <2>1. CASE r = f.name
    BY <1>2, <1>3, <1>5, <2>1
  <2>2. CASE r \in seen
    <3>1. r \in done \/ \E i \in 1 .. l + 1 : frames[i].begun = TRUE /\ frames[i].name = r
      BY <2>2 DEF FramesOk, FramesIn
    <3> QED BY <1>2, <1>3, <1>5, <3>1
  <2> QED BY <1>4, <2>1, <2>2
<1>13. FramesOk(gs, cfg, done, now)
  <2>1. \A i \in 1 .. l + 1 : gs[i].begun = TRUE =>
          /\ FrameOk(gs[i], cfg, done, now)
          /\ \A r \in DepsIn(cfg, gs[i].name) : r \in done \/ Waits(gs[i], r) \/ (i < l + 1 /\ gs[i + 1].name = r)
    BY <1>3, <1>5, <1>8, <1>9
  <2>2. FramesIn(gs, l + 1, cfg, done, now)
    BY <1>7, <1>11, <1>12, <2>1 DEF FramesIn
  <2> QED BY <1>3, <2>2 DEF FramesOk
<1> QED BY <1>1, <1>2, <1>3, <1>4, <1>13

\* The next router that a composed one is made of.
LEMMA FramesNeed ==
  ASSUME NEW l \in Nat, frames \in Seq(FrameSet), Len(frames) = l + 1, NEW cfg, NEW done, NEW seen,
         FramesOk(frames, cfg, done, seen), Top.begun = TRUE, Top.needs # <<>>, cfg[Top.name].type \in Composite,
         NEW g \in FrameSet, g.name = Top.name, g.begun = TRUE, g.needs = Tail(Top.needs),
         NEW k \in FrameSet, k.name = Head(Top.needs), k.begun # TRUE
  PROVE  FramesOk(Append(Append(FramesBelow, g), k), cfg, done, seen)
<1>1. PICK fs \in Seq(FrameSet) : fs = FramesBelow /\ Len(fs) = l /\ \A i \in 1 .. l : fs[i] = frames[i]
  BY FramesBelowIs
<1>2. PICK f \in FrameSet : f = Top /\ f = frames[l + 1]
  BY FramesBelowIs
<1>3. PICK gs \in Seq(FrameSet) :
        gs = Append(Append(fs, g), k) /\ Len(gs) = l + 2 /\ gs[l + 2] = k /\ gs[l + 1] = g /\ \A i \in 1 .. l : gs[i] = frames[i]
  <2>1. PICK hs \in Seq(FrameSet) : hs = Append(fs, g) /\ Len(hs) = l + 1 /\ hs[l + 1] = g /\ \A i \in 1 .. l : hs[i] = fs[i]
    BY <1>1, FramesWith
  <2>2. PICK m \in Nat : m = l + 1
    OBVIOUS
  <2>3. PICK gs \in Seq(FrameSet) : gs = Append(hs, k) /\ Len(gs) = m + 1 /\ gs[m + 1] = k /\ \A i \in 1 .. m : gs[i] = hs[i]
    BY <2>1, <2>2, FramesWith, ZenonT(60)
  <2>4. m + 1 = l + 2 /\ m \in 1 .. m /\ \A i \in 1 .. l : i \in 1 .. m
    BY <2>2
  <2> QED BY <1>1, <2>1, <2>2, <2>3, <2>4, SMTT(30)
<1>4. (\A i \in 1 .. l : i \in 1 .. l + 1 /\ i < l + 1 /\ i < l + 2 /\ i # l + 1) /\ (\A i \in 1 .. l + 1 : i \in 1 .. l \/ i = l + 1)
        /\ l + 1 \in 1 .. l + 1 /\ l + 1 \in 1 .. l + 2 /\ l + 1 < l + 2 /\ (l + 1) + 1 = l + 2
        /\ (\A i \in 1 .. (l + 2) - 1 : i \in 1 .. l \/ i = l + 1)
        /\ (\A i \in 1 .. l : i + 1 \in 1 .. l \/ i + 1 = l + 1) /\ (\A i \in 1 .. l : i \in 1 .. (l + 1) - 1 /\ i \in 1 .. l + 2)
        /\ (\A i \in 1 .. l + 2 : i \in 1 .. l \/ i = l + 1 \/ i = l + 2)
  OBVIOUS
<1>5. \A i \in 1 .. l : gs[i + 1].name = frames[i + 1].name
  BY <1>2, <1>3, <1>4
\* The first of its needs, and the others.
<1>6. PICK n \in Nat : Len(f.needs) = n + 1 /\ f.needs \in Seq(RouterNames)
  <2>1. PICK q \in Seq(RouterNames) : q = f.needs /\ q # <<>>
    BY <1>2 DEF FrameSet
  <2>2. Len(q) \in Nat /\ Len(q) # 0
    BY <2>1
  <2>3. Len(q) - 1 \in Nat /\ Len(q) = (Len(q) - 1) + 1
    BY <2>2
  <2> QED BY <2>1, <2>3
<1>7. /\ k.name = f.needs[1] /\ Len(g.needs) = n /\ DOMAIN g.needs = 1 .. n /\ DOMAIN f.needs = 1 .. n + 1
      /\ \A h \in 1 .. n : g.needs[h] = f.needs[h + 1]
  <2>1. f.needs # <<>>
    BY <1>2
  <2>2. /\ Tail(f.needs) \in Seq(RouterNames) /\ Len(Tail(f.needs)) = n
        /\ \A h \in 1 .. n : Tail(f.needs)[h] = f.needs[h + 1]
    BY <1>6, <2>1, HeadTailProperties
  <2> QED BY <1>2, <1>6, <2>2
<1>8. FrameOk(f, cfg, done, seen) /\ \A r \in DepsIn(cfg, f.name) : r \in done \/ Waits(f, r)
  <2>1. /\ FrameOk(f, cfg, done, seen)
        /\ \A r \in DepsIn(cfg, f.name) : r \in done \/ Waits(f, r) \/ (l + 1 < l + 1 /\ frames[(l + 1) + 1].name = r)
    BY <1>2, <1>4 DEF FramesOk, FramesIn
  <2> QED BY <2>1
<1>9. k.name \in DepsIn(cfg, f.name)
  <2>1. 1 \in DOMAIN f.needs
    BY <1>7
  <2>2. PICK d \in DOMAIN cfg[f.name].deps : f.needs[1] = cfg[f.name].deps[d]
    BY <1>8, <2>1 DEF FrameOk
  <2>3. f.needs[1] \in {cfg[f.name].deps[i] : i \in DOMAIN cfg[f.name].deps}
    BY <2>2
  <2>4. cfg[f.name].type \in Composite
    BY <1>2
  <2> QED BY <1>7, <2>3, <2>4, Zenon DEF DepsIn
<1>10. FrameOk(g, cfg, done, seen)
  <2>1. \A h \in 1 .. n : h + 1 \in 1 .. n + 1
    OBVIOUS
  <2>2. \A h \in DOMAIN g.needs : \E d \in DOMAIN cfg[g.name].deps : g.needs[h] = cfg[g.name].deps[d]
    <3> TAKE h \in DOMAIN g.needs
    <3>1. h + 1 \in DOMAIN f.needs /\ g.needs[h] = f.needs[h + 1]
      BY <1>7, <2>1
    <3>2. PICK d \in DOMAIN cfg[f.name].deps : f.needs[h + 1] = cfg[f.name].deps[d]
      BY <1>8, <3>1 DEF FrameOk
    <3>3. g.name = f.name
      BY <1>2
    <3> QED BY <3>1, <3>2, <3>3
  <2> QED BY <1>2, <1>8, <2>2 DEF FrameOk
<1>11. \A r \in DepsIn(cfg, g.name) : r \in done \/ Waits(g, r) \/ k.name = r
  <2> TAKE r \in DepsIn(cfg, g.name)
  <2> SUFFICES ASSUME NEW h \in 1 .. n + 1, f.needs[h] = r PROVE Waits(g, r) \/ k.name = r
    BY <1>2, <1>7, <1>8 DEF Waits
  <2>1. CASE h = 1
    BY <1>7, <2>1
  <2>2. CASE h # 1
    <3>1. h - 1 \in 1 .. n /\ (h - 1) + 1 = h
      BY <2>2
    <3>2. g.needs[h - 1] = r
      BY <1>7, <3>1
    <3> QED BY <1>7, <3>1, <3>2 DEF Waits
  <2> QED BY <2>1, <2>2
<1>12. \A i \in 1 .. (l + 2) - 1 : gs[i].begun = TRUE /\ gs[i + 1].name \in DepsIn(cfg, gs[i].name)
  <2> TAKE i \in 1 .. (l + 2) - 1
  <2>1. CASE i \in 1 .. l
    BY <1>3, <1>4, <1>5, <2>1 DEF FramesOk, FramesIn
  <2>2. CASE i = l + 1
    BY <1>2, <1>3, <1>4, <1>9, <2>2
  <2> QED BY <1>4, <2>1, <2>2
<1>13. \A i \in 1 .. l + 2 : gs[i].begun = TRUE =>
        /\ FrameOk(gs[i], cfg, done, seen)
        /\ \A r \in DepsIn(cfg, gs[i].name) : r \in done \/ Waits(gs[i], r) \/ (i < l + 2 /\ gs[i + 1].name = r)
  <2> TAKE i \in 1 .. l + 2
  <2>1. CASE i \in 1 .. l
    BY <1>3, <1>4, <1>5, <2>1 DEF FramesOk, FramesIn
  <2>2. CASE i = l + 1
    BY <1>3, <1>4, <1>10, <1>11, <2>2
  <2>3. CASE i = l + 2
    BY <1>3, <2>3
  <2> QED BY <1>4, <2>1, <2>2, <2>3
<1>14. \A i \in 1 .. l + 2 : gs[i].begun = TRUE => i \in 1 .. l + 1 /\ frames[i].begun = TRUE /\ frames[i].name = gs[i].name
  <2> TAKE i \in 1 .. l + 2
  <2>1. CASE i \in 1 .. l
    BY <1>3, <1>4, <2>1
  <2>2. CASE i = l + 1
    BY <1>2, <1>3, <1>4, <2>2
  <2>3. CASE i = l + 2
    BY <1>3, <2>3
  <2> QED BY <1>4, <2>1, <2>2, <2>3
<1>15. \A i, j \in 1 .. l + 2 : gs[i].begun = TRUE /\ gs[j].begun = TRUE /\ gs[i].name = gs[j].name => i = j
  BY <1>14 DEF FramesOk, FramesIn
<1>16. \A r \in seen : r \in done \/ \E i \in 1 .. l + 2 : gs[i].begun = TRUE /\ gs[i].name = r
  <2> TAKE r \in seen
  <2>1. r \in done \/ \E i \in 1 .. l + 1 : frames[i].begun = TRUE /\ frames[i].name = r
    BY DEF FramesOk, FramesIn
  <2>2. \A i \in 1 .. l + 1 : i \in 1 .. l + 2 /\ (frames[i].begun = TRUE => gs[i].begun = TRUE /\ gs[i].name = frames[i].name)
    <3> TAKE i \in 1 .. l + 1
    <3>1. CASE i \in 1 .. l
      BY <1>3, <1>4, <3>1
    <3>2. CASE i = l + 1
      BY <1>2, <1>3, <1>4, <3>2
    <3> QED BY <1>4, <3>1, <3>2
  <2> QED BY <2>1, <2>2
<1>17. FramesIn(gs, l + 2, cfg, done, seen)
  BY <1>12, <1>13, <1>15, <1>16 DEF FramesIn
<1> QED BY <1>1, <1>3, <1>17 DEF FramesOk

\* One more router that is there.
LEMMA RouterDone ==
  ASSUME NEW cfg \in RouterConfigs, NEW done, NEW built, DoneOk(done, built, cfg), NEW n \in RouterNames, n \notin done,
         DepsIn(cfg, n) \subseteq done, ~BadType(cfg[n].type)
  PROVE  DoneOk(done \union {n}, [built EXCEPT ![n] = @ + 1], cfg)
<1>1. NeedsIn(cfg, n) \subseteq done
  BY NeedsLeast DEF DoneOk
<1>2. built = [r \in RouterNames |-> IF r \in done THEN 1 ELSE 0]
  BY DEF DoneOk
<1>3. [built EXCEPT ![n] = @ + 1] = [r \in RouterNames |-> IF r \in done \union {n} THEN 1 ELSE 0]
  BY <1>2
<1> QED BY <1>1, <1>3 DEF DoneOk

\* Parse gives up only on a router that cannot be built, or is made of itself.
LEMMA GivesUpRightly ==
  ASSUME ParseInv, NEW l \in Nat, Len(frames) = l + 1,
         \/ BadType(routersCfg[Top.name].type)
         \/ Top.begun # TRUE /\ Top.name \in visited \ created
  PROVE  CannotBuild(routersCfg, methods)
<1>1. PICK cfg \in RouterConfigs : cfg = routersCfg
  BY DEF ParseInv
<1>2. PICK fs \in Seq(FrameSet) : fs = frames /\ FramesOk(fs, cfg, created, visited) /\ Len(fs) = l + 1
  BY <1>1 DEF ParseInv
<1>3. fs[1].method \in DOMAIN methods /\ fs[1].name = methods[fs[1].method]
  <2>1. fs # <<>>
    BY <1>2
  <2> QED BY <1>2, <2>1 DEF ParseInv, MethodsOk
<1>4. PICK f \in FrameSet : f = Top /\ f = fs[l + 1]
  BY <1>2, FramesBelowIs
<1>5. l + 1 \in 1 .. l + 1 /\ 1 \in 1 .. l + 1 /\ (l + 1 = 1 \/ 1 < l + 1) /\ \A i \in 1 .. l + 1 : i = l + 1 \/ i < l + 1
  OBVIOUS
<1>6. f.name \in {fs[1].name} \union NeedsIn(cfg, fs[1].name)
  BY <1>2, <1>4, <1>5, CallsNeeded
<1>7. CASE BadType(cfg[f.name].type)
  BY <1>1, <1>3, <1>6, <1>7 DEF CannotBuild
<1>8. CASE f.begun # TRUE /\ f.name \in visited \ created
  <2>1. PICK i \in 1 .. l + 1 : fs[i].begun = TRUE /\ fs[i].name = f.name
    BY <1>2, <1>8 DEF FramesOk, FramesIn
  <2>2. i < l + 1
    BY <1>4, <1>5, <1>8, <2>1
  <2>3. f.name \in NeedsIn(cfg, f.name)
    BY <1>2, <1>4, <1>5, <2>1, <2>2, CallsNeeded
  <2> QED BY <1>1, <1>3, <1>6, <2>3 DEF CannotBuild
<1> QED BY <1>1, <1>4, <1>7, <1>8

LEMMA ParseInits == ParseInit => ParseInv
<1> SUFFICES ASSUME ParseInit PROVE ParseInv
  OBVIOUS
<1>1. /\ frames = <<>> /\ visited = {} /\ created = {} /\ finalRouter = <<>> /\ todoMethods = DOMAIN methods
      /\ parseOut = "check" /\ routersCfg \in RouterConfigs /\ methods \in MethodConfigs /\ asked = <<>>
      /\ builds = [n \in RouterNames |-> 0]
  BY DEF ParseInit
<1>2. <<>> \in Seq(FrameSet) /\ Len(<<>>) = 0 /\ <<>> \in Seq(MethodNameList \X RouterNames) /\ DOMAIN <<>> = {}
  OBVIOUS
<1>3. FramesOk(<<>>, routersCfg, {}, {})
  BY <1>2 DEF FramesOk, FramesIn
<1>4. DoneOk({}, builds, routersCfg)
  BY <1>1 DEF DoneOk
<1>5. MethodsOk(<<>>, DOMAIN methods, {}, <<>>, methods)
  BY <1>2 DEF MethodsOk
<1> QED BY <1>1, <1>2, <1>3, <1>4, <1>5 DEF ParseInv, CallsNamed

\* The end of a call: to the router that needs it, or to the method.
LEMMA ReturnsKeep ==
  ASSUME ParseInv, NEW l \in Nat, Len(frames) = l + 1, Top.begun = TRUE \/ Top.name \in created, ParseReturns,
         NEW done, done = created \union {Top.name}
  PROVE  /\ FramesOk(frames', routersCfg, done, visited) /\ frames' \in Seq(FrameSet)
         /\ finalRouter' \in Seq(MethodNameList \X RouterNames) /\ MethodsOk(frames', todoMethods, done, finalRouter', methods)
<1>1. PICK fs \in Seq(FrameSet) : fs = frames' /\ Len(fs) = l /\ \A i \in 1 .. l : fs[i] = frames[i]
  BY FramesBelowIs DEF ParseReturns, ParseInv
<1>2. PICK f \in FrameSet : f = Top /\ f = frames[l + 1]
  BY FramesBelowIs DEF ParseInv
<1>3. FramesOk(fs, routersCfg, done, visited)
  BY <1>1, FramesReturn DEF ParseReturns, ParseInv
<1>4. frames[1].method \in DOMAIN methods /\ frames[1].name = methods[frames[1].method]
  <2>1. frames # <<>>
    OBVIOUS
  <2> QED BY <2>1 DEF ParseInv, MethodsOk
<1>5. fs # <<>> => fs[1].method \in DOMAIN methods /\ fs[1].name = methods[fs[1].method]
  <2>1. fs # <<>> => 1 \in 1 .. l
    BY <1>1
  <2> QED BY <1>1, <1>4, <2>1
<1>6. \A m \in DOMAIN methods : m \in todoMethods \/ methods[m] \in done \/ (fs # <<>> /\ fs[1].method = m)
  <2> TAKE m \in DOMAIN methods
  <2>1. m \in todoMethods \/ methods[m] \in created \/ frames[1].method = m
    BY DEF ParseInv, MethodsOk
  <2>2. CASE l = 0
    BY <1>2, <1>4, <2>1, <2>2
  <2>3. CASE l # 0
    <3>1. fs # <<>> /\ 1 \in 1 .. l
      BY <1>1, <2>3
    <3> QED BY <1>1, <2>1, <3>1
  <2> QED BY <2>2, <2>3
<1>7. /\ finalRouter' \in Seq(MethodNameList \X RouterNames)
      /\ \A i \in DOMAIN finalRouter' : finalRouter'[i][2] = methods[finalRouter'[i][1]]
  <2>1. /\ finalRouter \in Seq(MethodNameList \X RouterNames)
        /\ \A i \in DOMAIN finalRouter : finalRouter[i][2] = methods[finalRouter[i][1]]
    BY DEF ParseInv, MethodsOk
  <2>2. CASE l # 0
    BY <2>1, <2>2 DEF ParseReturns
  <2>3. CASE l = 0
    <3>1. PICK e \in MethodNameList \X RouterNames : e = <<f.method, f.name>> /\ e[1] = f.method /\ e[2] = f.name
      <4>1. f.method \in MethodNameList /\ f.name \in RouterNames
        BY <1>2 DEF FrameSet
      <4>2. PICK m \in MethodNameList, n \in RouterNames : m = f.method /\ n = f.name
        BY <4>1
      <4>3. <<m, n>> \in MethodNameList \X RouterNames /\ <<m, n>>[1] = m /\ <<m, n>>[2] = n
        OBVIOUS
      <4>4. <<m, n>> = <<f.method, f.name>>
        BY <4>2
      <4> QED BY <4>2, <4>3, <4>4, Zenon
    <3>2. e[2] = methods[e[1]]
      BY <1>2, <1>4, <2>3, <3>1
    <3>3. finalRouter' = finalRouter \o <<e>>
      BY <1>2, <2>3, <3>1 DEF ParseReturns
    <3>4. PICK n \in Nat : n = Len(finalRouter) /\ DOMAIN finalRouter = 1 .. n
      BY <2>1
    <3>5. PICK t : t = finalRouter'
      OBVIOUS
    <3>6. /\ t \in Seq(MethodNameList \X RouterNames) /\ Len(t) = n + 1 /\ t[n + 1] = e
          /\ \A i \in 1 .. n : t[i] = finalRouter[i]
      BY <2>1, <3>3, <3>4, <3>5, LastAdded
    <3>7. DOMAIN t = 1 .. n + 1
      BY <3>6
    <3>8. \A i \in DOMAIN t : t[i][2] = methods[t[i][1]]
      BY <2>1, <3>2, <3>4, <3>6, <3>7, OneMoreIndex
    <3> QED BY <3>5, <3>6, <3>8
  <2> QED BY <2>2, <2>3
<1> QED BY <1>1, <1>3, <1>5, <1>6, <1>7 DEF MethodsOk

LEMMA ParseSteps ==
  ASSUME ParseInv, [ParseNext]_prVars
  PROVE  ParseInv'
<1> USE DEF ConfigAsIs
<1>0. PICK cfg \in RouterConfigs : cfg = routersCfg
  BY DEF ParseInv
<1>1. CASE UNCHANGED prVars
  BY <1>1 DEF prVars, ParseInv, CallsNamed
\* Parse gives up, with a reason.
<1>2. ASSUME ParseFails, UNCHANGED <<routersCfg, methods, asked>>, CannotBuild(routersCfg, methods) PROVE ParseInv'
  BY <1>2 DEF ParseFails, ParseInv, CallsNamed
\* The innermost call, when there is one.
<1>3. ASSUME frames # <<>>
      PROVE  \E l \in Nat : Len(frames) = l + 1
  <2>1. PICK l \in Nat : l = Len(frames) /\ l # 0
    BY <1>3 DEF ParseInv
  <2>2. l - 1 \in Nat /\ l = (l - 1) + 1
    BY <2>1
  <2> QED BY <2>1, <2>2
<1>4. CASE MethodsCheck
  BY <1>4 DEF MethodsCheck, ParseInv, CallsNamed
<1>5. CASE ParseDone
  BY <1>5 DEF ParseDone, ParseInv, CallsNamed
<1>6. ASSUME NEW m \in MethodNameList, ParseMethod(m) PROVE ParseInv'
  <2>1. PICK f \in FrameSet : /\ f = [name |-> methods[m], method |-> m, needs |-> <<>>, begun |-> FALSE]
                              /\ f.begun # TRUE /\ f.method = m /\ f.name = methods[m]
    <3>1. methods[m] \in RouterNames
      BY <1>6, RouterConstants DEF ParseMethod, ParseInv
    <3>2. <<>> \in Seq(RouterNames)
      OBVIOUS
    <3>3. PICK n \in RouterNames : n = methods[m]
      BY <3>1
    <3>4. PICK f : f = [name |-> n, method |-> m, needs |-> <<>>, begun |-> FALSE]
      OBVIOUS
    <3>5. f \in FrameSet
      BY <3>2, <3>4 DEF FrameSet
    <3>6. f.begun # TRUE /\ f.method = m /\ f.name = n
      BY <3>4
    <3> QED BY <3>3, <3>4, <3>5, <3>6
  <2>2. /\ frames' = <<f>> /\ visited' = {} /\ todoMethods' = todoMethods \ {m} /\ m \in todoMethods /\ frames = <<>> /\ parseOut = "busy"
        /\ UNCHANGED <<created, builds, finalRouter, parseOut, routersCfg, methods, asked>>
    BY <1>6, <2>1 DEF ParseMethod
  <2>3. <<f>> \in Seq(FrameSet) /\ Len(<<f>>) = 1 /\ <<f>>[1] = f /\ <<f>> # <<>>
    OBVIOUS
  <2>4. FramesOk(<<f>>, routersCfg, created, {})
    BY <2>1, <2>3 DEF FramesOk, FramesIn
  <2>5. MethodsOk(<<f>>, todoMethods \ {m}, created, finalRouter, methods)
    BY <2>1, <2>2, <2>3 DEF MethodsOk, ParseInv
  <2> QED BY <2>2, <2>3, <2>4, <2>5 DEF ParseInv, CallsNamed
<1>7. CASE ParseShared
  <2>1. PICK l \in Nat : Len(frames) = l + 1
    BY <1>3, <1>7 DEF ParseShared
  <2>2. /\ Top.name \in created /\ ParseReturns /\ parseOut = "busy"
        /\ UNCHANGED <<todoMethods, visited, created, builds, parseOut, routersCfg, methods, asked>>
    BY <1>7 DEF ParseShared
  <2>3. created = created \union {Top.name}
    BY <2>2
  <2>4. /\ FramesOk(frames', routersCfg, created, visited) /\ frames' \in Seq(FrameSet)
        /\ finalRouter' \in Seq(MethodNameList \X RouterNames) /\ MethodsOk(frames', todoMethods, created, finalRouter', methods)
    BY <2>1, <2>2, <2>3, ReturnsKeep
  <2> QED BY <2>2, <2>4 DEF ParseInv, CallsNamed
<1>8. CASE ParseLoop
  <2>1. PICK l \in Nat : Len(frames) = l + 1
    BY <1>3, <1>8 DEF ParseLoop
  <2>2. PICK f \in FrameSet : f = Top
    BY <2>1, FramesBelowIs DEF ParseInv
  <2>3. f.begun # TRUE /\ f.name \notin created /\ (f.name \in visited \/ routersCfg[f.name].type = "absent")
    BY <1>8, <2>2 DEF ParseLoop
  <2>4. BadType(routersCfg[f.name].type) \/ (f.begun # TRUE /\ f.name \in visited \ created)
    BY <2>3 DEF BadType, Composite
  <2>5. CannotBuild(routersCfg, methods)
    BY <2>1, <2>2, <2>4, GivesUpRightly
  <2>6. ParseFails /\ UNCHANGED <<routersCfg, methods, asked>>
    BY <1>8 DEF ParseLoop
  <2> QED BY <1>2, <2>5, <2>6
<1>9. CASE ParseBegin
  <2>1. PICK l \in Nat : Len(frames) = l + 1
    BY <1>3, <1>9 DEF ParseBegin
  <2>2. PICK f \in FrameSet : f = Top /\ f = frames[l + 1]
    BY <2>1, FramesBelowIs DEF ParseInv
  <2>3. cfg[f.name].deps \in Seq(RouterNames)
    BY RouterConstants DEF FrameSet
  <2>4. PICK g : g = [name |-> f.name, method |-> f.method, needs |-> cfg[f.name].deps, begun |-> TRUE]
    OBVIOUS
  <2>5. g \in FrameSet /\ g.name = f.name /\ g.begun = TRUE /\ g.needs = cfg[f.name].deps /\ g.method = f.method
    BY <2>3, <2>4 DEF FrameSet
  <2>6. [f EXCEPT !.begun = TRUE, !.needs = cfg[f.name].deps] = g
    <3>1. PICK deps \in Seq(RouterNames) : deps = cfg[f.name].deps
      BY <2>3
    <3>2. [f EXCEPT !.begun = TRUE, !.needs = deps] = [name |-> f.name, method |-> f.method, needs |-> deps, begun |-> TRUE]
      <4>1. PICK h : h = [f EXCEPT !.begun = TRUE]
        OBVIOUS
      <4>2. h = [name |-> f.name, method |-> f.method, needs |-> f.needs, begun |-> TRUE]
        BY <4>1 DEF FrameSet
      <4>3. h \in FrameSet /\ h.name = f.name /\ h.method = f.method /\ h.begun = TRUE
        BY <4>2 DEF FrameSet
      <4>4. [h EXCEPT !.needs = deps] = [name |-> h.name, method |-> h.method, needs |-> deps, begun |-> h.begun]
        BY <4>3 DEF FrameSet
      <4> QED BY <4>1, <4>3, <4>4
    <3> QED BY <2>4, <3>1, <3>2
  <2>7. /\ f.begun # TRUE /\ f.name \notin created \union visited /\ cfg[f.name].type # "absent" /\ parseOut = "busy"
        /\ visited' = visited \union {f.name} /\ frames' = Append(FramesBelow, g)
        /\ UNCHANGED <<todoMethods, created, builds, finalRouter, parseOut, routersCfg, methods, asked>>
    BY <1>0, <1>9, <2>2, <2>6 DEF ParseBegin
  <2>8. FramesOk(frames, cfg, created, visited)
    BY <1>0 DEF ParseInv
  <2>9. FramesOk(frames', cfg, created, visited')
    BY <2>1, <2>2, <2>5, <2>7, <2>8, FramesBegin DEF ParseInv
  <2>10. PICK gs \in Seq(FrameSet) : gs = frames' /\ gs # <<>> /\ gs[1].method = frames[1].method /\ gs[1].name = frames[1].name
    <3>1. PICK fs \in Seq(FrameSet) : fs = FramesBelow /\ Len(fs) = l /\ \A i \in 1 .. l : fs[i] = frames[i]
      BY <2>1, FramesBelowIs DEF ParseInv
    <3>2. PICK gs \in Seq(FrameSet) : gs = Append(fs, g) /\ Len(gs) = l + 1 /\ gs[l + 1] = g /\ \A i \in 1 .. l : gs[i] = fs[i]
      BY <2>5, <3>1, FramesWith, ZenonT(60)
    <3>3. gs # <<>> /\ (l = 0 \/ 1 \in 1 .. l)
      BY <3>2
    <3> QED BY <2>2, <2>5, <2>7, <3>1, <3>2, <3>3
  <2>11. MethodsOk(gs, todoMethods, created, finalRouter, methods)
    <3>1. frames # <<>>
      BY <2>1
    <3> QED BY <2>10, <3>1 DEF MethodsOk, ParseInv
  <2>12. visited' \subseteq RouterNames
    BY <2>2, <2>7 DEF ParseInv, FrameSet
  <2> QED BY <1>0, <2>7, <2>9, <2>10, <2>11, <2>12 DEF ParseInv, CallsNamed
<1>10. CASE ParseNeeded
  <2>1. PICK l \in Nat : Len(frames) = l + 1
    BY <1>3, <1>10 DEF ParseNeeded
  <2>2. PICK f \in FrameSet : f = Top /\ f = frames[l + 1]
    BY <2>1, FramesBelowIs DEF ParseInv
  <2>3. PICK q \in Seq(RouterNames) : q = f.needs
    BY DEF FrameSet
  <2>4. q # <<>>
    BY <1>10, <2>2, <2>3 DEF ParseNeeded
  <2>5. Tail(q) \in Seq(RouterNames) /\ Head(q) \in RouterNames
    BY <2>4
  <2>6. PICK g : g = [name |-> f.name, method |-> f.method, needs |-> Tail(q), begun |-> f.begun]
    OBVIOUS
  <2>7. PICK k : k = [name |-> Head(q), method |-> f.method, needs |-> <<>>, begun |-> FALSE]
    OBVIOUS
  <2>8. f.begun = TRUE
    BY <1>10, <2>2 DEF ParseNeeded, FrameSet
  <2>9. g \in FrameSet /\ g.name = f.name /\ g.begun = TRUE /\ g.needs = Tail(q) /\ g.method = f.method
    BY <2>5, <2>6, <2>8 DEF FrameSet
  <2>10. k \in FrameSet /\ k.name = Head(q) /\ k.begun # TRUE
    <3>1. <<>> \in Seq(RouterNames) /\ FALSE # TRUE
      OBVIOUS
    <3> QED BY <2>5, <2>7, <3>1 DEF FrameSet
  <2>11. [f EXCEPT !.needs = Tail(@)] = g
    <3>1. PICK rest \in Seq(RouterNames) : rest = Tail(q)
      BY <2>5
    <3>2. [f EXCEPT !.needs = rest] = [name |-> f.name, method |-> f.method, needs |-> rest, begun |-> f.begun]
      BY SMTT(30) DEF FrameSet
    <3> QED BY <2>3, <2>6, <3>1, <3>2
  <2>12. /\ cfg[f.name].type \in Composite /\ parseOut = "busy" /\ frames' = Append(Append(FramesBelow, g), k)
         /\ UNCHANGED <<todoMethods, visited, created, builds, finalRouter, parseOut, routersCfg, methods, asked>>
    BY <1>0, <1>10, <2>2, <2>3, <2>7, <2>11 DEF ParseNeeded
  <2>13. FramesOk(frames, cfg, created, visited)
    BY <1>0 DEF ParseInv
  <2>14. FramesOk(frames', cfg, created, visited)
    BY <2>1, <2>2, <2>3, <2>4, <2>8, <2>9, <2>10, <2>12, <2>13, FramesNeed DEF ParseInv
  <2>15. PICK gs \in Seq(FrameSet) : gs = frames' /\ gs # <<>> /\ gs[1].method = frames[1].method /\ gs[1].name = frames[1].name
    <3>1. PICK fs \in Seq(FrameSet) : fs = FramesBelow /\ Len(fs) = l /\ \A i \in 1 .. l : fs[i] = frames[i]
      BY <2>1, FramesBelowIs DEF ParseInv
    <3>2. PICK hs \in Seq(FrameSet) : hs = Append(fs, g) /\ Len(hs) = l + 1 /\ hs[l + 1] = g /\ \A i \in 1 .. l : hs[i] = fs[i]
      BY <2>9, <3>1, FramesWith
    <3>3. PICK m \in Nat : m = l + 1
      OBVIOUS
    <3>4. PICK gs \in Seq(FrameSet) : gs = Append(hs, k) /\ Len(gs) = m + 1 /\ gs[m + 1] = k /\ \A i \in 1 .. m : gs[i] = hs[i]
      BY <2>10, <3>2, <3>3, FramesWith, ZenonT(60)
    <3>5. gs # <<>> /\ 1 \in 1 .. m /\ (l = 0 \/ 1 \in 1 .. l)
      BY <3>3, <3>4
    <3>6. gs[1] = hs[1] /\ gs = frames'
      BY <2>12, <3>1, <3>2, <3>4, <3>5
    <3>7. hs[1].method = frames[1].method /\ hs[1].name = frames[1].name
      BY <2>2, <2>9, <3>1, <3>2, <3>5
    <3> QED BY <3>4, <3>5, <3>6, <3>7
  <2>16. MethodsOk(gs, todoMethods, created, finalRouter, methods)
    <3>1. frames # <<>>
      BY <2>1
    <3> QED BY <2>15, <3>1 DEF MethodsOk, ParseInv
  <2> QED BY <1>0, <2>12, <2>14, <2>15, <2>16 DEF ParseInv, CallsNamed
<1>11. CASE BuildRouter
  <2>1. PICK l \in Nat : Len(frames) = l + 1
    BY <1>3, <1>11 DEF BuildRouter
  <2>2. PICK f \in FrameSet : f = Top /\ f = frames[l + 1]
    BY <2>1, FramesBelowIs DEF ParseInv
  <2>3. f.begun = TRUE /\ f.name \in RouterNames /\ parseOut = "busy" /\ UNCHANGED <<routersCfg, methods, asked>>
    BY <1>11, <2>2 DEF BuildRouter, FrameSet
  <2>4. CASE RouterFails(routersCfg[f.name].type)
    <3>1. BadType(routersCfg[f.name].type)
      BY <2>4 DEF BadType, Composite, RouterFails, HttpRoutingFails, DhtRoutingFails
    <3>2. CannotBuild(routersCfg, methods)
      BY <2>1, <2>2, <3>1, GivesUpRightly
    <3> QED BY <1>2, <1>11, <2>2, <2>3, <2>4, <3>2 DEF BuildRouter
  <2>5. CASE ~RouterFails(routersCfg[f.name].type)
    <3>1. /\ created' = created \union {f.name} /\ builds' = [builds EXCEPT ![f.name] = @ + 1] /\ ParseReturns
          /\ UNCHANGED <<todoMethods, visited, parseOut>>
          /\ cfg[f.name].type \in Composite => f.needs = <<>>
      BY <1>0, <1>11, <2>2, <2>5 DEF BuildRouter
    <3>2. /\ FrameOk(f, cfg, created, visited)
          /\ \A r \in DepsIn(cfg, f.name) : r \in created \/ Waits(f, r) \/ (l + 1 < l + 1 /\ frames[(l + 1) + 1].name = r)
      <4>1. l + 1 \in 1 .. l + 1 /\ FramesOk(frames, cfg, created, visited)
        BY <1>0 DEF ParseInv
      <4> QED BY <2>1, <2>2, <2>3, <4>1 DEF FramesOk, FramesIn
    <3>3. ~BadType(cfg[f.name].type)
      <4>1. cfg[f.name].type \in Composite \union {"http", "dht", "badhttp", "baddht", "unknown", "absent"}
        BY <2>3, RouterConstants
      <4>2. cfg[f.name].type # "absent"
        BY <3>2 DEF FrameOk
      <4> QED BY <1>0, <2>5, <4>1, <4>2 DEF BadType, RouterFails, HttpRoutingFails, DhtRoutingFails
    <3>4. DepsIn(cfg, f.name) \subseteq created
      <4>1. CASE cfg[f.name].type \in Composite
        <5>1. DOMAIN f.needs = {}
          BY <3>1, <4>1
        <5> QED BY <3>2, <5>1 DEF Waits
      <4>2. CASE cfg[f.name].type \notin Composite
        BY <4>2 DEF DepsIn
      <4> QED BY <4>1, <4>2
    <3>5. DoneOk(created', builds', cfg)
      <4>1. DoneOk(created, builds, cfg) /\ f.name \notin created
        BY <1>0, <3>2 DEF ParseInv, FrameOk
      <4> QED BY <2>3, <3>1, <3>3, <3>4, <4>1, RouterDone
    <3>6. /\ FramesOk(frames', routersCfg, created', visited) /\ frames' \in Seq(FrameSet)
          /\ finalRouter' \in Seq(MethodNameList \X RouterNames) /\ MethodsOk(frames', todoMethods, created', finalRouter', methods)
      BY <2>1, <2>2, <2>3, <3>1, ReturnsKeep
    <3> QED BY <1>0, <2>3, <3>1, <3>5, <3>6 DEF ParseInv, CallsNamed
  <2> QED BY <2>4, <2>5
<1>12. ASSUME NEW m \in MethodNameList, ComposerCall(m) PROVE ParseInv'
  <2>1. PICK i \in DOMAIN finalRouter : asked' = finalRouter[i]
    BY <1>12 DEF ComposerCall
  <2>2. /\ UNCHANGED <<routersCfg, methods, todoMethods, visited, frames, created, builds, finalRouter, parseOut>>
        /\ finalRouter[i][2] = methods[finalRouter[i][1]]
    BY <1>12 DEF ComposerCall, ParseInv, MethodsOk
  <2>3. CallsNamed'
    BY <2>1, <2>2 DEF CallsNamed
  <2> QED BY <2>2, <2>3 DEF ParseInv
<1> QED BY <1>1, <1>4, <1>5, <1>6, <1>7, <1>8, <1>9, <1>10, <1>11, <1>12 DEF ParseNext, ParseStep

\* What the config means, said of the config alone.
LEMMA NeedsAreIn ==
  ASSUME NEW n
  PROVE  NeedsAll(n) = NeedsIn(routersCfg, n)
BY Zenon DEF NeedsAll, NeedsIn, Deps, DepsOf, DepsIn

LEMMA ParseInvImplies == ParseInv => ParseExact /\ BuiltOnce /\ CallsNamed
<1> SUFFICES ASSUME ParseInv PROVE ParseExact /\ BuiltOnce /\ CallsNamed
  OBVIOUS
<1>1. PICK cfg \in RouterConfigs : cfg = routersCfg
  BY DEF ParseInv
<1>2. BuiltOnce
  BY DEF ParseInv, DoneOk, BuiltOnce
<1>3. ASSUME parseOut = "ok", NEW m \in MethodNameList PROVE Buildable(methods[m])
  <2>1. methods[m] \in created
    BY <1>3 DEF ParseInv, MethodsOk
  <2>2. PICK n \in RouterNames : n = methods[m] /\ n \in created
    BY <2>1 DEF ParseInv, DoneOk
  <2>3. \A r \in created : DepsIn(cfg, r) \subseteq created /\ r \notin NeedsIn(cfg, r) /\ ~BadType(cfg[r].type)
    BY <1>1 DEF ParseInv, DoneOk
  <2>4. NeedsIn(cfg, n) \subseteq created
    BY <2>2, <2>3, NeedsLeast
  <2>5. \A r \in {n} \union NeedsIn(cfg, n) : cfg[r].type \in Composite \union {"http", "dht"} /\ r \notin NeedsIn(cfg, r)
    BY <2>2, <2>3, <2>4 DEF BadType
  <2> QED BY <1>1, <2>2, <2>5, NeedsAreIn DEF Buildable
<1>4. ASSUME CannotBuild(routersCfg, methods), DOMAIN methods = MethodNameList
      PROVE  \E m \in MethodNameList : ~Buildable(methods[m])
  <2>1. PICK m \in MethodNameList :
          \E r \in {methods[m]} \union NeedsIn(cfg, methods[m]) : BadType(cfg[r].type) \/ r \in NeedsIn(cfg, r)
    BY <1>1, <1>4 DEF CannotBuild
  <2>2. ~Buildable(methods[m])
    BY <1>1, <2>1, NeedsAreIn DEF Buildable, BadType
  <2> QED BY <2>2
<1>5. ParseExact
  BY <1>3, <1>4 DEF ParseExact, ParseInv
<1> QED BY <1>2, <1>5 DEF ParseInv

-----------------------------------------------------------------------------
(***************************************************************************)
(* All of them: what succeeded was delivered.                              *)
(***************************************************************************)
\* A step of the composition is a step of each component, or leaves it alone.
LEMMA PartSteps ==
  ASSUME [Next]_vars
  PROVE  /\ [StreamNext]_stVars /\ [TransferNext]_trVars /\ UNCHANGED addOpts /\ [AddCmdNext]_adVars
         /\ [PostRunNext]_poVars /\ [ImportNext]_imVars /\ [ExportNext]_exVars /\ [RepoGcNext]_rgVars
         /\ [SwarmNext]_sVars /\ [ProvideNext]_pvVars /\ [AnnounceAddrs]_anVars /\ [ParseNext]_prVars
         /\ [PubSubNext]_psVars /\ [PeerLogNext]_plVars /\ [ReqLogNext]_rqVars
<1>1. CASE UNCHANGED vars
  BY <1>1 DEF vars
<1>2. CASE On("streams", StreamNext) \/ On("transfer", TransferNext) \/ On("add", AddCmdNext)
  BY <1>2 DEF On
<1>3. CASE On("post", PostRunNext) \/ On("import", ImportNext) \/ On("export", ExportNext)
  BY <1>3 DEF On
<1>4. CASE On("repogc", RepoGcNext) \/ On("swarm", SwarmNext) \/ On("provide", ProvideNext)
  BY <1>4 DEF On
<1>5. CASE On("announce", AnnounceAddrs) \/ On("feeder", FeederNext) \/ On("parse", ParseNext)
  BY <1>5 DEF On
<1>6. CASE On("pubsub", PubSubNext) \/ On("peerlog", PeerLogNext) \/ On("reqlog", ReqLogNext)
  BY <1>6 DEF On
<1> QED BY <1>1, <1>2, <1>3, <1>4, <1>5, <1>6 DEF Next

DeliveryInv ==
  StreamInv /\ TransferInv /\ MetadataFits /\ AddInv /\ PostInv /\ ExportInv /\ ErrorsInv /\ ProvideInv /\ SubInv

\* The calls that hand over results, items, files, events, blocks, errors, records
\* and messages by goroutines and channels (channel.go, add.go, gc.go, provide.go,
\* pubsub.go): a call that reports success has delivered all of it, and no other.
THEOREM StreamsDeliver == Spec => []DeliveredWhole
<1>1. Init => DeliveryInv
  BY StreamInits, TransferInits, OptsInits, AddInits, PostInits, ExportInits, RepoGcInits, ProvideInits, PubSubInits
     DEF Init, DeliveryInv
<1>2. DeliveryInv /\ [Next]_vars => DeliveryInv'
  <2> SUFFICES ASSUME DeliveryInv, [Next]_vars PROVE DeliveryInv'
    OBVIOUS
  <2>1. StreamInv' /\ TransferInv' /\ AddInv'
    BY PartSteps, StreamSteps, TransferSteps, AddSteps DEF DeliveryInv
  <2>2. MetadataFits'
    BY PartSteps DEF DeliveryInv, MetadataFits
  <2>3. PostInv' /\ ExportInv' /\ ErrorsInv'
    BY PartSteps, PostSteps, ExportSteps, RepoGcSteps DEF DeliveryInv
  <2>4. ProvideInv' /\ SubInv'
    BY PartSteps, ProvideSteps, PubSubSteps DEF DeliveryInv
  <2> QED BY <2>1, <2>2, <2>3, <2>4 DEF DeliveryInv
<1>3. DeliveryInv => DeliveredWhole
  BY StreamInvImplies, TransferInvImplies, AddInvImplies, PostInvImplies, ExportInvImplies, ErrorsInvImplies,
     ProvideInvImplies, SubInvImplies DEF DeliveryInv, DeliveredWhole
<1> QED BY <1>1, <1>2, <1>3, PTL DEF Spec

\* The end of the resolution of a list of addresses (swarm.go, parseAddresses and
\* resolveAddresses): connect and disconnect act on every peer of every argument or
\* on none, and no goroutine is left behind.
THEOREM SwarmResolvesWhole == Spec => ResolutionWhole
<1>1. Init => SwarmInv
  BY SwarmInits DEF Init
<1>2. SwarmInv /\ [Next]_vars => SwarmInv'
  BY PartSteps, SwarmSteps
<1>3. SwarmInv /\ SwarmInv' /\ [Next]_vars =>
        [/\ spc = "collect" /\ spc' \in {"connect", "disconnect"}
              => found = UNION {sargs[i].peers : i \in DOMAIN sargs}
         /\ spc' = "idle" /\ (\A i \in DOMAIN sargs' : sargs'[i].kind # "bad")
              => \A i \in DOMAIN resolver' : resolver'[i].state = "done"]_sVars
  <2> SUFFICES ASSUME SwarmInv, SwarmInv', [SwarmNext]_sVars
        PROVE  /\ spc = "collect" /\ spc' \in {"connect", "disconnect"}
                    => found = UNION {sargs[i].peers : i \in DOMAIN sargs}
               /\ spc' = "idle" /\ (\A i \in DOMAIN sargs' : sargs'[i].kind # "bad")
                    => \A i \in DOMAIN resolver' : resolver'[i].state = "done"
    BY PartSteps
  <2>1. DOMAIN resolver' = DOMAIN sargs'
    BY DEF SwarmInv
  <2>2. spc' = "idle" /\ (\A i \in DOMAIN sargs' : sargs'[i].kind # "bad")
          => \A i \in DOMAIN sargs' : resolver'[i].state = "done"
    BY DEF SwarmInv
  <2> QED BY <2>1, <2>2, SwarmActs
<1> QED BY <1>1, <1>2, <1>3, PTL DEF Spec, ResolutionWhole

\* dag import (import.go): with --pin-roots every root whose DAG is in the files ends up
\* pinned and stays stored, although the batch writes in the background and a collection
\* waits for the pin lock; and nothing is pinned unless all files were read and written.
THEOREM ImportsKeepRoots == Spec => []ImportKeepsRoots
<1>1. Init => ImportInv
  BY ImportInits DEF Init
<1>2. ImportInv /\ [Next]_vars => ImportInv'
  BY PartSteps, ImportSteps
<1> QED BY <1>1, <1>2, ImportInvImplies, PTL DEF Spec

\* The logs that forget on purpose (peerlog.go, reqlog.go): every event is logged or
\* counted as dropped, in order and once, and the request log shows every request that
\* runs and every finished one whose time is not up, however it is cleaned up.
THEOREM LogsForgetNothingElse == Spec => []LogsAccounted
<1>1. Init => PeerLogInv /\ ReqLogInv
  BY PeerLogInits, ReqLogInits DEF Init
<1>2. PeerLogInv /\ ReqLogInv /\ [Next]_vars => PeerLogInv' /\ ReqLogInv'
  BY PartSteps, PeerLogSteps, ReqLogSteps
<1>3. PeerLogInv /\ ReqLogInv => LogsAccounted
  BY PeerLogInvImplies, ReqLogInvImplies DEF LogsAccounted
<1> QED BY <1>1, <1>2, <1>3, PTL DEF Spec

\* Routing (delegated.go, addrs.go): Parse accepts exactly the configs all of whose
\* routers can be built, in whatever order it takes the methods, and builds no router
\* twice; a request goes to the router that was named for it; and the host announces
\* no address of NoAnnounce.
THEOREM RoutersAsConfigured == Spec => []RoutingAsConfigured
<1>1. Init => ParseInv /\ HostNoAnnounce
  <2>1. AnnounceInit => HostNoAnnounce
    BY DEF AnnounceInit, HostNoAnnounce
  <2> QED BY <2>1, ParseInits DEF Init
<1>2. ParseInv /\ HostNoAnnounce /\ [Next]_vars => ParseInv' /\ HostNoAnnounce'
  <2> SUFFICES ASSUME ParseInv, HostNoAnnounce, [Next]_vars PROVE ParseInv' /\ HostNoAnnounce'
    OBVIOUS
  <2>1. [AnnounceAddrs]_anVars
    BY PartSteps
  <2>2. HostNoAnnounce'
    BY <2>1 DEF anVars, AnnounceAddrs, HostNoAnnounce, HostAddrs
  <2> QED BY <2>2, PartSteps, ParseSteps
<1>3. ParseInv /\ HostNoAnnounce => RoutingAsConfigured
  BY ParseInvImplies DEF RoutingAsConfigured
<1> QED BY <1>1, <1>2, <1>3, PTL DEF Spec
=============================================================================
