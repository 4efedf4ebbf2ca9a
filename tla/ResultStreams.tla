--------------------------- MODULE ResultStreams ---------------------------
(***************************************************************************)
(* Results that a goroutine sends over a channel to the function that      *)
(* reports them: the listing, verifying and routing commands               *)
(* (core/commands), the API methods behind them (core/coreapi) and those   *)
(* of the RPC client (client/rpc).  The parts are always the same, a       *)
(* producer that sends items and then its error, a consumer that emits     *)
(* them and then takes the error, a context that may be cancelled (the     *)
(* user, --timeout) at any time and is cancelled when the consumer         *)
(* returns; what each function does with them is its discipline below.     *)
(* The source the items come from is external: it delivers all of its      *)
(* items, or an error.                                                     *)
(*                                                                         *)
(* The second part of the module is the bytes of `dag export` and `get`,   *)
(* which a goroutine hands to the response through a pipe.                 *)
(***************************************************************************)
EXTENDS Naturals, Sequences, FiniteSets

CONSTANTS
  StreamCmds,  \* the functions looked at
  MaxItems     \* bound on the number of items

(* A discipline:                                                           *)
(*   guarded   an item is sent in a select with ctx.Done()                 *)
(*   cancel    the error the producer ends with when it sees ctx.Done():   *)
(*             "error" or "nil"                                            *)
(*   early     what an error before the first item becomes: "error",       *)
(*             "nil" (it is lost), "item" (sent like one) or "panic"       *)
(*   late      what an error after that becomes                            *)
(*   errs      how the error gets to the consumer: "buffered" channel,     *)
(*             "unbuffered" channel, or a "variable" that the consumer     *)
(*             reads when the items have ended                             *)
(*   ctxEnds   the consumer also takes the end of the context for the end  *)
(*             of the items                                                *)
(*   rechecks  the consumer looks at the context before it reports success *)

\* pin ls, over PinAPI.Ls.
PinLs == [guarded |-> TRUE, cancel |-> "error", early |-> "error", late |-> "error",
          errs |-> "buffered", ctxEnds |-> FALSE, rechecks |-> FALSE]
\* pin remote ls, and the listing of pin remote rm (the client is external).
RemotePinLs == PinLs
\* ls of a directory, over UnixfsAPI.Ls.
LsDir == [PinLs EXCEPT !.cancel = "nil"]
\* ls of a file, whose links are sent on without a look at the context.
LsLinks == [PinLs EXCEPT !.guarded = FALSE, !.cancel = "nil"]
\* repo verify: results of many workers.
RepoVerify == [PinLs EXCEPT !.cancel = "nil", !.rechecks = TRUE]
\* pin verify: an error is sent like an item, and then without a look at the context.
PinVerify == [PinLs EXCEPT !.cancel = "nil", !.early = "item", !.late = "item", !.errs = "variable"]
\* PinAPI.Verify: the same, each send guarded.
PinAPIVerify == PinVerify
\* NameAPI.Search, of name resolve --stream: errors are items.
NameSearch == PinVerify
\* dht query: events of the routing system (external), closed with the context.
DhtQuery == [PinLs EXCEPT !.ctxEnds = TRUE]
\* routing provide and findpeer: the error is a variable of the command.
RoutingQuery == [PinLs EXCEPT !.ctxEnds = TRUE, !.errs = "variable"]
\* routing findprovs: there is no error.
FindProvs == [RoutingQuery EXCEPT !.early = "nil", !.late = "nil", !.cancel = "nil"]
\* dag export: a pipe, which the consumer closes when it cannot emit.
DagExport == PinLs
\* An external subcommand: nobody closes the pipe, and the error has no buffer.
Subcommand == [PinLs EXCEPT !.guarded = FALSE, !.errs = "unbuffered"]
\* The RPC client: an error before the first item is a status code, a later one a
\* trailer that the decoder meets.
RpcLs == [PinLs EXCEPT !.early = "nil"]
RpcPinLs == [PinLs EXCEPT !.early = "panic"]
RpcPinVerify == [PinLs EXCEPT !.cancel = "nil", !.late = "item", !.errs = "variable"]
RpcNameSearch == [PinLs EXCEPT !.cancel = "nil", !.late = "nil", !.errs = "variable"]
RpcFindProviders == RpcNameSearch

Disciplines ==
  [pinLs |-> PinLs, remoteLs |-> RemotePinLs, ls |-> LsDir, lsLinks |-> LsLinks, repoVerify |-> RepoVerify,
   pinVerify |-> PinVerify, apiVerify |-> PinAPIVerify, nameSearch |-> NameSearch, dhtQuery |-> DhtQuery,
   routingQuery |-> RoutingQuery, findProvs |-> FindProvs, dagExport |-> DagExport,
   subcommand |-> Subcommand, rpcLs |-> RpcLs, rpcPinLs |-> RpcPinLs, rpcPinVerify |-> RpcPinVerify,
   rpcNameSearch |-> RpcNameSearch, rpcFindProviders |-> RpcFindProviders]

ASSUME StreamConstants == StreamCmds \subseteq DOMAIN Disciplines /\ MaxItems \in Nat

VARIABLES
  stream,     \* the function at work
  items,      \* the number of items there are
  failing,    \* the source fails before it has delivered them all
  sent,       \* items sent so far
  producer,   \* "working", "sending", "errItem", "closing", "erring" or "done"
  perr,       \* the producer's error: "nil" or "error"
  consumer,   \* "reading", "waiting" or "returned"
  emitted,    \* what was emitted
  result,     \* what was reported in the end: "none", "ok", "error" or "panic"
  cancelled   \* the context is done

stVars == <<stream, items, failing, sent, producer, perr, consumer, emitted, result, cancelled>>

D == Disciplines[stream]

StreamInit ==
  /\ stream \in StreamCmds /\ items \in 0 .. MaxItems /\ failing \in BOOLEAN
  /\ sent = 0 /\ producer = "working" /\ perr = "nil"
  /\ consumer = "reading" /\ emitted = 0 /\ result = "none" /\ cancelled = FALSE

\* The source has an item, an error, or nothing more.
StreamWork ==
  /\ producer = "working"
  /\ \/ sent < items /\ producer' = "sending" /\ UNCHANGED <<perr, result, consumer>>
     \/ /\ failing
        /\ LET fate == IF sent = 0 THEN D.early ELSE D.late IN
           /\ producer' = CASE fate = "item" -> "errItem" [] fate = "panic" -> "done" [] OTHER -> "closing"
           /\ perr' = IF fate = "error" THEN "error" ELSE perr
           /\ result' = IF fate = "panic" THEN "panic" ELSE result
           /\ consumer' = IF fate = "panic" THEN "returned" ELSE consumer
     \/ ~failing /\ sent = items /\ producer' = "closing" /\ UNCHANGED <<perr, result, consumer>>
  /\ UNCHANGED <<stream, items, failing, sent, emitted, cancelled>>

\* One item passes, and is emitted, or the emitter fails (the client is gone) and
\* the consumer returns; its context ends with it.
StreamPass ==
  /\ producer \in {"sending", "errItem"} /\ consumer = "reading"
  /\ producer' = IF producer = "sending" THEN "working" ELSE "closing"
  /\ sent' = IF producer = "sending" THEN sent + 1 ELSE sent
  /\ \/ /\ emitted' = IF producer = "sending" THEN emitted + 1 ELSE emitted
        /\ result' = IF producer = "errItem" THEN "error" ELSE result
        /\ UNCHANGED <<consumer, cancelled>>
     \/ consumer' = "returned" /\ result' = "error" /\ cancelled' = TRUE /\ UNCHANGED emitted
  /\ UNCHANGED <<stream, items, failing, perr>>

\* Mutant: a producer does not look at the context.
StreamGiveUpNever ==
  /\ producer = "sending" /\ cancelled /\ FALSE
  /\ UNCHANGED stVars

\* The producer sees the end of the context while it waits to send an item, or its
\* source does.  The error of pin verify is sent without that look, and a subcommand
\* knows nothing of the context.
StreamGiveUp ==
  /\ cancelled
  /\ \/ producer = "working" /\ stream # "subcommand"
     \/ producer = "sending" /\ D.guarded
     \/ producer = "errItem" /\ D.guarded /\ stream # "pinVerify"
  /\ producer' = "closing"
  /\ perr' = IF D.cancel = "error" THEN "error" ELSE perr
  /\ UNCHANGED <<stream, items, failing, sent, consumer, emitted, result, cancelled>>

\* The channel of the items is closed, then the error is handed over: a buffered
\* channel takes it at once, an unbuffered one when the consumer is waiting.
StreamClose ==
  /\ producer = "closing"
  /\ producer' = "erring"
  /\ UNCHANGED <<stream, items, failing, sent, perr, consumer, emitted, result, cancelled>>
StreamErr ==
  /\ producer = "erring"
  /\ D.errs = "unbuffered" => consumer = "waiting"
  /\ producer' = "done"
  /\ UNCHANGED <<stream, items, failing, sent, perr, consumer, emitted, result, cancelled>>

\* The consumer finds the items ended.
StreamEnd ==
  /\ consumer = "reading"
  /\ producer \in {"erring", "done"} \/ (D.ctxEnds /\ cancelled)
  /\ consumer' = "waiting"
  /\ UNCHANGED <<stream, items, failing, sent, producer, perr, emitted, result, cancelled>>

\* Mutant: the error channel is not read.
StreamReturnDeaf ==
  /\ consumer = "waiting"
  /\ D.errs = "variable" \/ producer = "done"
  /\ result' = IF result = "error" THEN "error" ELSE "ok"
  /\ consumer' = "returned" /\ cancelled' = TRUE
  /\ UNCHANGED <<stream, items, failing, sent, producer, perr, emitted>>

\* The error decides; a variable is read as it is, whether the producer has ended
\* or not.
StreamReturn ==
  /\ consumer = "waiting"
  /\ D.errs = "variable" \/ producer = "done"
  /\ result' = IF perr = "error" \/ (D.rechecks /\ cancelled) \/ result = "error" THEN "error" ELSE "ok"
  /\ consumer' = "returned" /\ cancelled' = TRUE
  /\ UNCHANGED <<stream, items, failing, sent, producer, perr, emitted>>

\* The user, a lost connection or --timeout ends the context.
StreamCancel ==
  /\ consumer # "returned" /\ ~cancelled
  /\ cancelled' = TRUE
  /\ UNCHANGED <<stream, items, failing, sent, producer, perr, consumer, emitted, result>>

StreamStep == StreamWork \/ StreamPass \/ StreamGiveUp \/ StreamClose \/ StreamErr \/ StreamEnd \/ StreamReturn
StreamNext == StreamStep \/ StreamCancel

\* Goroutines that can go on do; the source ends.
StreamFairness == WF_stVars(StreamStep)
StreamSpec == StreamInit /\ [][StreamNext]_stVars /\ StreamFairness

-----------------------------------------------------------------------------
\* The functions in which a cancelled stream can end like a complete one, and
\* those that lose the error of their source.
SilentWhenCancelled ==
  {"ls", "lsLinks", "pinVerify", "apiVerify", "nameSearch", "findProvs", "routingQuery", "rpcPinVerify", "rpcNameSearch",
   "rpcFindProviders"}
LosesErrors == {"findProvs", "rpcLs", "rpcNameSearch", "rpcFindProviders"}

\* Success means complete: a stream reported as successful has emitted every item
\* there was, in every function but those, and in those too as long as the context
\* lives and the source does not fail.
SuccessIsComplete ==
  result = "ok" => \/ emitted = items /\ ~failing
                   \/ stream \in SilentWhenCancelled \cup LosesErrors

\* The functions whose producer sends without a look at the context.
SendsBare == {"lsLinks", "subcommand", "pinVerify"}

\* When the consumer has returned, early or not, its producer comes to an end,
\* except where it sends without a look at the context.
ProducerEnds == (consumer = "returned" /\ stream \notin SendsBare) ~> (producer = "done")

\* Every function returns once its producer has sent something or ended, or the
\* context has ended.
StreamReturns == (sent > 0 \/ cancelled \/ producer # "working") ~> (consumer = "returned")

-----------------------------------------------------------------------------
(***************************************************************************)
(* `ipfs dag export` and `ipfs get`: a goroutine walks the DAG and writes  *)
(* into a pipe, the handler sends what comes out of it to the client       *)
(* (core/commands/dag/export.go, core/commands/get.go).  Blocks may be     *)
(* missing, the client may go away, and the context of the request ends    *)
(* when the client is gone or the handler has returned.                    *)
(***************************************************************************)

CONSTANTS
  Chunks,    \* how many writes a whole transfer takes
  BufSize    \* how many of them the buffered writer of get holds

ASSUME TransferConstants == Chunks \in Nat /\ BufSize \in Nat

VARIABLES
  transfer,   \* "export", "tar" or "gzip"
  tarWriter,     \* the goroutine: "idle", "write", "flush", "close" or "ended"
  produced,   \* chunks it has written
  held,       \* of those, the ones in the buffered writer
  pipe,       \* "open", "eof" or "error" (closed by the writer), "gone" (by the reader)
  errCh,      \* export's channel: errors not read
  handler,    \* "start", "emit", "wait", "ok" or "error"
  received,   \* chunks the client has
  client,     \* "there" or "gone"
  closer      \* get's goroutine that closes the reader: "none", "waits" or "ended"

trVars == <<transfer, tarWriter, produced, held, pipe, errCh, handler, received, client, closer>>

TransferInit ==
  /\ transfer \in {"export", "tar", "gzip"} /\ tarWriter = "idle" /\ produced = 0 /\ held = 0
  /\ pipe = "open" /\ errCh = <<>> /\ handler = "start" /\ received = 0 /\ client = "there" /\ closer = "none"

Finished == handler \in {"ok", "error"}
ContextDone == client = "gone" \/ Finished

ClientLeaves ==
  /\ client = "there" /\ client' = "gone"
  /\ UNCHANGED <<transfer, tarWriter, produced, held, pipe, errCh, handler, received, closer>>

\* dagExport: the root block is looked for first, so that it fails fast.
ExportStart ==
  /\ transfer = "export" /\ handler = "start"
  /\ \/ handler' = "emit" /\ tarWriter' = "write"
     \/ handler' = "error" /\ UNCHANGED tarWriter
  /\ UNCHANGED <<transfer, produced, held, pipe, errCh, received, client, closer>>

\* GetCmd.Run: the node is found, fileArchive starts the writer (a gzip without a tar
\* of what is not a file is refused), and a goroutine waits for the context's end.
GetStart ==
  /\ transfer # "export" /\ handler = "start"
  /\ \/ handler' = "emit" /\ tarWriter' = "write" /\ closer' = "waits"
     \/ handler' = "error" /\ UNCHANGED <<tarWriter, closer>>
  /\ UNCHANGED <<transfer, produced, held, pipe, errCh, received, client>>

\* The writer and the handler meet in the pipe: n chunks reach the client.
PipeMoves(n) ==
  /\ pipe = "open" /\ handler = "emit" /\ client = "there"
  /\ received' = received + n

\* A chunk of the CAR.
ExportWrite ==
  /\ transfer = "export" /\ tarWriter = "write" /\ produced < Chunks
  /\ PipeMoves(1) /\ produced' = produced + 1
  /\ UNCHANGED <<transfer, tarWriter, held, pipe, errCh, handler, client, closer>>

\* TraverseV1 fails: a block is missing, the context is done or the reader is gone.
\* Its error is put into the channel before the pipe is closed.
ExportFails ==
  /\ transfer = "export" /\ tarWriter = "write"
  /\ errCh' = Append(errCh, "failed") /\ tarWriter' = "close"
  /\ UNCHANGED <<transfer, produced, held, pipe, handler, received, client, closer>>

\* The deferred function: the pipe ends without an error, then errCh is closed.
ExportClose ==
  /\ transfer = "export"
  /\ tarWriter = "close" \/ (tarWriter = "write" /\ produced = Chunks)
  /\ tarWriter' = "ended" /\ pipe' = IF pipe = "open" THEN "eof" ELSE pipe
  /\ UNCHANGED <<transfer, produced, held, errCh, handler, received, client, closer>>

\* A chunk of the archive: into the buffer, or through it when it is full.
GetWrite ==
  /\ transfer # "export" /\ tarWriter = "write" /\ produced < Chunks
  /\ produced' = produced + 1
  /\ \/ held < BufSize /\ held' = held + 1 /\ UNCHANGED received
     \/ held = BufSize /\ PipeMoves(held + 1) /\ held' = 0
  /\ UNCHANGED <<transfer, tarWriter, pipe, errCh, handler, client, closer>>

\* checkErrAndClosePipe: a node cannot be read, or the reader is gone.
ClosePipeWithError ==
  /\ transfer # "export" /\ tarWriter \in {"write", "flush"}
  /\ tarWriter' = "ended" /\ pipe' = IF pipe = "open" THEN "error" ELSE pipe
  /\ UNCHANGED <<transfer, produced, held, errCh, handler, received, client, closer>>

GetWritten ==
  /\ transfer # "export" /\ tarWriter = "write" /\ produced = Chunks /\ tarWriter' = "flush"
  /\ UNCHANGED <<transfer, produced, held, pipe, errCh, handler, received, client, closer>>

\* closeGzwAndPipe: the buffer is flushed, then the pipe closed.
CloseGzwAndPipe ==
  /\ transfer # "export" /\ tarWriter = "flush"
  /\ IF held = 0 THEN UNCHANGED <<received, held>> ELSE PipeMoves(held) /\ held' = 0
  /\ tarWriter' = "ended" /\ pipe' = IF pipe = "open" THEN "eof" ELSE pipe
  /\ UNCHANGED <<transfer, produced, errCh, handler, client, closer>>

\* Emit fails since the client is gone: export closes the reader itself.
EmitFails ==
  /\ handler = "emit" /\ client = "gone" /\ handler' = "error"
  /\ pipe' = IF transfer = "export" /\ pipe = "open" THEN "gone" ELSE pipe
  /\ UNCHANGED <<transfer, tarWriter, produced, held, errCh, received, client, closer>>

\* Emit returns the reader's error.
EmitReadError ==
  /\ handler = "emit" /\ pipe \in {"error", "gone"} /\ handler' = "error"
  /\ UNCHANGED <<transfer, tarWriter, produced, held, pipe, errCh, received, client, closer>>

\* Emit is through: get is done, export waits for its errors.
EmitDone ==
  /\ handler = "emit" /\ pipe = "eof"
  /\ handler' = IF transfer = "export" THEN "wait" ELSE "ok"
  /\ UNCHANGED <<transfer, tarWriter, produced, held, pipe, errCh, received, client, closer>>

\* dagExport: the first error, or none when the channel was closed.
ExportReturn ==
  /\ handler = "wait" /\ (errCh # <<>> \/ tarWriter = "ended")
  /\ handler' = IF errCh = <<>> THEN "ok" ELSE "error"
  /\ errCh' = <<>>
  /\ UNCHANGED <<transfer, tarWriter, produced, held, pipe, received, client, closer>>

\* get: the reader is closed once the context is done.
CloseReader ==
  /\ closer = "waits" /\ ContextDone /\ closer' = "ended"
  /\ pipe' = IF pipe = "open" THEN "gone" ELSE pipe
  /\ UNCHANGED <<transfer, tarWriter, produced, held, errCh, handler, received, client>>

\* What the goroutines do on their own account, and cannot put off.
WriteFails == pipe = "gone" /\ (ExportFails \/ ClosePipeWithError)
TransferStep ==
  \/ ExportStart \/ GetStart \/ ExportWrite \/ ExportClose \/ GetWrite \/ GetWritten \/ CloseGzwAndPipe
  \/ EmitFails \/ EmitReadError \/ EmitDone \/ ExportReturn \/ CloseReader \/ WriteFails

TransferNext == ClientLeaves \/ TransferStep \/ ExportFails \/ ClosePipeWithError

TransferSpec == TransferInit /\ [][TransferNext]_trVars /\ WF_trVars(TransferStep)

----------------------------------------------------------------------------
(* A transfer that reports success gave the client all of it, although the  *)
(* writer's failure and the end of the pipe reach the handler on two ways   *)
(* (export.go:79), or in the pipe behind a buffer (get.go:306).             *)
SuccessIsWhole == handler = "ok" => received = Chunks

(* No goroutine of a transfer outlives it, whoever fails or goes away       *)
(* first: the writer and get's closer end (get.go:101, export.go:74).       *)
TransferEnds ==
  (handler # "start") ~> (Finished /\ tarWriter \in {"idle", "ended"} /\ closer # "waits")
=============================================================================
