------------------------------- MODULE AddCmd -------------------------------
(***************************************************************************)
(* The command `ipfs add` (core/commands/add.go).  On the node: the        *)
(* options are made up from flags and config; then, file by file, a        *)
(* goroutine adds (holding the pin lock), optionally puts a link into MFS, *)
(* and reports through a channel of events the handler passes on.  On the  *)
(* client: PostRun feeds a progress goroutine and waits for it.            *)
(***************************************************************************)
EXTENDS Naturals, Sequences

CONSTANTS
  AddNames,      \* the names of the files: a sequence
  EventsEach,    \* events the adder reports for a file
  OutChanSize    \* adderOutChanSize

ASSUME AddCmdConstants ==
  /\ AddNames \in Seq(STRING) /\ Len(AddNames) > 0
  /\ EventsEach \in Nat /\ OutChanSize \in Nat \ {0}

----------------------------------------------------------------------------
(* Options: raw leaves.                                                    *)
VARIABLE addOpts   \* the flags, the config, and what came of them

Tristate == {"unset", "true", "false"}

\* Run: the flag, else Import.UnixFSRawLeaves, where set; UnixFS metadata turns raw
\* leaves off unless one of the two has turned them on.
RawLeaves(flag, cfg, meta) ==
  LET rawblks == IF flag # "unset" THEN flag ELSE cfg IN
  IF meta THEN IF rawblks = "true" THEN "refused" ELSE "false"
  ELSE rawblks

\* Run: --only-hash and --wrap cannot go with --to-files, nor a fraction without a time.
Incompatible(o) == (o.toFiles # "none" /\ (o.onlyHash \/ o.wrap)) \/ (o.mtimeNsecs /\ ~o.mtime)

OptsInit ==
  \E f \in Tristate, c \in Tristate, m \in BOOLEAN :
    addOpts = [flag |-> f, cfg |-> c, meta |-> m, raw |-> RawLeaves(f, c, m)]

(* Asked to keep mode or mtime, `add` refuses or writes no raw leaves, which *)
(* have no room for them, wherever the setting came from (add.go:283).       *)
MetadataFits == addOpts.meta => addOpts.raw \in {"false", "refused"}

----------------------------------------------------------------------------
(* The handler and the goroutine that adds.                                *)
VARIABLES
  addRun,      \* [i, pc, emitted]: the file at hand; "next", "drain", "ok" or "error"; events passed on
  addOption,   \* the options that change what is done
  adding,      \* the goroutine: [pc, left]; "none", "add", "files" or "ended"; events still to come
  events,      \* how many events are in the channel
  addErrCh,    \* errCh: "empty", "nil" or "err"
  mfsNames,    \* names in the destination directory
  mfsPut,      \* history: what this command put there
  pinLocked,   \* the goroutine holds the pin lock
  addClient    \* "there" or "gone"

adVars == <<addRun, addOption, adding, events, addErrCh, mfsNames, mfsPut, pinLocked, addClient>>

AddCmdInit ==
  /\ addOption \in [toFiles : {"none", "dir", "file", "missing"}, onlyHash : BOOLEAN, wrap : BOOLEAN,
                    mtime : {FALSE}, mtimeNsecs : BOOLEAN]
  /\ addRun = [i |-> 1, pc |-> IF Incompatible(addOption) THEN "error" ELSE "next", emitted |-> 0]
  /\ adding = [pc |-> "none", left |-> 0] /\ events = 0 /\ addErrCh = "empty"
  /\ mfsNames \in {{}, {AddNames[1]}} /\ mfsPut = {} /\ pinLocked = FALSE /\ addClient = "there"

AddEntry == AddNames[addRun.i]

\* The next file: its goroutine, with channels of its own.
AddNextFile ==
  /\ addRun.pc = "next" /\ addRun.i <= Len(AddNames)
  /\ addRun' = [addRun EXCEPT !.pc = "drain", !.emitted = 0]
  /\ adding' = [pc |-> "add", left |-> EventsEach] /\ pinLocked' = TRUE
  /\ events' = 0 /\ addErrCh' = "empty"
  /\ UNCHANGED <<addOption, mfsNames, mfsPut, addClient>>

\* All files are done.
AddAllDone ==
  /\ addRun.pc = "next" /\ addRun.i > Len(AddNames)
  /\ addRun' = [addRun EXCEPT !.pc = "ok"]
  /\ UNCHANGED <<addOption, adding, events, addErrCh, mfsNames, mfsPut, pinLocked, addClient>>

\* The adder reports: a send on the events channel, with nothing to leave it by.
AdderEvent ==
  /\ adding.pc = "add" /\ adding.left > 0 /\ events < OutChanSize
  /\ adding' = [adding EXCEPT !.left = @ - 1] /\ events' = events + 1
  /\ UNCHANGED <<addRun, addOption, addErrCh, mfsNames, mfsPut, pinLocked, addClient>>

\* The goroutine's end: errCh has room for one error, and events is closed last.
GoroutineEnds(err) == adding' = [adding EXCEPT !.pc = "ended"] /\ addErrCh' = err

AdderFails ==
  /\ adding.pc = "add" /\ pinLocked' = FALSE /\ GoroutineEnds("err")
  /\ UNCHANGED <<addRun, addOption, events, mfsNames, mfsPut, addClient>>

\* Unixfs().Add returns; --to-files is next.
AdderDone ==
  /\ adding.pc = "add" /\ adding.left = 0 /\ pinLocked' = FALSE
  /\ IF addOption.toFiles = "none" THEN GoroutineEnds("nil")
     ELSE adding' = [adding EXCEPT !.pc = "files"] /\ UNCHANGED addErrCh
  /\ UNCHANGED <<addRun, addOption, events, mfsNames, mfsPut, addClient>>

\* The name the link gets: in a directory the file's own.
ToFilesName == IF addOption.toFiles = "dir" THEN AddEntry ELSE "dst"

\* --to-files refuses a file without a name, a destination that is not there, a second
\* file for a destination that is a file; PutNode refuses a name that exists.
ToFilesRefused ==
  \/ addOption.toFiles = "missing" \/ AddEntry = ""
  \/ (mfsPut # {} /\ addOption.toFiles = "file")
  \/ ToFilesName \in mfsNames

ToFilesPut ==
  /\ adding.pc = "files"
  /\ IF ToFilesRefused
     THEN GoroutineEnds("err") /\ UNCHANGED <<mfsNames, mfsPut>>
     ELSE /\ GoroutineEnds("nil") /\ mfsNames' = mfsNames \union {ToFilesName}
          /\ mfsPut' = mfsPut \union {<<ToFilesName, addRun.i>>}
  /\ UNCHANGED <<addRun, addOption, events, pinLocked, addClient>>

\* The handler passes an event on.
AddEmit ==
  /\ addRun.pc = "drain" /\ events > 0 /\ addClient = "there"
  /\ events' = events - 1 /\ addRun' = [addRun EXCEPT !.emitted = @ + 1]
  /\ UNCHANGED <<addOption, adding, addErrCh, mfsNames, mfsPut, pinLocked, addClient>>

\* The client is gone: Emit fails, and the handler returns with the goroutine at work.
AddEmitFails ==
  /\ addRun.pc = "drain" /\ events > 0 /\ addClient = "gone"
  /\ events' = events - 1 /\ addRun' = [addRun EXCEPT !.pc = "error"]
  /\ UNCHANGED <<addOption, adding, addErrCh, mfsNames, mfsPut, pinLocked, addClient>>

\* Events is empty and closed: the goroutine's error, then the next file.
AddJoin ==
  /\ addRun.pc = "drain" /\ events = 0 /\ adding.pc = "ended"
  /\ addRun' = IF addErrCh = "nil" THEN [addRun EXCEPT !.pc = "next", !.i = @ + 1] ELSE [addRun EXCEPT !.pc = "error"]
  /\ addErrCh' = "empty"
  /\ UNCHANGED <<addOption, adding, events, mfsNames, mfsPut, pinLocked, addClient>>

AddClientLeaves ==
  /\ addClient = "there" /\ addClient' = "gone"
  /\ UNCHANGED <<addRun, addOption, adding, events, addErrCh, mfsNames, mfsPut, pinLocked>>

AddCmdStep ==
  AddNextFile \/ AddAllDone \/ AdderEvent \/ AdderDone \/ ToFilesPut \/ AddEmit \/ AddEmitFails \/ AddJoin
AddCmdNext == AddCmdStep \/ AdderFails \/ AddClientLeaves

----------------------------------------------------------------------------
(* The client's PostRun.                                                   *)
VARIABLES
  post,       \* [pc, val, seen]: "next", "put", "close", "wait" or "returned"; events received
  bar,        \* the progress goroutine: [pc, printed]; "loop", "ended"
  outChan,    \* "open" or "closed"
  postCtx     \* the request's context: "live" or "done"

poVars == <<post, bar, outChan, postCtx>>

PostInit ==
  /\ post = [pc |-> "next", seen |-> 0, err |-> FALSE] /\ bar = [pc |-> "loop", printed |-> 0]
  /\ outChan = "open" /\ postCtx = "live"

\* res.Next: an event, the end, or an error.
PostNext ==
  /\ post.pc = "next"
  /\ \/ post.seen < EventsEach /\ post' = [post EXCEPT !.pc = "put", !.seen = @ + 1]
     \/ \E e \in BOOLEAN : post' = [post EXCEPT !.pc = "close", !.err = e]
  /\ UNCHANGED <<bar, outChan, postCtx>>

\* The event goes to the progress goroutine.
PostPut ==
  /\ post.pc = "put" /\ bar.pc = "loop"
  /\ post' = [post EXCEPT !.pc = "next"] /\ bar' = [bar EXCEPT !.printed = @ + 1]
  /\ UNCHANGED <<outChan, postCtx>>

\* The select's other way out: the context.
PostCancelled ==
  /\ post.pc = "put" /\ postCtx = "done"
  /\ post' = [post EXCEPT !.pc = "close", !.err = TRUE]
  /\ UNCHANGED <<bar, outChan, postCtx>>

\* Deferred: outChan is closed, then the progress goroutine waited for.
PostClose ==
  /\ post.pc = "close" /\ outChan' = "closed" /\ post' = [post EXCEPT !.pc = "wait"]
  /\ UNCHANGED <<bar, postCtx>>

PostReturn ==
  /\ post.pc = "wait" /\ bar.pc = "ended" /\ post' = [post EXCEPT !.pc = "returned"]
  /\ UNCHANGED <<bar, outChan, postCtx>>

\* progressBar's loop ends with outChan or with the context.
BarEnds ==
  /\ bar.pc = "loop" /\ (outChan = "closed" \/ postCtx = "done")
  /\ bar' = [bar EXCEPT !.pc = "ended"]
  /\ UNCHANGED <<post, outChan, postCtx>>

PostInterrupted == postCtx = "live" /\ postCtx' = "done" /\ UNCHANGED <<post, bar, outChan>>

PostStep == PostNext \/ PostPut \/ PostCancelled \/ PostClose \/ PostReturn \/ BarEnds
PostRunNext == PostStep \/ PostInterrupted

----------------------------------------------------------------------------
(* Of the files of an `add` that succeeds, all events were passed on and,   *)
(* with --to-files, each has its own link (add.go:378).                     *)
AddSuccessWhole ==
  /\ addRun.pc = "ok" /\ addOption.toFiles # "none" => {p[2] : p \in mfsPut} = 1 .. Len(AddNames)
  /\ (addRun.pc = "next" /\ addRun.i > 1) => addRun.emitted = EventsEach

(* While its client stays, an `add` comes to an end and frees the pin lock  *)
(* (add.go:390); a client that goes away may leave the goroutine at a full  *)
(* channel, with the lock.                                                  *)
AddFreesPinLock ==
  pinLocked ~> (addClient = "gone" \/ (addRun.pc \in {"ok", "error"} /\ ~pinLocked))

(* PostRun returns, and not before the progress goroutine has ended,        *)
(* whichever of end, error and interrupt comes first (add.go:643).          *)
PostRunReturns == (post.pc # "next" \/ post.seen > 0) ~> (post.pc = "returned" /\ bar.pc = "ended")

(* Every event that came before an undisturbed end was printed (add.go:651).*)
AllPrinted == post.pc = "returned" /\ postCtx = "live" => bar.printed = post.seen

=============================================================================
