------------------------------- MODULE RepoGC -------------------------------
(***************************************************************************)
(* `ipfs repo gc` and the periodic collection, as a producer and a         *)
(* consumer of results (gc/gc.go, core/corerepo/gc.go, core/commands/      *)
(* repo.go): the collector holds the GC lock and sends removed keys and    *)
(* errors into a bounded channel, the caller reads them and may go away.   *)
(*                                                                         *)
(* What is marked and swept is the business of GarbageCollector; here a    *)
(* collection is a number of results, some of them errors.                 *)
(***************************************************************************)
EXTENDS Integers, Sequences

CONSTANTS Cap,         \* capacity of the output channel (128 in the code)
          MaxResults,  \* bound on the results of one collection
          Modes,       \* how the caller reads: subset of {"stream", "collect"}
          RootsMayFail \* may BestEffortRoots fail?

ASSUME RepoGCAssumption ==
  /\ Cap \in Nat \ {0}
  /\ MaxResults \in Nat
  /\ Modes \subseteq {"stream", "collect"}
  /\ RootsMayFail \in BOOLEAN

VARIABLES mode,        \* how this call reads its results
          cpc,         \* the caller
          sweeperPc,         \* the collector's goroutine
          output, closed,    \* the channel
          gcSent,        \* results the collector has had to report
          sweepErrors,      \* the collector's `errors` flag: a delete failed
          failed,      \* an error of any kind was met
          reqDone,     \* the request's context has ended
          collected,   \* the caller has read an error
          gcResult       \* what the call returned

rgVars == <<mode, cpc, sweeperPc, output, closed, gcSent, sweepErrors, failed, reqDone, collected, gcResult>>

Results == {"key", "error"}

RepoGcInit ==
  /\ mode \in Modes
  /\ cpc = "idle"
  /\ sweeperPc = "none"
  /\ output = << >>
  /\ closed = FALSE
  /\ gcSent = 0
  /\ sweepErrors = FALSE
  /\ failed = FALSE
  /\ reqDone = FALSE
  /\ collected = FALSE
  /\ gcResult = "none"

\* The collector has the GC lock from its start to its deferred unlock.
Locked == sweeperPc \notin {"none", "done"}

\* The request's context ends: the client is gone or the call has returned.
Cancel ==
  /\ cpc # "idle"
  /\ ~reqDone
  /\ reqDone' = TRUE
  /\ UNCHANGED <<mode, cpc, sweeperPc, output, closed, gcSent, sweepErrors, failed, collected, gcResult>>

-----------------------------------------------------------------------------
(***************************************************************************)
(* The caller.                                                             *)
(***************************************************************************)

\* GarbageCollectAsync: the MFS root is read and the collection started.
GarbageCollectAsync ==
  /\ cpc = "idle"
  /\ cpc' = "read"
  /\ sweeperPc' = "mark"
  /\ UNCHANGED <<mode, output, closed, gcSent, sweepErrors, failed, reqDone, collected, gcResult>>

\* The root cannot be read: the error is sent into a new channel without a
\* buffer, before anybody can receive from it.
AsyncRootsFail ==
  /\ RootsMayFail
  /\ cpc = "idle"
  /\ cpc' = "send"
  /\ failed' = TRUE
  /\ UNCHANGED <<mode, sweeperPc, output, closed, gcSent, sweepErrors, reqDone, collected, gcResult>>

CallReturn(r) ==
  /\ cpc' = "returned"
  /\ gcResult' = r

\* The channel is closed and empty: return what was collected.
ReadClosed ==
  /\ cpc = "read"
  /\ closed
  /\ output = << >>
  /\ CallReturn(IF collected THEN "error" ELSE "nil")
  /\ UNCHANGED <<mode, sweeperPc, output, closed, gcSent, sweepErrors, failed, reqDone, collected>>

\* One result.  A streaming caller emits it and returns at once if the client
\* does not take it; CollectResult ignores a client that has gone.
ReadResult ==
  /\ cpc = "read"
  /\ output # << >>
  /\ output' = Tail(output)
  /\ collected' = (collected \/ Head(output) = "error")
  /\ \/ UNCHANGED <<cpc, gcResult>>
     \/ mode = "stream" /\ CallReturn("error")
  /\ UNCHANGED <<mode, sweeperPc, closed, gcSent, sweepErrors, failed, reqDone>>

\* CollectResult notices the end of the context; the streaming caller does not.
ReadCancelled ==
  /\ cpc = "read"
  /\ mode = "collect"
  /\ reqDone
  /\ CallReturn("error")
  /\ UNCHANGED <<mode, sweeperPc, output, closed, gcSent, sweepErrors, failed, reqDone, collected>>

\* The request is over when its handler returns: the server ends its context.
EndRequest ==
  /\ cpc = "returned"
  /\ Cancel

-----------------------------------------------------------------------------
(***************************************************************************)
(* The collector.                                                          *)
(***************************************************************************)

\* Mutant: the send does not give up when the context ends.
SendBlocking(r, next, stop) ==
  /\ Len(output) < Cap
  /\ output' = Append(output, r)
  /\ sweeperPc' = next

\* select { case output <- r: ; case <-ctx.Done(): }
Send(r, next, stop) ==
  \/ Len(output) < Cap /\ output' = Append(output, r) /\ sweeperPc' = next
  \/ reqDone /\ sweeperPc' = stop /\ UNCHANGED output

\* ColoredSet: links that cannot be read are reported while it goes on...
MarkError ==
  /\ sweeperPc = "mark"
  /\ gcSent < MaxResults
  /\ gcSent' = gcSent + 1
  /\ failed' = TRUE
  /\ sweepErrors' = TRUE
  /\ Send("error", "mark", "mark")
  /\ UNCHANGED <<mode, cpc, closed, reqDone, collected, gcResult>>

\* ... and at the end stop the collection (ErrCannotFetchAllLinks).
MarkFailed ==
  /\ sweeperPc = "mark"
  /\ sweepErrors
  /\ Send("error", "close", "close")
  /\ UNCHANGED <<mode, cpc, closed, gcSent, sweepErrors, failed, reqDone, collected, gcResult>>

MarkDone ==
  /\ sweeperPc = "mark"
  /\ ~sweepErrors
  /\ sweeperPc' = "sweep"
  /\ UNCHANGED <<mode, cpc, output, closed, gcSent, sweepErrors, failed, reqDone, collected, gcResult>>

\* A key is removed, or cannot be.
SweepKey ==
  /\ sweeperPc = "sweep"
  /\ gcSent < MaxResults
  /\ gcSent' = gcSent + 1
  /\ \/ /\ Send("key", "sweep", IF sweepErrors THEN "summary" ELSE "datastore")
        /\ UNCHANGED <<sweepErrors, failed>>
     \/ Send("error", "sweep", "summary") /\ sweepErrors' = TRUE /\ failed' = TRUE
  /\ UNCHANGED <<mode, cpc, closed, reqDone, collected, gcResult>>

\* No more keys, or the loop sees the end of the context.
SweepEnds ==
  /\ sweeperPc = "sweep"
  /\ sweeperPc' = IF sweepErrors THEN "summary" ELSE "datastore"
  /\ UNCHANGED <<mode, cpc, output, closed, gcSent, sweepErrors, failed, reqDone, collected, gcResult>>

\* ErrCannotDeleteSomeBlocks.
SweepSummary ==
  /\ sweeperPc = "summary"
  /\ Send("error", "datastore", "close")
  /\ UNCHANGED <<mode, cpc, closed, gcSent, sweepErrors, failed, reqDone, collected, gcResult>>

\* The datastore's own CollectGarbage, which may fail.
DatastoreGC ==
  /\ sweeperPc = "datastore"
  /\ \/ sweeperPc' = "close" /\ UNCHANGED <<output, failed>>
     \/ Send("error", "close", "close") /\ failed' = TRUE
  /\ UNCHANGED <<mode, cpc, closed, gcSent, sweepErrors, reqDone, collected, gcResult>>

\* The deferred calls: unlock, close(output), cancel.
SweeperReturn ==
  /\ sweeperPc = "close"
  /\ sweeperPc' = "done"
  /\ closed' = TRUE
  /\ UNCHANGED <<mode, cpc, output, gcSent, sweepErrors, failed, reqDone, collected, gcResult>>

CallerStep == ReadClosed \/ ReadResult \/ ReadCancelled
SweeperStep == MarkError \/ MarkFailed \/ MarkDone \/ SweepKey \/ SweepEnds
            \/ SweepSummary \/ DatastoreGC \/ SweeperReturn

RepoGcNext == Cancel \/ GarbageCollectAsync \/ AsyncRootsFail \/ CallerStep \/ SweeperStep

RepoGcSpec == RepoGcInit /\ [][RepoGcNext]_rgVars

\* Both goroutines run, and the context of a request that has returned ends.
RepoGcFairSpec == RepoGcSpec /\ WF_rgVars(CallerStep) /\ WF_rgVars(SweeperStep) /\ WF_rgVars(EndRequest)

-----------------------------------------------------------------------------
\* A call that returns without an error has met none: no error is lost between
\* the collector's sends and the caller's return, unless the context ended.
ErrorsReported == gcResult = "nil" /\ ~reqDone => ~failed

\* The collector never keeps the GC lock for ever, even if the caller stops
\* reading while the channel is full.
LockReleased == Locked ~> ~Locked

\* CollectResult: all errors are collected "into a MultiError which is returned
\* after the gc is completed".  A call that has got its channel returns.  (One
\* whose MFS root could not be read never gets it: AsyncRootsFail.)
CallReturns == cpc = "read" ~> cpc = "returned"
=============================================================================
