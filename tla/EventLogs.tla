------------------------------ MODULE EventLogs ------------------------------
(***************************************************************************)
(* Two logs that forget on purpose: the peer log plugin, which drops       *)
(* events when it falls behind and reports how many                        *)
(* (plugin/plugins/peerlog/peerlog.go), and the request log behind         *)
(* `ipfs diag cmds`, which drops finished requests after a while           *)
(* (commands/reqlog.go).                                                   *)
(***************************************************************************)
EXTENDS Integers, Sequences, SequencesExt, FiniteSets

CONSTANTS
  EventQueueSize, \* eventQueueSize
  BusyDrop,       \* busyDropAmount
  MaxEmitted,     \* bound: events emitted
  CleanupEvery,   \* requests between two clean-ups
  KeepTimes,      \* arguments of SetKeepTime
  MaxLogged,    \* bound: requests
  MaxTime         \* bound: the clock

ASSUME EventLogConstants ==
  /\ EventQueueSize \in Nat \ {0} /\ BusyDrop \in Nat \ {0} /\ CleanupEvery \in Nat \ {0}
  /\ KeepTimes \subseteq Nat

VARIABLES
  evEmitted,   \* events emitted so far: event n is the n-th
  evQueue,   \* pl.events
  droppedCount,
  collector, \* collectEvents: pc, its dropped, how many it drained
  peerLog    \* what it logged: events, skipped ones, and counts of dropped ones

plVars == <<evEmitted, evQueue, droppedCount, collector, peerLog>>

PeerLogInit ==
  /\ evEmitted = 0 /\ evQueue = <<>> /\ droppedCount = 0
  /\ collector = [pc |-> "check", dropped |-> 0, drained |-> 0]
  /\ peerLog = [events |-> <<>>, skipped |-> 0, reported |-> 0]

\* emit, by the notifier or by the reader of identify events: it never blocks.
Emit ==
  /\ evEmitted < MaxEmitted /\ evEmitted' = evEmitted + 1
  /\ IF Len(evQueue) < EventQueueSize
     THEN evQueue' = Append(evQueue, evEmitted') /\ UNCHANGED droppedCount
     ELSE droppedCount' = droppedCount + 1 /\ UNCHANGED evQueue
  /\ UNCHANGED <<collector, peerLog>>

\* SwapUint64 at the top of the loop.
CollectCheck ==
  /\ collector.pc = "check" /\ droppedCount' = 0
  /\ collector' = IF droppedCount > 0 THEN [pc |-> "sleep", dropped |-> droppedCount, drained |-> 0]
                  ELSE [collector EXCEPT !.pc = "recv"]
  /\ UNCHANGED <<evEmitted, evQueue, peerLog>>

CollectWake ==
  /\ collector.pc = "sleep" /\ collector' = [collector EXCEPT !.pc = "drain"]
  /\ UNCHANGED <<evEmitted, evQueue, droppedCount, peerLog>>

\* Part of the backlog goes.
CollectDrain ==
  /\ collector.pc = "drain"
  /\ IF collector.drained < BusyDrop /\ evQueue # <<>>
     THEN evQueue' = Tail(evQueue)
          /\ collector' = [collector EXCEPT !.dropped = @ + 1, !.drained = @ + 1]
     ELSE collector' = [collector EXCEPT !.pc = "report"] /\ UNCHANGED evQueue
  /\ UNCHANGED <<evEmitted, droppedCount, peerLog>>

\* Mutant: what was dropped in the meantime is taken and not added in.
CollectReportLoses ==
  /\ collector.pc = "report" /\ droppedCount' = 0
  /\ peerLog' = [peerLog EXCEPT !.reported = @ + collector.dropped]
  /\ collector' = [pc |-> "recv", dropped |-> 0, drained |-> 0]
  /\ UNCHANGED <<evEmitted, evQueue>>

\* The second SwapUint64 and the report.
CollectReport ==
  /\ collector.pc = "report" /\ droppedCount' = 0
  /\ peerLog' = [peerLog EXCEPT !.reported = @ + collector.dropped + droppedCount]
  /\ collector' = [pc |-> "recv", dropped |-> 0, drained |-> 0]
  /\ UNCHANGED <<evEmitted, evQueue>>

\* An event that is logged.
CollectLog ==
  /\ collector.pc = "recv" /\ evQueue # <<>> /\ evQueue' = Tail(evQueue)
  /\ peerLog' = [peerLog EXCEPT !.events = Append(@, Head(evQueue))]
  /\ collector' = [collector EXCEPT !.pc = "check"]
  /\ UNCHANGED <<evEmitted, droppedCount>>

\* An identified peer whose agent version is not known is skipped.
CollectSkip ==
  /\ collector.pc = "recv" /\ evQueue # <<>> /\ evQueue' = Tail(evQueue)
  /\ peerLog' = [peerLog EXCEPT !.skipped = @ + 1]
  /\ collector' = [collector EXCEPT !.pc = "check"]
  /\ UNCHANGED <<evEmitted, droppedCount>>

\* ctx.Done, where the collector waits.
CollectStop ==
  /\ collector.pc \in {"sleep", "recv"} /\ collector' = [collector EXCEPT !.pc = "stopped"]
  /\ UNCHANGED <<evEmitted, evQueue, droppedCount, peerLog>>

CollectStep == CollectCheck \/ CollectWake \/ CollectDrain \/ CollectReport \/ CollectLog \/ CollectSkip
PeerLogNext == Emit \/ CollectStep \/ CollectStop
PeerLogFairness == WF_plVars(CollectStep)
PeerLogSpec == PeerLogInit /\ [][PeerLogNext]_plVars /\ PeerLogFairness

(* Every event emitted is in the queue, was taken from it, or is counted    *)
(* as dropped, once: none is lost between the two swaps of the counter      *)
(* (peerlog.go:111, 136) or at a full queue, and those logged are in order. *)
EventsAccounted ==
  /\ evEmitted = Len(evQueue) + droppedCount + collector.dropped
               + Len(peerLog.events) + peerLog.skipped + peerLog.reported
  /\ IsSorted(peerLog.events, <)

----------------------------------------------------------------------------
VARIABLES
  reqEntries, \* rl.Requests: ids in order
  reqStarted,  \* every request so far: id |-> its entry
  reqKeep, reqNow,
  keepSet,  \* history: the last SetKeepTime
  mayGo     \* history: finished requests that were cleared, or older than that

rqVars == <<reqEntries, reqStarted, reqKeep, reqNow, keepSet, mayGo>>

ReqLogInit ==
  /\ reqEntries = <<>> /\ reqStarted = <<>> /\ reqNow = 0 /\ mayGo = {} /\ reqKeep = 0 /\ keepSet = 0

Expired(id, entries, k, t) == ~entries[id].active /\ entries[id].end + k <= t

\* cleanup, one entry after the other: active ones stay, and finished ones for a while.
Cleanup(reqs, entries, k) ==
  LET kept[j \in 0 .. Len(reqs)] ==
        IF j = 0 THEN <<>>
        ELSE IF Expired(reqs[j], entries, k, reqNow) THEN kept[j - 1] ELSE Append(kept[j - 1], reqs[j])
  IN  kept[Len(reqs)]

\* maybeCleanup.
MaybeCleanup(reqs, entries, k) ==
  IF Len(reqs) % CleanupEvery = 0 THEN Cleanup(reqs, entries, k) ELSE reqs

\* LogRequest, AddEntry: the entry is active.
ReqLogAdd ==
  /\ Len(reqStarted) < MaxLogged
  /\ reqStarted' = Append(reqStarted, [active |-> TRUE, end |-> 0])
  /\ reqEntries' = Append(reqEntries, Len(reqStarted'))
  /\ UNCHANGED <<reqKeep, reqNow, keepSet, mayGo>>

\* The requests that a clean-up at this instant may drop.
Droppable(entries, k, t) == {id \in DOMAIN entries : Expired(id, entries, k, t)}

\* Finish.
Finish(id) ==
  /\ reqStarted[id].active
  /\ reqStarted' = [reqStarted EXCEPT ![id] = [active |-> FALSE, end |-> reqNow]]
  /\ reqEntries' = MaybeCleanup(reqEntries, reqStarted', reqKeep)
  /\ mayGo' = mayGo \union Droppable(reqStarted', keepSet, reqNow)
  /\ UNCHANGED <<reqKeep, keepSet, reqNow>>

\* ClearInactive.
ClearInactive ==
  /\ reqEntries' = Cleanup(reqEntries, reqStarted, 0)
  /\ mayGo' = mayGo \union Droppable(reqStarted, 0, reqNow)
  /\ UNCHANGED <<reqStarted, reqKeep, keepSet, reqNow>>

SetKeepTime(k) ==
  /\ reqKeep' = k /\ keepSet' = k /\ mayGo' = mayGo \union Droppable(reqStarted, k, reqNow)
  /\ UNCHANGED <<reqEntries, reqStarted, reqNow>>

TimePasses ==
  /\ reqNow < MaxTime /\ reqNow' = reqNow + 1
  /\ mayGo' = mayGo \union Droppable(reqStarted, keepSet, reqNow')
  /\ UNCHANGED <<reqEntries, reqStarted, reqKeep, keepSet>>

ReqLogNext ==
  \/ ReqLogAdd \/ ClearInactive \/ TimePasses
  \/ \E id \in DOMAIN reqStarted : Finish(id)
  \/ \E k \in KeepTimes : SetKeepTime(k)

(* `ipfs diag cmds` shows every request that runs, and every finished one   *)
(* that nobody cleared and whose time is not up, once and in the order they *)
(* came, although clearing the log borrows the keep time (reqlog.go:55, 69). *)
RequestsShown ==
  /\ DOMAIN reqStarted \ mayGo \subseteq ToSet(reqEntries)
  /\ IsSorted(reqEntries, <)

\* Neither log loses anything: events are logged or counted as dropped, requests
\* are shown until they may go.
LogsAccounted == EventsAccounted /\ RequestsShown
=============================================================================
