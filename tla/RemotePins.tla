----------------------------- MODULE RemotePins -----------------------------
(***************************************************************************)
(* Remote pinning services: the daemon's loop that keeps the MFS root      *)
(* pinned there (cmd/ipfs/kubo/pinmfs.go), and the commands `ipfs pin      *)
(* remote add`, `rm` and `service ls --stat` (core/commands/pin/           *)
(* remotepin.go).  A service is external: it answers or not, its answers   *)
(* can get lost, and it moves pin requests from status to status on its    *)
(* own.                                                                    *)
(***************************************************************************)
EXTENDS Integers, Sequences, FiniteSets

-----------------------------------------------------------------------------
(***************************************************************************)
(* The loop.  Each round reads the config and the MFS root, starts one     *)
(* request per service that needs one, waits for all of them and arms the  *)
(* poll timer again.                                                       *)
(*                                                                         *)
(* Time is one flag per service: has its RepinInterval passed since the    *)
(* time noted in lastPins?                                                 *)
(***************************************************************************)
CONSTANTS Roots,       \* CIDs the MFS root may have
          Services,
          Configs,     \* service configurations: [enable, interval] records
          Hanging,     \* services that may never answer
          MaxFaults,   \* bound on the faults of each kind
          MaxChanges,  \* bound on changes of the MFS root and the config
          None

Intervals == {"default", "valid", "invalid"}

\* The config or the MFS root cannot be read, a request fails, an answer is lost.
FaultKinds == {"config", "root", "request", "answer"}

ASSUME ServiceAssumption ==
  /\ Hanging \subseteq Services
  /\ Configs \subseteq [enable : BOOLEAN, interval : Intervals]
  /\ MaxFaults \in [FaultKinds -> Nat] /\ MaxChanges \in Nat

VARIABLES mfsRoot,     \* the MFS root
          cfg,         \* the config file
          timer,       \* the poll timer: armed, fired or spent
          lpc,         \* where the loop is
          rootCid, svcConfig,    \* what this round has read
          req,         \* the request goroutine of each service
          lastPins,    \* the last pin known to be at each service
          due,         \* services whose RepinInterval has passed
          remote,      \* what each service has under the policy's pin name
          faults,      \* how many faults of each kind there have been
          changes

loopVars == <<timer, lpc, rootCid, svcConfig, req, lastPins, due, remote>>
pmVars == <<mfsRoot, cfg, loopVars, faults, changes>>

NoPin == [cid |-> None, config |-> None]
Pin == [cid : Roots, config : Configs]

PinMfsInit ==
  /\ mfsRoot \in Roots
  /\ cfg \in [Services -> Configs]
  /\ timer = "armed"
  /\ lpc = "sleep"
  /\ rootCid = mfsRoot
  /\ svcConfig = cfg
  /\ req = [s \in Services |-> "idle"]
  /\ lastPins = [s \in Services |-> NoPin]
  /\ due = {}
  /\ remote = [s \in Services |-> None]
  /\ faults = [k \in FaultKinds |-> 0]
  /\ changes = 0

Fault(k) == faults[k] < MaxFaults[k] /\ faults' = [faults EXCEPT ![k] = @ + 1]

-----------------------------------------------------------------------------
(***************************************************************************)
(* The surroundings: `ipfs files`, `ipfs config`, the clock, the daemon's  *)
(* shutdown.                                                               *)
(***************************************************************************)
ChangeRoot(r) ==
  /\ changes < MaxChanges
  /\ mfsRoot' = r
  /\ changes' = changes + 1
  /\ UNCHANGED <<cfg, loopVars, faults>>

ChangeConfig(s, k) ==
  /\ changes < MaxChanges
  /\ cfg' = [cfg EXCEPT ![s] = k]
  /\ changes' = changes + 1
  /\ UNCHANGED <<mfsRoot, loopVars, faults>>

IntervalPasses(s) ==
  /\ lastPins[s] # NoPin
  /\ s \notin due
  /\ due' = due \cup {s}
  /\ UNCHANGED <<mfsRoot, cfg, timer, lpc, rootCid, svcConfig, req, lastPins, remote, faults, changes>>

TimerFires ==
  /\ timer = "armed"
  /\ timer' = "fired"
  /\ UNCHANGED <<mfsRoot, cfg, lpc, rootCid, svcConfig, req, lastPins, due, remote, faults, changes>>

StopPinning ==
  /\ lpc = "sleep"
  /\ lpc' = "stopped"
  /\ UNCHANGED <<mfsRoot, cfg, timer, rootCid, svcConfig, req, lastPins, due, remote, faults, changes>>

-----------------------------------------------------------------------------
(***************************************************************************)
(* pinMFSOnChange.                                                         *)
(***************************************************************************)

\* The loop wakes and reads the config.
Wake ==
  /\ lpc = "sleep"
  /\ timer = "fired"
  /\ timer' = "spent"
  /\ lpc' = "root"
  /\ svcConfig' = cfg
  /\ UNCHANGED <<mfsRoot, cfg, rootCid, req, lastPins, due, remote, faults, changes>>

\* The config cannot be read: `continue`, past the Reset at the loop's end.
WakeConfigError ==
  /\ Fault("config")
  /\ lpc = "sleep"
  /\ timer = "fired"
  /\ timer' = "spent"
  /\ UNCHANGED <<mfsRoot, cfg, lpc, rootCid, svcConfig, req, lastPins, due, remote, changes>>

\* Mutant: one pin per service and config, whatever happens to the root.
SkipOncePinned(s, r) ==
  \/ ~svcConfig[s].enable
  \/ svcConfig[s].interval = "invalid"
  \/ lastPins[s].config = svcConfig[s]

\* pinAllMFS leaves a service alone: MFS pinning is off, its RepinInterval does
\* not parse, or under the same config the root is pinned or it is too early.
Skip(s, r) ==
  \/ ~svcConfig[s].enable
  \/ svcConfig[s].interval = "invalid"
  \/ lastPins[s].config = svcConfig[s] /\ (lastPins[s].cid = r \/ s \notin due)

\* pinAllMFS: read the root and start the requests.
PinAllMFS ==
  /\ lpc = "root"
  /\ Services # {}
  /\ rootCid' = mfsRoot
  /\ req' = [s \in Services |-> IF Skip(s, mfsRoot) THEN "idle" ELSE "running"]
  /\ lpc' = "collect"
  /\ UNCHANGED <<mfsRoot, cfg, timer, svcConfig, lastPins, due, remote, faults, changes>>

\* No service is configured, or the root cannot be read.
PinNothing ==
  /\ lpc = "root"
  /\ IF Services = {} THEN UNCHANGED faults ELSE Fault("root")
  /\ lpc' = "sleep"
  /\ timer' = "armed"
  /\ UNCHANGED <<mfsRoot, cfg, rootCid, svcConfig, req, lastPins, due, remote, changes>>

\* One request (pinMFS): the service lists the pin of that name, and it is
\* added or replaced if it is not this root's.
Request(s) ==
  /\ req[s] = "running"
  /\ remote' = [remote EXCEPT ![s] = rootCid]
  /\ req' = [req EXCEPT ![s] = "ok"]
  /\ UNCHANGED <<mfsRoot, cfg, timer, lpc, rootCid, svcConfig, lastPins, due, faults, changes>>

\* The listing or the change fails at the service.
RequestFails(s) ==
  /\ Fault("request")
  /\ req[s] = "running"
  /\ req' = [req EXCEPT ![s] = "failed"]
  /\ UNCHANGED <<mfsRoot, cfg, timer, lpc, rootCid, svcConfig, lastPins, due, remote, changes>>

\* The change is made but the answer is lost.
AnswerLost(s) ==
  /\ Fault("answer")
  /\ req[s] = "running"
  /\ remote' = [remote EXCEPT ![s] = rootCid]
  /\ req' = [req EXCEPT ![s] = "failed"]
  /\ UNCHANGED <<mfsRoot, cfg, timer, lpc, rootCid, svcConfig, lastPins, due, changes>>

\* The loop receives a result: a valid one is noted.
CollectPin(s) ==
  /\ lpc = "collect"
  /\ req[s] \in {"ok", "failed"}
  /\ req' = [req EXCEPT ![s] = "idle"]
  /\ IF req[s] = "ok"
     THEN /\ lastPins' = [lastPins EXCEPT ![s] = [cid |-> rootCid, config |-> svcConfig[s]]]
          /\ due' = due \ {s}
     ELSE UNCHANGED <<lastPins, due>>
  /\ UNCHANGED <<mfsRoot, cfg, timer, lpc, rootCid, svcConfig, remote, faults, changes>>

\* All results are in: arm the timer.
RoundDone ==
  /\ lpc = "collect"
  /\ \A s \in Services : req[s] = "idle"
  /\ lpc' = "sleep"
  /\ timer' = "armed"
  /\ UNCHANGED <<mfsRoot, cfg, rootCid, svcConfig, req, lastPins, due, remote, faults, changes>>

LoopStep ==
  \/ Wake \/ PinAllMFS \/ RoundDone
  \/ \E s \in Services : CollectPin(s)

PinMfsNext ==
  \/ \E r \in Roots : ChangeRoot(r)
  \/ \E s \in Services, k \in Configs : ChangeConfig(s, k)
  \/ \E s \in Services : IntervalPasses(s)
  \/ TimerFires \/ StopPinning
  \/ LoopStep \/ WakeConfigError \/ PinNothing
  \/ \E s \in Services : Request(s) \/ RequestFails(s) \/ AnswerLost(s)

PinMfsSpec == PinMfsInit /\ [][PinMfsNext]_pmVars

\* Timers fire, the loop runs, and every service that does not hang answers.
PinMfsFairSpec ==
  /\ PinMfsSpec
  /\ WF_pmVars(TimerFires)
  /\ WF_pmVars(LoopStep)
  /\ \A s \in Services : WF_pmVars(IntervalPasses(s))
  /\ \A s \in Services \ Hanging : WF_pmVars(Request(s))

-----------------------------------------------------------------------------
\* Between rounds, what lastPins holds for a service is what the service has,
\* unless an answer was lost: a stale entry would make later rounds skip the
\* service for good.
LastPinsTrue ==
  \A s \in Services :
    req[s] = "idle" /\ lastPins[s] # NoPin /\ faults["answer"] = 0 =>
      remote[s] = lastPins[s].cid

Active(s) == cfg[s].enable /\ cfg[s].interval # "invalid"

\* docs/config.md: the policy "follows changes to MFS and updates the pin for MFS
\* root on the configured remote service".  While the daemon runs, an answering
\* service for which MFS pinning is enabled gets a root that stays.
FollowsMFS ==
  \A s \in Services \ Hanging : \A r \in Roots :
    <>[](lpc # "stopped" /\ mfsRoot = r /\ Active(s)) => <>[](remote[s] = r)

\* It does so whatever requests fail and reads of the root fail, as long as every
\* config can be read and no answer is lost.
FollowsMFSUndisturbed ==
  [](faults["config"] = 0 /\ faults["answer"] = 0) => FollowsMFS

\* The services follow the MFS root, and the loop's notes of what they have are
\* true.
PinsFollowMFS == []LastPinsTrue /\ FollowsMFSUndisturbed

-----------------------------------------------------------------------------
(***************************************************************************)
(* The commands: several clients of one service, which keeps pin requests. *)
(***************************************************************************)
CONSTANTS
  RemoteClients,  \* commands, each of which runs once
  RemoteCids,     \* contents to pin
  MaxRequests,    \* bound on the number of pin requests at the service
  FirstRequests   \* sequences of contents that may be pinned there from before

ASSUME RemoteConstants ==
  MaxRequests \in Nat /\ \A first \in FirstRequests : first \in Seq({first[i] : i \in DOMAIN first})

Statuses == {"queued", "pinning", "pinned", "failed"}
NoCid == "none"
RequestIds == 1 .. MaxRequests

VARIABLES
  requests,   \* at the service: ID -> content and status, "none" or "gone"
  rclient,    \* the commands
  wasPinned,  \* history: requests that were pinned at some time
  removedBy   \* history: the clients that deleted a request, by request

rpVars == <<requests, rclient, wasPinned, removedBy>>

IdleRemote == [pc |-> "idle", cid |-> NoCid, statuses |-> {}, flag |-> FALSE, id |-> 0, todo |-> {}]
Ended == {"ok", "error", "failed", "interrupted", "refused", "invalid"}

RemoteInit ==
  /\ \E first \in FirstRequests :
       requests = [i \in RequestIds |-> IF i <= Len(first) THEN [cid |-> first[i], status |-> "pinned"]
                                       ELSE [cid |-> NoCid, status |-> "none"]]
  /\ rclient = [c \in RemoteClients |-> IdleRemote]
  /\ wasPinned = {i \in RequestIds : requests[i].status = "pinned"} /\ removedBy = [i \in RequestIds |-> {}]

ClientAt(c, pc) == rclient[c].pc = pc
ClientTo(c, pc) == rclient' = [rclient EXCEPT ![c].pc = pc]
ServiceAsIs == UNCHANGED <<requests, wasPinned, removedBy>>

\* The service comes from the config; it may not be known there, and its endpoint
\* may be no URL.
GetRemotePinService(c, r) ==
  /\ ClientAt(c, "idle")
  /\ \/ rclient' = [rclient EXCEPT ![c] = r]
     \/ ClientTo(c, "error")
  /\ ServiceAsIs

-----------------------------------------------------------------------------
\* pin remote add; the flag is --background.
AddRemotePin(c, cid, background) ==
  GetRemotePinService(c, [IdleRemote EXCEPT !.pc = "add", !.cid = cid, !.flag = background])

\* c.Add: the service takes the request, and the answer arrives or not; or it does
\* not take it.
RequestPin(c) ==
  /\ ClientAt(c, "add")
  /\ \/ /\ \E i \in RequestIds :
             /\ requests[i].status = "none" /\ \A j \in 1 .. i - 1 : requests[j].status # "none"
             /\ requests' = [requests EXCEPT ![i] = [cid |-> rclient[c].cid, status |-> "queued"]]
             /\ \/ rclient' = [rclient EXCEPT ![c].pc = "delegates", ![c].id = i]
                \/ ClientTo(c, "error")
        /\ UNCHANGED <<wasPinned, removedBy>>
     \/ ClientTo(c, "error") /\ ServiceAsIs

\* The node connects to the service's delegates; an address that is none ends the
\* command, a failed connection does not.  With --background this is the end.
ConnectDelegates(c) ==
  /\ ClientAt(c, "delegates")
  /\ \/ ClientTo(c, IF rclient[c].flag THEN "ok" ELSE "poll")
     \/ ClientTo(c, "error")
  /\ ServiceAsIs

\* c.GetStatusByID, until the request is pinned or has failed; an error, such as
\* that the request is gone, ends the command.
PollStatus(c) ==
  /\ ClientAt(c, "poll")
  /\ \/ LET s == requests[rclient[c].id].status IN
        ClientTo(c, CASE s = "pinned" -> "ok" [] s = "failed" -> "failed" [] s = "gone" -> "error" [] OTHER -> "wait")
     \/ ClientTo(c, "error")
  /\ ServiceAsIs
PollAgain(c) == ClientAt(c, "wait") /\ ClientTo(c, "poll") /\ ServiceAsIs

\* The user gives up: the request stays at the service.
PollInterrupt(c) == ClientAt(c, "wait") /\ ClientTo(c, "interrupted") /\ ServiceAsIs

-----------------------------------------------------------------------------
\* pin remote rm; the flag is --force.
RmRemotePin(c, cid, statuses, force) ==
  GetRemotePinService(c, [IdleRemote EXCEPT !.pc = "list", !.cid = cid, !.statuses = statuses, !.flag = force])

\* lsRemote collects the requests that match, or fails.
RmList(c) ==
  /\ ClientAt(c, "list")
  /\ \/ rclient' = [rclient EXCEPT ![c].pc = "confirm",
          ![c].todo = {i \in RequestIds : requests[i].cid = rclient[c].cid /\ requests[i].status \in rclient[c].statuses}]
     \/ ClientTo(c, "error")
  /\ ServiceAsIs

\* Mutant: the removal of several requests needs no confirmation.
RmConfirmAny(c) == ClientAt(c, "confirm") /\ ClientTo(c, "delete") /\ ServiceAsIs

RmConfirm(c) ==
  /\ ClientAt(c, "confirm")
  /\ ClientTo(c, IF Cardinality(rclient[c].todo) > 1 /\ ~rclient[c].flag THEN "refused" ELSE "delete")
  /\ ServiceAsIs

\* One DeleteByID after the other, by ID, whatever status the request has by now.
\* The first failure, such as that it is gone, ends the command.
RmDelete(c) ==
  /\ ClientAt(c, "delete")
  /\ \/ rclient[c].todo = {} /\ ClientTo(c, "ok") /\ ServiceAsIs
     \/ \E i \in rclient[c].todo :
          /\ requests[i].status \in Statuses
          /\ requests' = [requests EXCEPT ![i].status = "gone"]
          /\ removedBy' = [removedBy EXCEPT ![i] = @ \union {c}]
          /\ rclient' = [rclient EXCEPT ![c].todo = @ \ {i}]
          /\ UNCHANGED wasPinned
     \/ rclient[c].todo # {} /\ ClientTo(c, "error") /\ ServiceAsIs

-----------------------------------------------------------------------------
\* pin remote service ls --stat: four counts, each by a goroutine of its own; one
\* that fails makes the service invalid, and so do not all count the same state.
StatRemote(c) == GetRemotePinService(c, [IdleRemote EXCEPT !.pc = "stat", !.statuses = Statuses])
StatCount(c) ==
  /\ ClientAt(c, "stat")
  /\ \/ \E s \in rclient[c].statuses : rclient' = [rclient EXCEPT ![c].statuses = @ \ {s},
          ![c].todo = @ \union {i \in RequestIds : requests[i].status = s}]
     \/ rclient[c].statuses = {} /\ ClientTo(c, "ok")
     \/ rclient[c].statuses # {} /\ ClientTo(c, "invalid")
  /\ ServiceAsIs

\* The service works on its requests.
ServiceWorks(i) ==
  /\ requests[i].status \in {"queued", "pinning"}
  /\ \E s \in IF requests[i].status = "queued" THEN {"pinning"} ELSE {"pinned", "failed"} :
       /\ requests' = [requests EXCEPT ![i].status = s]
       /\ wasPinned' = IF s = "pinned" THEN wasPinned \union {i} ELSE wasPinned
  /\ UNCHANGED <<rclient, removedBy>>

ClientStep(c) ==
  \/ RequestPin(c) \/ ConnectDelegates(c) \/ PollStatus(c) \/ PollAgain(c)
  \/ RmList(c) \/ RmConfirm(c) \/ RmDelete(c) \/ StatCount(c)

RemoteNext ==
  \/ \E c \in RemoteClients :
       \/ ClientStep(c) \/ PollInterrupt(c) \/ StatRemote(c)
       \/ \E cid \in RemoteCids, flag \in BOOLEAN :
            \/ AddRemotePin(c, cid, flag)
            \/ \E st \in {{"pinned"}, Statuses} : RmRemotePin(c, cid, st, flag)
  \/ \E i \in RequestIds : ServiceWorks(i)

\* The commands go on, and the service decides in the end.
RemoteFairness ==
  /\ \A c \in RemoteClients : WF_rpVars(ClientStep(c))
  /\ \A i \in RequestIds : WF_rpVars(ServiceWorks(i))

RemoteSpec == RemoteInit /\ [][RemoteNext]_rpVars /\ RemoteFairness

-----------------------------------------------------------------------------
\* A bulk removal needs --force: without it a command deletes at most one request,
\* whatever other clients add meanwhile; and with it only requests for the content
\* it was asked about.
RmSparesOthers ==
  \A c \in RemoteClients :
    LET mine == {i \in RequestIds : c \in removedBy[i]} IN
    /\ ~rclient[c].flag => Cardinality(mine) <= 1
    /\ \A i \in mine : requests[i].cid = rclient[c].cid

\* Without --background, add reports success only for a request that was pinned.
AddMeansPinned ==
  \A c \in RemoteClients :
    rclient[c].pc = "ok" /\ rclient[c].id > 0 /\ ~rclient[c].flag => rclient[c].id \in wasPinned

\* A request leaves the service only by a command that removes it: one whose add
\* was interrupted, failed or lost its answer is still there ("remains on remote
\* service").
RequestsRemain == \A i \in RequestIds : requests[i].status = "gone" => removedBy[i] # {}

\* Requests come, change and go as their clients were told: commands of several
\* clients, lost answers and interrupts take nothing from another request.
RequestsKept == RmSparesOthers /\ AddMeansPinned /\ RequestsRemain
=============================================================================
