----------------------------- MODULE MCServices -----------------------------
(***************************************************************************)
(* The daemon and what goes on beside it, one component at a time: every   *)
(* behaviour is one of Daemon, Migrations, FuseMount, the loop or the      *)
(* commands of RemotePins, named by part, beside the others at rest.       *)
(***************************************************************************)
EXTENDS Daemon, Migrations, FuseMount, RemotePins

VARIABLE part   \* the component at work

CONSTANTS rA, rB, s1, s2

mcPlugins == <<"ipld", "peerlog", "fxtest">>
mcDaemonPlugins == {"peerlog", "fxtest"}

\* MFS pinning: a service that is on, and one whose interval does not parse.
PinOn == [enable |-> TRUE, interval |-> "default"]
PinBad == [enable |-> TRUE, interval |-> "invalid"]
mcConfigs == {PinOn, PinBad}
mcOneConfig == {PinOn}
mcFaults == [k \in FaultKinds |-> 1]
mcConfigFault == [k \in FaultKinds |-> IF k = "config" THEN 1 ELSE 0]

mcSourceLists == {<<"https", "ipfs">>, <<"ipfs", "https">>, <<"empty">>, <<"https", "malformed">>}

mcFirstRequests == {<<"x", "y">>, <<"x", "x">>}

\* Servers, services and clients by number, for the fairness.
mcServers == <<"api", "libp2p", "gw">>
mcServices == <<s1, s2, None>>
mcClients == <<"a", "b", "c">>

\* The state at rest of MFS pinning.
PinMfsAtRest == mfsRoot = rA /\ \A s \in Services : cfg[s] = PinBad

vars == <<part, pmVars, dVars, mVars, fuVars, rpVars>>

\* A step of the component p: the others stay as they are.
On(p, A) ==
  /\ part = p /\ A
  /\ UNCHANGED part
  /\ IF p = "pinmfs" THEN TRUE ELSE UNCHANGED pmVars
  /\ IF p = "daemon" THEN TRUE ELSE UNCHANGED dVars
  /\ IF p = "migrations" THEN TRUE ELSE UNCHANGED mVars
  /\ IF p = "mount" THEN TRUE ELSE UNCHANGED fuVars
  /\ IF p = "remote" THEN TRUE ELSE UNCHANGED rpVars

\* One component works in a behaviour; the others are in one state of their Init.
Init ==
  /\ part \in {"pinmfs", "daemon", "migrations", "mount", "remote"}
  /\ PinMfsInit /\ (part = "pinmfs" \/ PinMfsAtRest)
  /\ DaemonInit
  /\ MigInit /\ (part = "migrations" \/ version = MigTarget)
  /\ FuseInit
  /\ RemoteInit /\ (part = "remote" \/ requests[2].cid = "y")

Next ==
  \/ On("pinmfs", PinMfsNext)
  \/ On("daemon", DaemonNext)
  \/ On("migrations", MigNext)
  \/ On("mount", FuseNext)
  \/ On("remote", RemoteNext)

\* The fairness of the components, behaviour by behaviour: the goroutines that run
\* beside each other have a conjunct each, whichever component they belong to.
FirstStep == On("daemon", Main) \/ On("pinmfs", TimerFires) \/ On("migrations", MigStep)
SecondStep == On("daemon", Stopping) \/ On("pinmfs", LoopStep)
NthStep(n) ==
  \/ On("daemon", \E s \in AllServers : s = mcServers[n] /\ ServerStep(s))
  \/ On("pinmfs", \E s \in Services : s = mcServices[n] /\ IntervalPasses(s))
  \/ On("remote", \E c \in RemoteClients : c = mcClients[n] /\ ClientStep(c))
  \/ On("mount", n \in MountCmds /\ MountStep(n))
NthAnswer(n) ==
  \/ On("pinmfs", \E s \in Services \ Hanging : s = mcServices[n] /\ Request(s))
  \/ On("remote", n \in RequestIds /\ ServiceWorks(n))
Fairness ==
  /\ WF_vars(FirstStep) /\ WF_vars(SecondStep)
  /\ \A n \in 1 .. 3 : WF_vars(NthStep(n)) /\ WF_vars(NthAnswer(n))
  /\ WF_vars(On("daemon", GCCollected \/ GCSend)) /\ SF_vars(On("daemon", GCStop))

Spec == Init /\ [][Next]_vars /\ Fairness

\* The daemon alone, and MFS pinning alone.
DaemonAlone == part = "daemon" /\ Spec
PinMfsAlone == part = "pinmfs" /\ Spec

-----------------------------------------------------------------------------
\* Whoever returns, fails or is closed leaves nothing behind: the daemon its repo,
\* its plugins and its downloads, a migration its temporary node, a failed mount
\* command or a closed node its mounts.
NothingLeftBehind ==
  ReturnCleansUp /\ PluginsClosedAtExit /\ TempNodeGone /\ FailedLeavesNone /\ NoMountLeft

\* What was begun ends: a migration, as its retries are bounded; a mount command,
\* whatever the kernel and the file systems do; a remote add that waits, whatever the
\* service decides and whoever removes the request; a daemon without the GC loop
\* whose node has stopped.
Begun(n) ==
  \/ part = "migrations" /\ mpc = "download"
  \/ part = "mount" /\ MountAt(n, "mount")
  \/ part = "remote" /\ rclient[mcClients[n]].pc = "poll"
  \/ part = "daemon" /\ app = "stopped" /\ gcLoop = "off"
Over(n) ==
  \/ part = "migrations" /\ mpc \in Idle
  \/ part = "mount" /\ mcmd[n].pc \in {"ok", "error"}
  \/ part = "remote" /\ rclient[mcClients[n]].pc \in Ended
  \/ part = "daemon" /\ (Gone \/ gcLoop # "off")
ServicesEnd == \A n \in 1 .. 2 : Begun(n) ~> Over(n)
=============================================================================
