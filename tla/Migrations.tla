----------------------------- MODULE Migrations -----------------------------
(***************************************************************************)
(* The migration of an outdated repository                                 *)
(* (repo/fsrepo/migrations, and its callers the daemon and `ipfs repo      *)
(* migrate`): the programs that are not on the PATH are downloaded          *)
(* concurrently from the configured sources, then run one after the other; *)
(* each of them, an external program, moves the repo one version up.       *)
(***************************************************************************)
EXTENDS Naturals, Sequences

CONSTANTS
  Versions,    \* the repo versions there can be on disk, an interval
  MigTarget,      \* fsrepo.RepoVersion
  SourceLists, \* the values of Migration.DownloadSources, sequences of "https", "ipfs", "empty" and "malformed"
  MaxTries,    \* numTriesPerHTTP
  MaxRuns      \* bound on the number of times the user starts kubo

ASSUME MigrationConstants == Versions \subseteq Nat /\ MigTarget \in Versions /\ MaxTries \in Nat \ {0}

VARIABLES
  version,  \* the version file of the repo
  mpc,      \* where the caller is
  caller,   \* "daemon" or "command"
  keep,     \* Migration.Keep
  sources,  \* Migration.DownloadSources
  bins,     \* the migrations whose program is at hand; n stands for fs-repo-n-to-(n+1)
  dl,       \* the downloads: phase, source being tried and tries made of it
  todo,     \* the migrations left to run
  temp,     \* the IpfsFetcher's temporary node and directory
  migAdded,    \* the migrations whose archives the daemon's node has
  runs

mVars == <<version, mpc, caller, keep, sources, bins, dl, todo, temp, migAdded, runs>>

Idle == {"ok", "refused", "failed", "crashed"}

MigInit ==
  /\ version \in Versions
  /\ mpc = "ok" /\ caller = "daemon"
  /\ keep = "discard" /\ sources = << >>
  /\ bins = {} /\ dl = << >> /\ todo = << >> /\ temp = "none" /\ migAdded = {} /\ runs = 0

\* The version file is compared with the version this program works with.
RepoVersionOf == CASE version < MigTarget -> "configure" [] version = MigTarget -> "ok" [] OTHER -> "failed"

\* Open, in the daemon or in `ipfs repo migrate`: only an older repo is to be
\* migrated; a newer one is an error, whatever --allow-downgrade says.
MigStart ==
  /\ mpc \in Idle /\ runs < MaxRuns
  /\ runs' = runs + 1
  /\ caller' \in {"daemon", "command"}
  /\ mpc' = RepoVersionOf
  /\ bins' = {} /\ dl' = << >> /\ todo' = << >> /\ temp' = "none"
  /\ UNCHANGED <<version, keep, sources, migAdded>>

\* The values of Migration.Keep that the documentation gives, and those that
\* ReadMigrationConfig accepts.
DocumentedKeep == {"discard", "cache", "pin"}
KnownKeep == {"discard", "cache", "keep"}

\* The config is read, or unreadable.
ReadMigrationConfig ==
  /\ mpc = "configure"
  /\ keep' \in DocumentedKeep \union KnownKeep /\ sources' \in SourceLists
  /\ mpc' \in (IF keep' \in KnownKeep THEN {"fetcher", "failed"} ELSE {"refused"})
  /\ UNCHANGED <<version, caller, bins, dl, todo, temp, migAdded, runs>>

\* One fetcher per source; an empty source is passed over, a malformed one is an
\* error, and so is none at all.
GetMigrationFetcher ==
  /\ mpc = "fetcher"
  /\ sources' = SelectSeq(sources, LAMBDA src : src # "empty")
  /\ mpc' = IF sources' = << >> \/ \E i \in DOMAIN sources' : sources'[i] = "malformed" THEN "failed" ELSE "find"
  /\ UNCHANGED <<version, caller, keep, bins, dl, todo, temp, migAdded, runs>>

Needed(from) == {n \in Versions : from <= n /\ n < MigTarget}

\* Mutant: the list starts after the current version.
FindMigrationsSkip ==
  /\ mpc = "find"
  /\ todo' = [i \in 1 .. MigTarget - version - 1 |-> version + i]
  /\ bins' \in SUBSET Needed(version)
  /\ dl' = [n \in Needed(version) \ bins' |-> [phase |-> "versions", src |-> 1, tries |-> 0]]
  /\ mpc' = "download"
  /\ UNCHANGED <<version, caller, keep, sources, temp, migAdded, runs>>

\* findMigrations: the migrations in order, and those found on the PATH.
FindMigrations ==
  /\ mpc = "find"
  /\ todo' = [i \in 1 .. MigTarget - version |-> version + i - 1]
  /\ bins' \in SUBSET Needed(version)
  /\ dl' = [n \in Needed(version) \ bins' |-> [phase |-> "versions", src |-> 1, tries |-> 0]]
  /\ mpc' = "download"
  /\ UNCHANGED <<version, caller, keep, sources, temp, migAdded, runs>>

-----------------------------------------------------------------------------
(* One goroutine per missing migration: the list of versions, then the     *)
(* archive, each from the first source that has it.                        *)

Fetching(n) == mpc = "download" /\ n \in DOMAIN dl /\ dl[n].phase \in {"versions", "archive"}
FromIpfs(n) == sources[dl[n].src] = "ipfs"

\* The first Fetch of the IpfsFetcher starts its temporary node; the others wait
\* for it (openOnce).
OpenTempNode(n) ==
  /\ Fetching(n) /\ FromIpfs(n) /\ temp = "none"
  /\ temp' \in {"running", "broken"}
  /\ UNCHANGED <<version, mpc, caller, keep, sources, bins, dl, todo, migAdded, runs>>

\* What a fetch brings: the list of versions, of which the latest is taken, then
\* the archive.
Delivered(d) ==
  IF d.phase = "versions" THEN [phase |-> "archive", src |-> 1, tries |-> 0] ELSE [d EXCEPT !.phase = "unpack"]

\* A gateway, or the temporary node, delivers.
HttpFetch(n) ==
  /\ Fetching(n) /\ ~FromIpfs(n)
  /\ dl' = [dl EXCEPT ![n] = Delivered(@)]
  /\ UNCHANGED <<version, mpc, caller, keep, sources, bins, todo, temp, migAdded, runs>>
IpfsFetch(n) ==
  /\ Fetching(n) /\ FromIpfs(n) /\ temp = "running"
  /\ dl' = [dl EXCEPT ![n] = Delivered(@)]
  /\ UNCHANGED <<version, mpc, caller, keep, sources, bins, todo, temp, migAdded, runs>>

\* The archive is unpacked, or has no such program.
UnpackArchive(n) ==
  /\ mpc = "download" /\ n \in DOMAIN dl /\ dl[n].phase = "unpack"
  /\ \E p \in {"done", "failed"} : dl' = [dl EXCEPT ![n].phase = p]
  /\ UNCHANGED <<version, mpc, caller, keep, sources, bins, todo, temp, migAdded, runs>>

\* MultiFetcher goes on to the next source.
MultiFetch(d) ==
  IF d.src < Len(sources) THEN [d EXCEPT !.src = @ + 1, !.tries = 0] ELSE [d EXCEPT !.phase = "failed"]

\* Mutant: the retries of one source are never used up.
AfterFailureAgain(d) == d

\* RetryFetcher tries HTTP MaxTries times before that.
AfterFailure(d) ==
  IF sources[d.src] = "https" /\ d.tries + 1 < MaxTries THEN [d EXCEPT !.tries = @ + 1] ELSE MultiFetch(d)

FetchFails(n) ==
  /\ Fetching(n) /\ (FromIpfs(n) => temp # "none")
  /\ dl' = [dl EXCEPT ![n] = AfterFailure(@)]
  /\ UNCHANGED <<version, mpc, caller, keep, sources, bins, todo, temp, migAdded, runs>>

Downloaded == {n \in DOMAIN dl : dl[n].phase = "done"}

\* wg.Wait: one download that failed, and no migration is run.
DownloadsJoin ==
  /\ mpc = "download" /\ \A n \in DOMAIN dl : dl[n].phase \in {"done", "failed"}
  /\ bins' = bins \union Downloaded
  /\ mpc' = IF Downloaded = DOMAIN dl THEN "run" ELSE "close"
  /\ UNCHANGED <<version, caller, keep, sources, dl, todo, temp, migAdded, runs>>

-----------------------------------------------------------------------------
\* The program of one migration (external): it succeeds, and the repo has the
\* next version, or it fails, and the run ends.
RunMigration ==
  /\ mpc = "run" /\ todo # << >>
  /\ \/ version' = Head(todo) + 1 /\ todo' = Tail(todo) /\ UNCHANGED mpc
     \/ mpc' = "close" /\ UNCHANGED <<version, todo>>
  /\ UNCHANGED <<caller, keep, sources, bins, dl, temp, migAdded, runs>>

\* The daemon adds what was kept ("pin" never gets here, and "keep" is not looked
\* for): the files in the download directory for an
\* HTTP fetcher, the paths it fetched for the IpfsFetcher; the first fetcher
\* with an error, such as an IpfsFetcher that was never used, ends the walk.
Migrated ==
  /\ mpc = "run" /\ todo = << >>
  /\ migAdded' = IF caller = "daemon" /\ keep = "cache" /\ (sources[1] = "https" \/ temp = "running")
              THEN migAdded \union Downloaded ELSE migAdded
  /\ mpc' = "closeOk"
  /\ UNCHANGED <<version, caller, keep, sources, bins, dl, todo, temp, runs>>

\* fetcher.Close: the temporary node stops, its directory is removed.
FetcherClose ==
  /\ mpc \in {"close", "closeOk"}
  /\ temp' = IF temp = "none" THEN "none" ELSE "closed"
  /\ mpc' = IF mpc = "close" THEN "failed" ELSE "ok"
  /\ UNCHANGED <<version, caller, keep, sources, bins, dl, todo, migAdded, runs>>

\* The process dies; what is on disk stays.
MigCrash ==
  /\ mpc \notin Idle
  /\ mpc' = "crashed"
  /\ UNCHANGED <<version, caller, keep, sources, bins, dl, todo, temp, migAdded, runs>>

MigStep ==
  \/ ReadMigrationConfig \/ GetMigrationFetcher \/ FindMigrations \/ DownloadsJoin \/ RunMigration \/ Migrated
  \/ FetcherClose
  \/ \E n \in Versions :
       OpenTempNode(n) \/ HttpFetch(n) \/ IpfsFetch(n) \/ UnpackArchive(n) \/ FetchFails(n)

MigNext == MigStart \/ MigStep \/ MigCrash

\* Programs and fetches end, one way or the other.
MigFairness == WF_mVars(MigStep)

MigSpec == MigInit /\ [][MigNext]_mVars /\ MigFairness

-----------------------------------------------------------------------------
\* No program of a series runs before all of the series are at hand: a failed
\* download leaves the repo as it was.
RunOnlyComplete == mpc = "run" => Needed(version) \subseteq bins

\* The series starts where the repo is, after a crash or a failure in the middle
\* of an earlier one too, and what is left of it leads to the target.
SeriesFitsRepo ==
  mpc = "run" => todo = [i \in 1 .. MigTarget - version |-> version + i - 1]

\* A caller that has returned has stopped the temporary node it started, and
\* removed its directory, one that failed to start included.
TempNodeGone == mpc \in {"ok", "refused", "failed"} => temp \in {"none", "closed"}

\* The programs that run are the series from the version the repo has to the
\* target, all of it at hand, after a failure or a crash at any point too.
SeriesWhole == RunOnlyComplete /\ SeriesFitsRepo
=============================================================================
