------------------------------ MODULE RefsWalk ------------------------------
(***************************************************************************)
(* `ipfs refs` (core/commands/refs.go): the RefWriter walks the DAGs under *)
(* its arguments depth first and emits an edge for every link, down to a   *)
(* depth and, with --unique, every CID once.  To prune, it remembers the   *)
(* least depth at which it met a CID; that memory outlives an argument     *)
(* whose walk failed.                                                      *)
(***************************************************************************)
EXTENDS Integers, Sequences, FiniteSets

CONSTANTS
  RefNodes,       \* 1..n: a node links to greater ones only
  RefDags,        \* DAGs: a sequence of links for every node
  RefArguments,   \* the lists of arguments, resolved to their root CIDs
  RefDepths,      \* --max-depth; -1: no limit
  RefMissing      \* sets of nodes no Get finds

ASSUME RefsConstants ==
  /\ RefNodes \subseteq Nat \ {0} /\ IsFiniteSet(RefNodes)
  /\ RefDags \subseteq [RefNodes -> Seq(RefNodes)]
  /\ \A g \in RefDags, n \in RefNodes : \A i \in 1 .. Len(g[n]) : g[n][i] > n
  /\ RefArguments \subseteq Seq(RefNodes) /\ RefDepths \subseteq Int
  /\ \A m \in RefMissing : m \subseteq RefNodes

VARIABLES
  dag, unique, maxDepth, missing,   \* what the command was given
  refArgs,    \* the arguments still to be walked
  walk,       \* the calls of writeRefsRecursive, the innermost last: node, next link, depth
  seen,       \* RefWriter.seen: CID to the least depth it was met at
  refsOut,    \* the refs that were emitted: <<from, to>>
  refErrors,  \* how many arguments ended with an error
  allArgs     \* history: the arguments

rfVars == <<dag, unique, maxDepth, missing, refArgs, walk, seen, refsOut, refErrors, allArgs>>

\* RefsCmd.Run: without --recursive only direct refs.
RefsRun(recursive, depth) == IF recursive THEN depth ELSE 1

RefsInit ==
  /\ dag \in RefDags /\ unique \in BOOLEAN /\ missing \in RefMissing
  /\ \E r \in BOOLEAN, d \in RefDepths : maxDepth = RefsRun(r, d)
  /\ allArgs \in RefArguments /\ refArgs = allArgs
  /\ walk = <<>> /\ seen = [n \in {} |-> 0] /\ refsOut = <<>> /\ refErrors = 0

RefsGiven == UNCHANGED <<dag, unique, maxDepth, missing, allArgs>>
WalkTop == walk[Len(walk)]
WalkBelow == SubSeq(walk, 1, Len(walk) - 1)
Call(n, d) == [node |-> n, link |-> 1, depth |-> d]

\* An error leaves every call of writeRefsRecursive; Run emits it and goes on with
\* the next argument.
RefArgumentFails(err) == walk' = <<>> /\ refErrors' = refErrors + 1

\* WriteRefs: the next argument's node.
WriteRefs ==
  /\ walk = <<>> /\ refArgs # <<>>
  /\ refArgs' = Tail(refArgs)
  /\ IF Head(refArgs) \in missing
     THEN RefArgumentFails("root")
     ELSE walk' = <<Call(Head(refArgs), 0)>> /\ UNCHANGED refErrors
  /\ UNCHANGED <<seen, refsOut>> /\ RefsGiven

AtMaxDepth(d) == maxDepth >= 0 /\ d = maxDepth
OverMaxDepth(d) == maxDepth >= 0 /\ d > maxDepth

\* Mutant: a CID that was met before is never walked again.
PrunedOnce(c, d) == OverMaxDepth(d) \/ (unique /\ c \in DOMAIN seen)

\* visit: over the depth; or, with --unique, met before, at least as high or without limit.
Pruned(c, d) == OverMaxDepth(d)
                  \/ (unique /\ c \in DOMAIN seen /\ (maxDepth < 0 \/ seen[c] <= d))

\* visit: whether to go on below c, and whether to write it.
RefVisit(c, d) == [prune  |-> Pruned(c, d),
                deeper |-> ~AtMaxDepth(d),
                write  |-> ~unique \/ c \notin DOMAIN seen]

\* GetDAG asks for all children at once; when one is not found, those that have not
\* arrived yet fail with it.
GetFails(n, c) == \E i \in 1 .. Len(dag[n]) : dag[n][i] \in missing
GetSucceeds(n, c) == c \notin missing

RefSeen(c, d) == IF unique THEN [x \in DOMAIN seen \union {c} |-> IF x = c THEN d ELSE seen[x]] ELSE seen

\* writeRefsRecursive: one link.
RefLink ==
  /\ walk # <<>> /\ WalkTop.link <= Len(dag[WalkTop.node])
  /\ LET n == WalkTop.node
         c == dag[n][WalkTop.link]
         d == WalkTop.depth + 1
         v == RefVisit(c, d)
         on == Append(WalkBelow, [WalkTop EXCEPT !.link = @ + 1])
     IN \/ /\ v.prune
           /\ walk' = on /\ UNCHANGED <<seen, refsOut, refErrors>>
        \/ /\ ~v.prune /\ GetFails(n, c)
           /\ seen' = RefSeen(c, d)
           /\ RefArgumentFails("link") /\ UNCHANGED refsOut
        \/ /\ ~v.prune /\ GetSucceeds(n, c)
           /\ seen' = RefSeen(c, d)
           /\ refsOut' = IF v.write THEN Append(refsOut, <<n, c>>) ELSE refsOut
           /\ walk' = IF v.deeper THEN Append(on, Call(c, d)) ELSE on
           /\ UNCHANGED refErrors
  /\ UNCHANGED refArgs /\ RefsGiven

\* All links of the node are done.
RefReturn ==
  /\ walk # <<>> /\ WalkTop.link > Len(dag[WalkTop.node])
  /\ walk' = WalkBelow
  /\ UNCHANGED <<refArgs, seen, refsOut, refErrors>> /\ RefsGiven

RefsNext == WriteRefs \/ RefLink \/ RefReturn

RefsSpec == RefsInit /\ [][RefsNext]_rfVars

----------------------------------------------------------------------------
(* The reference: how many ways of 1..steps links lead from a node to      *)
(* another one.                                                            *)
RefsDone == walk = <<>> /\ refArgs = <<>>
Longest == Cardinality(RefNodes)

\* The sum of the first k numbers of s.
SumTo(s, k) == LET sum[i \in 0 .. k] == IF i = 0 THEN 0 ELSE sum[i - 1] + s[i] IN sum[k]

\* From n to c, over each link of n: the link itself and the ways from where it leads.
WaysOver(g, ways, n, c) == [i \in 1 .. Len(g[n]) |-> (IF g[n][i] = c THEN 1 ELSE 0) + ways[g[n][i]][c]]
OneFurther(g, ways) == [n \in RefNodes |-> [c \in RefNodes |-> SumTo(WaysOver(g, ways, n, c), Len(g[n]))]]
NoWays == [n \in RefNodes |-> [c \in RefNodes |-> 0]]
WaysFrom(g, steps) ==
  LET ways[d \in 0 .. steps] == IF d = 0 THEN NoWays ELSE OneFurther(g, ways[d - 1]) IN ways[steps]

RefsDepth == IF maxDepth < 0 THEN Longest ELSE maxDepth
WaysTo(ways, c) == SumTo([i \in 1 .. Len(allArgs) |-> ways[allArgs[i]][c]], Len(allArgs))
Times(c) == Cardinality({i \in 1 .. Len(refsOut) : refsOut[i][2] = c})

(* `refs` that reports no error lists exactly the CIDs within the depth of  *)
(* its arguments: each as often as a way leads to it, with --unique once,   *)
(* whatever the order in which pruned branches were met (refs.go:275).      *)
RefsExact ==
  RefsDone /\ refErrors = 0 =>
    LET ways == WaysFrom(dag, RefsDepth) IN
    \A c \in RefNodes : Times(c) = IF unique /\ WaysTo(ways, c) > 0 THEN 1 ELSE WaysTo(ways, c)

(* An argument with a missing block, alone or after others, is never passed *)
(* over in silence: when a listed block or an argument is missing, some     *)
(* error was emitted (refs.go:123).                                         *)
RefsMissingTold ==
  LET ways == WaysFrom(dag, RefsDepth) IN
  RefsDone /\ (\E c \in missing : WaysTo(ways, c) > 0 \/ \E i \in 1 .. Len(allArgs) : allArgs[i] = c)
    => refErrors > 0

\* refs lists exactly what it was asked for, or says that something is missing.
RefsTrue == RefsExact /\ RefsMissingTold
=============================================================================
