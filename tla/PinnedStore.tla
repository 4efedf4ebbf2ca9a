---------------------------- MODULE PinnedStore ----------------------------
(***************************************************************************)
(* What the node's block store promises to the callers of its pinner,      *)
(* without locks, walks and goroutines: pins and deletions take turns.     *)
(*                                                                         *)
(* While the store is shared, calls record and drop pins and nothing is    *)
(* ever deleted.  While one collection or removal has it alone, no pin     *)
(* changes; a collection deletes blocks that no pin protects under any     *)
(* name, a removal the block of a name that is not pinned.  Blocks may be  *)
(* written at any time: unpinned writes take no lock.                      *)
(***************************************************************************)
CONSTANTS Block,       \* the blocks, by multihash
          Cids,        \* the names of blocks
          Below        \* Below[c]: the names c leads to, itself included

VARIABLES store,       \* the blocks that are there
          rpins,       \* what is pinned with everything below it
          dpins,       \* what is pinned alone
          alone        \* a collection or a removal has the store for itself

psVars == <<store, rpins, dpins, alone>>

PinnedNames == dpins \cup UNION {Below[c] : c \in rpins}
ProtectedBlocks == {c.hash : c \in PinnedNames}

Init ==
  /\ store \subseteq Block /\ rpins \subseteq Cids /\ dpins \subseteq Cids
  /\ alone = FALSE

\* A call writes blocks.
Write ==
  /\ store \subseteq store' /\ store' \subseteq Block /\ store' # store
  /\ UNCHANGED <<rpins, dpins, alone>>

\* A call changes pins: the block of everything it pins is there.
ChangePins ==
  /\ ~alone
  /\ rpins' \subseteq Cids /\ dpins' \subseteq Cids
  /\ \A c \in (rpins' \cup dpins') \ (rpins \cup dpins) : c.hash \in store
  /\ UNCHANGED <<store, alone>>

TakeAlone == ~alone /\ alone' = TRUE /\ UNCHANGED <<store, rpins, dpins>>
Release == alone /\ alone' = FALSE /\ UNCHANGED <<store, rpins, dpins>>

\* A collection deletes a block that nobody protects.
Collect ==
  /\ alone
  /\ \E h \in store \ ProtectedBlocks : store' = store \ {h}
  /\ UNCHANGED <<rpins, dpins, alone>>

\* A removal deletes the block of a name that is not pinned.
Remove ==
  /\ alone
  /\ \E c \in Cids \ PinnedNames : c.hash \in store /\ store' = store \ {c.hash}
  /\ UNCHANGED <<rpins, dpins, alone>>

Next == Write \/ ChangePins \/ TakeAlone \/ Release \/ Collect \/ Remove

Spec == Init /\ [][Next]_psVars
=============================================================================
