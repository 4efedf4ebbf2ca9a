------------------------------- MODULE MCAdd -------------------------------
(***************************************************************************)
(* `ipfs add` of a directory of two files with its pin and of one of these *)
(* files without, files commands, which take no lock and leave a tree      *)
(* whose second file is not here, and collections; and, without adders, a  *)
(* files command that writes a tree of its own against collections.        *)
(***************************************************************************)
EXTENDS NodeStore

CONSTANTS a1, a2, f1, g1, hDir0, hDir1, hDir2, hOne, hFile, hFile2

V1(h) == [ver |-> 1, codec |-> "dag-pb", hash |-> h]
Raw(h) == [ver |-> 1, codec |-> "raw", hash |-> h]

mcBlock == {hDir0, hDir1, hDir2, hOne, hFile, hFile2}
mcCids == {V1(hDir0), V1(hDir1), V1(hDir2), V1(hOne), Raw(hFile), Raw(hFile2)}
mcLinks == [c \in mcCids |->
              CASE c.hash = hDir1 -> {Raw(hFile)}
                [] c.hash = hDir2 -> {Raw(hFile), Raw(hFile2)}
                [] c.hash = hOne  -> {Raw(hFile2)}
                [] OTHER          -> {}]

mcFiles == [a \in Adders |-> IF a = a1 THEN <<Raw(hFile), Raw(hFile2)>> ELSE <<Raw(hFile2)>>]
mcPartialDir == [a \in Adders |-> IF a = a1 THEN <<V1(hDir0), V1(hDir1), V1(hDir2)>>
                                            ELSE <<V1(hDir0), V1(hOne)>>]
mcAddsDirectory == Adders \cap {a1}
mcProcs == Adders \cup Collectors
mcFilesOps == {[root |-> V1(hDir2), writes |-> {V1(hDir2), Raw(hFile)}]}
mcWriteOps == {[root |-> V1(hDir1), writes |-> {V1(hDir1), Raw(hFile)}]}
mcMfs0 == V1(hDir0)
mcStore0 == {hDir0}

\* What the two properties of these runs ask of the rest of the node.
ASSUME LeftAlone == AdderPinsLeftAlone /\ FirstTreeLeftAlone
=============================================================================
