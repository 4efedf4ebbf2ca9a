------------------------------- MODULE MCPins -------------------------------
(***************************************************************************)
(* Pin, put and import calls against collections and block removals, over  *)
(*                                                                         *)
(*     rootA (v0) -> mid (v0) -> leaf (raw)        rootB -> leaf, extra    *)
(*     files -> extra      (the MFS tree)                                  *)
(*                                                                         *)
(* rootA is pinned and whole at the start, and extra is pinned directly;   *)
(* rootA and mid are known under CIDs of both versions.                    *)
(***************************************************************************)
EXTENDS NodeStore

CONSTANTS u1, u2, g1, g2, r1, hA, hMid, hLeaf, hB, hExtra, hFiles

V0(h) == [ver |-> 0, codec |-> "dag-pb", hash |-> h]
V1(h) == [ver |-> 1, codec |-> "dag-pb", hash |-> h]
Raw(h) == [ver |-> 1, codec |-> "raw", hash |-> h]

mcBlock == {hA, hMid, hLeaf, hB, hExtra, hFiles}
mcCids == {V0(hA), V1(hA), V0(hMid), V1(hMid), Raw(hLeaf),
           V1(hB), Raw(hExtra), V1(hFiles)}
mcLinks == [c \in mcCids |->
              CASE c.hash = hA     -> {V0(hMid)}
                [] c.hash = hMid   -> {Raw(hLeaf)}
                [] c.hash = hB     -> {Raw(hLeaf), Raw(hExtra)}
                [] c.hash = hFiles -> {Raw(hExtra)}
                [] OTHER           -> {}]

Req(op, root, to, nodes, flag) ==
  [op |-> op, root |-> root, to |-> to, nodes |-> nodes, flag |-> flag]

A == V0(hA)
B == V1(hB)

\* Pin and unpin whole graphs; write nodes, pinned or not.
mcRequests == {Req("add", B, B, {}, TRUE),
               Req("add", B, B, {}, FALSE),
               Req("rm", A, A, {}, TRUE), Req("rm", B, B, {}, FALSE),
               Req("update", A, B, {}, TRUE),
               Req("put", B, B, {B}, TRUE), Req("put", A, A, {Raw(hLeaf)}, FALSE),
               Req("import", B, B, {B, Raw(hExtra)}, TRUE)}

mcNoFiles == [a \in Adders |-> << >>]
mcRmArgs == {{V0(hMid), B}, {Raw(hExtra)}}
mcProcs == Users \cup Collectors \cup Removers
mcStore0 == {hA, hMid, hLeaf, hExtra, hFiles}
mcRPins0 == {A}
mcDPins0 == {Raw(hExtra)}
mcMfs0 == V1(hFiles)
=============================================================================
