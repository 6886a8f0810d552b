-------------------------- MODULE MCDecodePlacement --------------------------
(***************************************************************************)
(* TLC instance of DecodePlacement: a handful of tables, one per shape of  *)
(* recursion the walk can meet.                                            *)
(***************************************************************************)
EXTENDS DecodePlacement, TLC

Rec(k, r) == [kind |-> k, right |-> r]

\* Full root over a full node and a half leaf above another full node.
Wide == 0 :> Rec("FULL", 4) @@
        1 :> Rec("FULL", 2) @@ 2 :> Rec("BOTH_LEAVES", 0) @@ 3 :> Rec("FLAT", 0) @@
        4 :> Rec("LEAF_LEFT", 0) @@ 5 :> Rec("FULL", 2) @@
        6 :> Rec("BOTH_LEAVES", 0) @@ 7 :> Rec("BOTH_LEAVES", 0)

\* Half-leaf root, so that one child owns the whole arena.
LeafRoot == 0 :> Rec("LEAF_LEFT", 0) @@ 1 :> Rec("FULL", 3) @@
            2 :> Rec("LEAF_LEFT", 0) @@ 3 :> Rec("BOTH_LEAVES", 0) @@
            4 :> Rec("FULL", 2) @@ 5 :> Rec("BOTH_LEAVES", 0) @@ 6 :> Rec("FLAT", 0)

\* A spine of full nodes: every level can be the larger or the smaller child.
Spine == 0 :> Rec("FULL", 6) @@ 1 :> Rec("FULL", 4) @@ 2 :> Rec("FULL", 2) @@
         3 :> Rec("BOTH_LEAVES", 0) @@ 4 :> Rec("FLAT", 0) @@
         5 :> Rec("BOTH_LEAVES", 0) @@ 6 :> Rec("FLAT", 0)

\* The two root fast paths.
FlatRoot == 0 :> Rec("FLAT", 0)
PairRoot == 0 :> Rec("BOTH_LEAVES", 0)

MCScheds == {Wide, LeafRoot, Spine, FlatRoot, PairRoot}
=============================================================================
