---------------------------- MODULE MCBlockCodec ----------------------------
(***************************************************************************)
(* BlockCodec on small tables.  Each schedule is the one that              *)
(* build_table_finish derives from the code lengths in its comment.        *)
(***************************************************************************)
EXTENDS BlockCodec

Rec(k, p, r, d) == [kind |-> k, param |-> p, right |-> r, flat |-> d]
Array(seq) == [i \in 0 .. (Len(seq) - 1) |-> seq[i + 1]]

\* 1 2 2: one leaf beside a pair.
LeafPair == Array(<<Rec("LEAF_LEFT", 0, 1, 0), Rec("BOTH_LEAVES", 1, 0, 0)>>)

\* 2 2 2 4 4 4 4: a pair beside a leaf and a flat subtree; every kind of record.
Mixed == Array(<<Rec("FULL", 1, 2, 0), Rec("BOTH_LEAVES", 0, 0, 0),
                 Rec("LEAF_LEFT", 2, 1, 0), Rec("FLAT", 3, 0, 2)>>)

\* 2 3 3 4 4 4 4 and eight of 5: inner nodes and flat subtrees on both sides.
Both == Array(<<Rec("FULL", 2, 3, 0), Rec("LEAF_LEFT", 0, 1, 0), Rec("BOTH_LEAVES", 1, 0, 0),
                Rec("FULL", 6, 2, 0), Rec("FLAT", 3, 0, 2), Rec("FLAT", 7, 0, 3)>>)

\* 1 2 3 4 5 5: the deepest walk.
Chain == Array(<<Rec("LEAF_LEFT", 0, 1, 0), Rec("LEAF_LEFT", 1, 1, 0), Rec("LEAF_LEFT", 2, 1, 0),
                 Rec("LEAF_LEFT", 3, 1, 0), Rec("BOTH_LEAVES", 4, 0, 0)>>)

\* 2 2 2 2: the whole tree is flat; no node carries a marker.
FlatRoot == Array(<<Rec("FLAT", 0, 0, 2)>>)

MCScheds == {LeafPair, Mixed, Both, Chain, FlatRoot}

\* The raw regions of a naturally packed table look like its coded ones, so the
\* other layout is the one that tells them apart.
MCLayouts == {"vertical"}

\* KrT = 0, 2 and 4: with blocks of up to MaxN = 4 every K_right header, those of
\* the larger nodes, those of the largest only.
MCKrtCodes == {0, 2, 3}

\* Codes of a flat subtree differ only by the symbol they decode to: one or two
\* of them stand for all.
UsedRanks(s) == CASE s = LeafPair -> {0, 1, 2}
                  [] s = Mixed    -> {0, 1, 2, 4}
                  [] s = FlatRoot -> {1, 2}
MCWords(s) == CASE s = Chain -> {<<5, 5, 5, 5>>, <<5, 0, 4, 5>>}
                [] s = Both  -> [1 .. 3 -> {0, 2, 3, 7}]
                [] OTHER     -> UNION {[1 .. n -> UsedRanks(s)] : n \in 1 .. MaxN}
=============================================================================
