---------------------------- MODULE HuffmanTable ----------------------------
(***************************************************************************)
(* The two builders of a table from its code lengths                       *)
(* (src/huffman_table.c).                                                  *)
(*                                                                         *)
(* The encoder's build (build_table_finish, default tree mode) assigns a   *)
(* code to every chunk of equal-length symbols, makes the tree those codes *)
(* spell and renders it as the walk schedule.  A block decodes only if the *)
(* decoder's build comes to the same schedule and ranks.                   *)
(***************************************************************************)
EXTENDS TableDecode

-----------------------------------------------------------------------------
\* The encoder's build.

\* Canonical codes: the i-th chunk gets the next free prefix of its depth.
RootCodes(cs) ==
  LET code[i \in 1 .. Len(cs)] ==
        IF i = 1 THEN 0
        ELSE (code[i - 1] + 1) * 2^(cs[i].depth - cs[i - 1].depth)
  IN  code
BitPath(code, d) == [b \in 1 .. d |-> (code \div 2^(d - b)) % 2]

\* The walk schedule and in-order ranks of the subtree at a path, the subtree's
\* first rank being rank (assign_inorder_ranks and sched_from_tree_rec).
RECURSIVE Render(_, _, _)
Render(at, path, rank) ==
  IF path \in DOMAIN at
  THEN [sched |-> IF at[path].bit = 0 THEN <<>> ELSE <<ChunkRec(at[path].bit, rank)>>,
        syms  |-> at[path].syms]
  ELSE LET l == Render(at, Append(path, 0), rank)
           r == Render(at, Append(path, 1), rank + Len(l.syms))
           leaf(t) == t.sched = <<>>
           split == rank + Len(l.syms) - 1
           rec == CASE leaf(l) /\ leaf(r) -> Rec("BOTH_LEAVES", split, 0, 0)
                    [] leaf(l)            -> Rec("LEAF_LEFT", split, 1, 0)
                    [] OTHER              -> Rec("FULL", split, Len(l.sched) + 1, 0)
       IN  [sched |-> <<rec>> \o l.sched \o r.sched, syms |-> l.syms \o r.syms]

BuildTableFinish(ls) ==
  LET cs == SortByDepth(ChunkSet(ls))
      path(i) == BitPath(RootCodes(cs)[i], cs[i].depth)
      at == [p \in {path(i) : i \in DOMAIN cs} |-> cs[CHOOSE i \in DOMAIN cs : path(i) = p]]
  IN  Render(at, <<>>, 0)

-----------------------------------------------------------------------------
\* Properties

TableTypeOK ==
  /\ status \in {"idle", "gen", "ok", "corrupt", "empty"}
  /\ next \in 1 .. (Len(chunks) + 1)
  /\ \A i \in DOMAIN stack : stack[i].depth = i - 1
  /\ Len(dec.syms) <= Cardinality(Symbols) + 1
  /\ Len(dec.sched) <= Cardinality(Symbols)

\* "Byte-identical to the dec of the full build for the same lengths"
\* (include/pivco_huffman.h, pivco_build_decode_core).
SameSchedule == status = "ok" /\ Complete(lens) => dec = BuildTableFinish(lens)

\* The ranks below a record's left child are those up to its param, and the
\* schedule is a tree: every symbol has one rank, at the depth of its length.
DepthOf(d, sym) ==
  LET go[r \in 1 .. Len(d.sched), lo \in 1 .. Len(d.syms), hi \in 1 .. Len(d.syms)] ==
        LET rec == d.sched[r]
            pos == CHOOSE i \in DOMAIN d.syms : d.syms[i] = sym
            split == rec.param + 1
            mid == IF split >= lo /\ split < hi THEN split ELSE hi - 1
        IN  CASE rec.kind = "FLAT"        -> rec.flat
              [] rec.kind = "BOTH_LEAVES" -> 1
              [] rec.kind = "LEAF_LEFT"   -> IF pos <= split THEN 1
                                             ELSE 1 + go[r + 1, mid + 1, hi]
              [] rec.kind = "FULL" -> IF pos <= split THEN 1 + go[r + 1, lo, mid]
                                      ELSE 1 + go[r + rec.right, mid + 1, hi]
  IN  go[1, 1, Len(d.syms)]
LengthsKept ==
  status = "ok" /\ Complete(lens) /\ Cardinality(Used(lens)) >= 2 =>
    /\ {dec.syms[i] : i \in DOMAIN dec.syms} = Used(lens)
    /\ \A s \in Used(lens) : DepthOf(dec, s) = lens[s]

\* The two builds agree, and on the lengths they were given: the decoder's one recursion
\* makes the table the encoder's build makes.
TablesAgree == TableTypeOK /\ SameSchedule /\ LengthsKept
=============================================================================
