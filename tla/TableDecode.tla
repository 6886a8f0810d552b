---------------------------- MODULE TableDecode ----------------------------
(***************************************************************************)
(* The decoder's build of a table from its code lengths                    *)
(* (pivco_build_decode_core in src/huffman_table.c).  It never sees a      *)
(* code: one recursion, dc_gen, consumes the depth-sorted chunks of        *)
(* equal-length symbols and writes the walk schedule and the ranks as it   *)
(* goes.  Lengths come straight off the wire.                              *)
(***************************************************************************)
EXTENDS Alphabet, Sequences, FiniteSetsExt

\* PIVCO_MAX_SYMBOLS symbols, and lengths that are nibbles.
ASSUME WidthAssumption == Cardinality(Symbols) <= 2^8 /\ MaxLen < 16

VARIABLES status,  \* idle, gen, ok, corrupt or empty
          chunks,  \* the depth-sorted chunks
          next,    \* index of the next one
          stack,   \* activations of dc_gen, the outermost first
          dec      \* the schedule and the rank_to_sym written so far

tableVars == <<status, chunks, next, stack, dec>>

-----------------------------------------------------------------------------
\* Chunks: the symbols of length l, in symbol order, by the set bits of their
\* count, larger chunks first; 2^bit symbols under one root at depth l - bit, a uint8_t
\* that wraps where a length has more symbols than there are codes.
Used(ls)     == {s \in Symbols : ls[s] > 0}
OfLen(ls, l) == {s \in Symbols : ls[s] = l}
Ascending(S) ==
  [i \in 1 .. Cardinality(S) |-> CHOOSE s \in S : Cardinality({t \in S : t <= s}) = i]

Chunk(ls, l, b) ==
  LET c     == Cardinality(OfLen(ls, l))
      taken == (c \div 2^(b + 1)) * 2^(b + 1)
  IN  [len |-> l, bit |-> b, depth |-> (l - b) % 2^8,
       syms |-> SubSeq(Ascending(OfLen(ls, l)), taken + 1, taken + 2^b)]

BitsOf(c) == {b \in 0 .. c : (c \div 2^b) % 2 = 1}
ChunkSet(ls) ==
  UNION {{Chunk(ls, l, b) : b \in BitsOf(Cardinality(OfLen(ls, l)))} : l \in 1 .. MaxLen}

\* Mutant: the sort turns chunks of one depth around.
NotAfterUnstable(c, d) == c.depth < d.depth \/ (c.depth = d.depth /\ c.len >= d.len)

\* The stable sort by depth keeps the order of generation: by length.
NotAfter(c, d) == c.depth < d.depth \/ (c.depth = d.depth /\ c.len <= d.len)
SortByDepth(C) ==
  [i \in 1 .. Cardinality(C) |->
     CHOOSE c \in C : Cardinality({d \in C : NotAfter(d, c)}) = i]

\* Schedule records.
Rec(kind, param, right, flat) == [kind |-> kind, param |-> param, right |-> right, flat |-> flat]
ChunkRec(bit, rank) == IF bit = 1 THEN Rec("BOTH_LEAVES", rank, 0, 0)
                                  ELSE Rec("FLAT", rank, 0, bit)
Nothing == [sched |-> <<>>, syms |-> <<>>]

\* A single symbol: two ranks of it under one record.
SingleSymbol(s) == [sched |-> <<Rec("BOTH_LEAVES", 0, 0, 0)>>, syms |-> <<s, s>>]

-----------------------------------------------------------------------------
\* The decoder's build.

TableInit ==
  /\ status = "idle" /\ chunks = <<>> /\ next = 1 /\ stack = <<>>
  /\ dec = Nothing

Call(depth) == [pc |-> "call", depth |-> depth, self |-> 0, leftRank |-> 0,
                rightSched |-> 0, rightRank |-> 0]

\* pivco_build_decode_core up to the reconstruction.
BuildDecodeCore(ls) ==
  /\ status = "idle"
  /\ lens' = ls
  /\ \/ /\ \E s \in Symbols : ls[s] > MaxLen
        /\ status' = "corrupt"
        /\ UNCHANGED <<chunks, next, stack, dec>>
     \/ /\ Used(ls) = {}
        /\ status' = "empty"
        /\ UNCHANGED <<chunks, next, stack, dec>>
     \/ /\ \A s \in Symbols : ls[s] <= MaxLen
        /\ \E s \in Symbols : Used(ls) = {s} /\ dec' = SingleSymbol(s)
        /\ status' = "ok"
        /\ UNCHANGED <<chunks, next, stack>>
     \/ /\ \A s \in Symbols : ls[s] <= MaxLen
        /\ Cardinality(Used(ls)) >= 2
        /\ status' = "gen"
        /\ chunks' = SortByDepth(ChunkSet(ls))
        /\ stack' = <<Call(0)>>
        /\ UNCHANGED <<next, dec>>

Top == stack[Len(stack)]
Pop == SubSeq(stack, 1, Len(stack) - 1)
Entering   == status = "gen" /\ stack # <<>> /\ Top.pc = "call"
\* A chunk is left that is this node or lies below it.
InOrder == next <= Len(chunks) /\ Top.depth <= MaxLen /\ chunks[next].depth >= Top.depth

\* dc_gen gives up: no chunk is left, or a shallower one belongs elsewhere.
Reject ==
  /\ Entering /\ ~InOrder
  /\ status' = "corrupt"
  /\ UNCHANGED <<lens, chunks, next, stack, dec>>

\* The next chunk is this node: a bare leaf, a pair or a flat subtree.
TakeChunk ==
  /\ Entering /\ InOrder /\ chunks[next].depth = Top.depth
  /\ LET c == chunks[next]
     IN  dec' = [sched |-> dec.sched \o IF c.bit = 0 THEN <<>>
                                        ELSE <<ChunkRec(c.bit, Len(dec.syms))>>,
                 syms  |-> dec.syms \o c.syms]
  /\ next' = next + 1
  /\ stack' = Pop
  /\ UNCHANGED <<lens, status, chunks>>

\* An internal node reserves its record and calls for its left child.
OpenNode ==
  /\ Entering /\ InOrder /\ chunks[next].depth > Top.depth
  /\ dec' = [dec EXCEPT !.sched = Append(@, Rec("FULL", 0, 0, 0))]
  /\ stack' = Pop \o <<[Top EXCEPT !.pc = "left", !.self = Len(dec.sched) + 1,
                                   !.leftRank = Len(dec.syms)],
                       Call(Top.depth + 1)>>
  /\ UNCHANGED <<lens, status, chunks, next>>

\* The left child is complete: note the cursors, call for the right one.
GoRight ==
  /\ status = "gen" /\ stack # <<>> /\ Top.pc = "left"
  /\ stack' = Pop \o <<[Top EXCEPT !.pc = "right", !.rightSched = Len(dec.sched) + 1,
                                   !.rightRank = Len(dec.syms)],
                       Call(Top.depth + 1)>>
  /\ UNCHANGED <<lens, status, chunks, next, dec>>

\* Mutant: one symbol on the left passes for a lone leaf.
LeftLeafByRank(f) == f.rightRank <= f.leftRank + 2

\* The left child is a lone leaf iff it left no record and one rank.
LeftLeaf(f) == f.rightSched = f.self + 1 /\ f.rightRank = f.leftRank + 1

\* Both children are complete: the reserved record is filled in.
CloseNode ==
  /\ status = "gen" /\ stack # <<>> /\ Top.pc = "right"
  /\ dec' = [dec EXCEPT !.sched[Top.self] =
               Rec(IF LeftLeaf(Top) THEN "LEAF_LEFT" ELSE "FULL",
                   Top.rightRank - 1, Top.rightSched - Top.self, 0)]
  /\ stack' = Pop
  /\ UNCHANGED <<lens, status, chunks, next>>

\* g.next != g.end: chunks that hang nowhere.
Verdict == IF next = Len(chunks) + 1 THEN "ok" ELSE "corrupt"
Finish ==
  /\ status = "gen" /\ stack = <<>>
  /\ status' = Verdict
  /\ UNCHANGED <<lens, chunks, next, stack, dec>>

Gen == Reject \/ TakeChunk \/ OpenNode \/ GoRight \/ CloseNode \/ Finish

-----------------------------------------------------------------------------
\* Properties

\* A complete code: every bit string starts with exactly one code.
Complete(ls) ==
  /\ \A s \in Symbols : ls[s] <= MaxLen
  /\ MapThenSumSet(LAMBDA s : 2^(MaxLen - ls[s]), Used(ls)) = 2^MaxLen

\* "Returns PIVCO_ERR_CORRUPT for lengths that are not a complete code": with two
\* symbols or more, exactly those.
RejectsIncomplete ==
  Cardinality(Used(lens)) >= 2 =>
    /\ status = "ok" => Complete(lens)
    /\ status = "corrupt" => ~Complete(lens)

\* Only the left child can be a lone leaf (comment in dc_gen): no node closes
\* over a right child without a record of its own.
OnlyLeftLeaf ==
  status = "gen" /\ stack # <<>> /\ Top.pc = "right" => Len(dec.sched) >= Top.rightSched

\* What is refused, and what is written of what is not.
VerdictRight == RejectsIncomplete /\ OnlyLeftLeaf
=============================================================================
