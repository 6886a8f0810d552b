--------------------------- MODULE DecodePlacement ---------------------------
(***************************************************************************)
(* The scratch discipline of the bottom-up block decoder                   *)
(* (codec_decode_subtree and CODEC_DECODE_ENTRY in                         *)
(* src/pivco_huffman_codec.c).                                             *)
(*                                                                         *)
(* The walk decodes the children of a tree node into two buffers, out and  *)
(* tmp, and then merges them IN PLACE: the larger child already lies in    *)
(* out's tail, the smaller one in tmp, whose own recursion borrows the     *)
(* still empty prefix of out.  This module models the recursion with an    *)
(* explicit call stack over a memory whose cells say whose symbol they     *)
(* hold, so that a read of a cell somebody overwrote is visible.           *)
(*                                                                         *)
(* What a symbol is does not matter here: cell <<rec, j>> stands for "the  *)
(* j-th symbol that the subtree of record rec decodes to".  A merge that   *)
(* finds the cell it expects writes <<rec, i>>; a merge that finds anything*)
(* else writes Stale.  K_right of a node is read from the stream; any      *)
(* value in 0..K may come.                                                 *)
(***************************************************************************)
EXTENDS Integers, Sequences

CONSTANTS MaxN,    \* largest block a caller decodes (PIVCO_WIRE_MAX_N)
          Scheds   \* schedules of the tables a caller decodes with

Kinds == {"FULL", "FLAT", "BOTH_LEAVES", "LEAF_LEFT"}

\* A schedule is an array of records in pre-order; the left child of rec is
\* rec+1 and its right child rec + right.
WellFormed(s) ==
  /\ DOMAIN s \subseteq Nat
  /\ 0 \in DOMAIN s
  /\ \A r \in DOMAIN s :
       /\ s[r].kind \in Kinds
       /\ s[r].kind \in {"LEAF_LEFT", "FULL"} => r + 1 \in DOMAIN s
       /\ s[r].kind = "FULL" => r + s[r].right \in DOMAIN s

ASSUME MaxNAssumption == MaxN \in Nat \ {0}
ASSUME SchedsAssumption == \A s \in Scheds : WellFormed(s)

VARIABLES n,      \* symbols in the block being decoded (0: none yet)
          sched,  \* the schedule of the table passed to this decode
          stack,  \* activations of the walk, the root's first
          mem,    \* the context's arena and the caller's symbols buffer
          outcome \* of the block: "whole" unless memory ran out on the way

vars == <<n, sched, stack, mem, outcome>>

-----------------------------------------------------------------------------
\* Addresses.  The arena starts at 0; the model gives it the 2*N cells that the
\* code calls the floor of a safe allocation.  The caller's symbols buffer is a
\* separate object and lies below address 0.
Symbols == -MaxN
Addr    == Symbols .. (2 * MaxN - 1)
Span(a, k) == a .. (a + k - 1)

Stale == <<-1, 0>>
Half(k) == k \div 2

Frame(r, k, o, t) ==
  [rec |-> r, K |-> k, out |-> o, tmp |-> t, pc |-> "enter",
   kr |-> 0, a |-> 0, b |-> 0]

Depth == Len(stack)
Top   == stack[Depth]

-----------------------------------------------------------------------------
\* Placement of the two children of an activation.  "First" is the child decoded
\* first: the only internal child of LEAF_LEFT, the larger child of FULL (ties
\* go left); "second" is the smaller child of FULL.

KindOf(f)     == sched[f.rec].kind
AtRoot(f)     == f.out = Symbols
RightFirst(f) == KindOf(f) = "LEAF_LEFT" \/ f.kr > f.K - f.kr
FirstK(f)     == IF RightFirst(f) THEN f.kr ELSE f.K - f.kr
SecondK(f)    == f.K - FirstK(f)

LeftRec(f)  == f.rec + 1
RightRec(f) == IF KindOf(f) = "LEAF_LEFT" THEN f.rec + 1
                                          ELSE f.rec + sched[f.rec].right
FirstRec(f)  == IF RightFirst(f) THEN RightRec(f) ELSE LeftRec(f)
SecondRec(f) == IF RightFirst(f) THEN LeftRec(f) ELSE RightRec(f)

\* The root parks both children in the arena, [first | second]; below it the
\* first child takes out's tail and the second one tmp.
\* Mutants: the larger child at out's head; a smaller child whose partner is its
\* own buffer; the root's smaller child with a partner beyond a second slot.
FirstOutAtHead(f)  == IF AtRoot(f) THEN 0 ELSE f.out
SecondTmpShared(f) == IF AtRoot(f) THEN f.K ELSE f.tmp
SecondTmpFar(f)    == IF AtRoot(f) THEN f.K + FirstK(f) ELSE f.out

FirstOut(f)  == IF AtRoot(f) THEN 0 ELSE f.out + SecondK(f)
FirstTmp(f)  == IF AtRoot(f) THEN FirstK(f) ELSE f.tmp
SecondOut(f) == IF AtRoot(f) THEN FirstK(f) ELSE f.tmp
SecondTmp(f) == IF AtRoot(f) THEN f.K ELSE f.out

FirstFrame(f)  == Frame(FirstRec(f), FirstK(f), FirstOut(f), FirstTmp(f))
SecondFrame(f) == Frame(SecondRec(f), SecondK(f), SecondOut(f), SecondTmp(f))

-----------------------------------------------------------------------------
\* Stack updates: the top activation becomes f; the top calls c and waits as f.
SetTop(f)  == stack' = [stack EXCEPT ![Depth] = f]
Call(f, c) == stack' = Append([stack EXCEPT ![Depth] = f], c)

Init ==
  /\ n = 0
  /\ sched \in Scheds
  /\ stack = <<>>
  /\ mem = [x \in Addr |-> Stale]
  /\ outcome = "whole"

\* A caller decodes a block.  The arena is reused: whatever an earlier block
\* left in it is stale for this one.
DecodeBlock(k, s) ==
  /\ stack = <<>>
  /\ n' = k
  /\ sched' = s
  /\ mem' = [x \in Addr |-> Stale]
  /\ stack' = <<Frame(0, k, Symbols, 0)>>
  /\ outcome' = "whole"

\* The arena, or the buffer of a flat root's region, cannot be had: the call ends with an
\* error before anything is written.
Refuse ==
  /\ Depth = 1 /\ Top.pc = "enter" /\ Top.K > 0 /\ KindOf(Top) # "BOTH_LEAVES"
  /\ stack' = <<>>
  /\ outcome' = "refused"
  /\ UNCHANGED <<n, sched, mem>>

\* The buffer of a flat region below the root cannot be had: the region is skipped, its cells
\* keep what they held, and the walk goes on to return PIVCO_OK.
SkipRegion ==
  /\ Depth > 1 /\ Top.pc = "enter" /\ Top.K > 0 /\ KindOf(Top) = "FLAT"
  /\ SetTop([Top EXCEPT !.pc = "ret"])
  /\ outcome' = "short"
  /\ UNCHANGED <<n, sched, mem>>

\* if (K == 0) return;
ReturnEmpty ==
  /\ Depth > 0 /\ Top.pc = "enter" /\ Top.K = 0
  /\ SetTop([Top EXCEPT !.pc = "ret"])
  /\ UNCHANGED <<n, sched, mem, outcome>>

\* Mutant: the kernel stores one element past the region's end.
DecodeLeafRegionWide ==
  /\ Depth > 0 /\ Top.pc = "enter" /\ Top.K > 0
  /\ KindOf(Top) \in {"FLAT", "BOTH_LEAVES"}
  /\ mem' = [x \in Addr |-> IF x \in Span(Top.out, Top.K + 1)
                            THEN <<Top.rec, x - Top.out>> ELSE mem[x]]
  /\ SetTop([Top EXCEPT !.pc = "ret"])
  /\ UNCHANGED <<n, sched, outcome>>

\* FLAT and BOTH_LEAVES: the node's region of the stream is all it needs.
DecodeLeafRegion ==
  /\ Depth > 0 /\ Top.pc = "enter" /\ Top.K > 0
  /\ KindOf(Top) \in {"FLAT", "BOTH_LEAVES"}
  /\ mem' = [x \in Addr |-> IF x \in Span(Top.out, Top.K)
                            THEN <<Top.rec, x - Top.out>> ELSE mem[x]]
  /\ SetTop([Top EXCEPT !.pc = "ret"])
  /\ UNCHANGED <<n, sched, outcome>>

\* LEAF_LEFT and FULL: K_right comes from the header or the bitmap's popcount,
\* and the first child is decoded.
CallFirst(kr) ==
  /\ Depth > 0 /\ Top.pc = "enter" /\ Top.K > 0
  /\ KindOf(Top) \in {"LEAF_LEFT", "FULL"}
  /\ LET f == [Top EXCEPT !.pc = "first", !.kr = kr]
     IN  Call(f, FirstFrame(f))
  /\ UNCHANGED <<n, sched, mem, outcome>>

CallSecond ==
  /\ Depth > 0 /\ Top.pc = "firstDone"
  /\ Call([Top EXCEPT !.pc = "second"], SecondFrame(Top))
  /\ UNCHANGED <<n, sched, mem, outcome>>

\* One element of the merge: out[a + b] comes from the first child (fromFirst)
\* or from the second, which is a constant symbol when it is a leaf.
MergeStep(fromFirst) ==
  /\ Depth > 0 /\ Top.pc = "merge"
  /\ IF fromFirst THEN Top.a < FirstK(Top) ELSE Top.b < SecondK(Top)
  /\ LET i  == Top.a + Top.b
         ok == IF fromFirst
               THEN mem[FirstOut(Top) + Top.a] = <<FirstRec(Top), Top.a>>
               ELSE \/ KindOf(Top) = "LEAF_LEFT"
                    \/ mem[SecondOut(Top) + Top.b] = <<SecondRec(Top), Top.b>>
     IN  mem' = [mem EXCEPT ![Top.out + i] = IF ok THEN <<Top.rec, i>> ELSE Stale]
  /\ SetTop(IF fromFirst THEN [Top EXCEPT !.a = @ + 1] ELSE [Top EXCEPT !.b = @ + 1])
  /\ UNCHANGED <<n, sched, outcome>>

MergeDone ==
  /\ Depth > 0 /\ Top.pc = "merge" /\ Top.a + Top.b = Top.K
  /\ SetTop([Top EXCEPT !.pc = "ret"])
  /\ UNCHANGED <<n, sched, mem, outcome>>

\* The caller of the finished activation resumes; after the root's, the block is
\* decoded.
Resume(f) ==
  [f EXCEPT !.pc = IF f.pc = "first" /\ KindOf(f) = "FULL" THEN "firstDone" ELSE "merge"]

Return ==
  /\ Depth > 0 /\ Top.pc = "ret"
  /\ stack' = [i \in 1 .. (Depth - 1) |->
                 IF i = Depth - 1 THEN Resume(stack[i]) ELSE stack[i]]
  /\ UNCHANGED <<n, sched, mem, outcome>>

Step ==
  \/ Refuse
  \/ SkipRegion
  \/ ReturnEmpty
  \/ DecodeLeafRegion
  \/ \E kr \in 0 .. (IF Depth > 0 THEN Top.K ELSE 0) : CallFirst(kr)
  \/ CallSecond
  \/ \E fromFirst \in BOOLEAN : MergeStep(fromFirst)
  \/ MergeDone
  \/ Return

Next == Step \/ \E k \in 1 .. MaxN, s \in Scheds : DecodeBlock(k, s)

Spec == Init /\ [][Next]_vars

-----------------------------------------------------------------------------
\* Properties

FrameSet ==
  [rec : Nat, K : 0 .. MaxN, out : Addr, tmp : Nat,
   pc : {"enter", "first", "firstDone", "second", "merge", "ret"},
   kr : 0 .. MaxN, a : 0 .. MaxN, b : 0 .. MaxN]

\* Types: activations are frames of records of the schedule.
TypeOK ==
  /\ n \in 0 .. MaxN
  /\ sched \in Scheds
  /\ stack \in Seq(FrameSet)
  /\ \A i \in 1 .. Depth : stack[i].rec \in DOMAIN sched
  /\ mem \in [Addr -> Int \X Int]
  /\ outcome \in {"whole", "short", "refused"}

\* "every recursive (out, tmp) placement satisfies out + 2K <= 2N and
\* tmp + K <= 2N as arena offsets" (comment above the arena size in
\* CODEC_DECODE_ENTRY), whatever the splits 0 <= KR <= K.
ArenaBound ==
  \A i \in 2 .. Depth :
    /\ stack[i].out + 2 * stack[i].K <= 2 * n
    /\ stack[i].tmp + stack[i].K <= 2 * n

\* The cells an activation below the root's may write: its out buffer, and at
\* most Half(K) cells past tmp.
Region(f) == Span(f.out, f.K) \cup Span(f.tmp, Half(f.K))

\* The walk's high-water is 1.5 N: no activation owns a cell at or past it.
HighWater ==
  \A i \in 2 .. Depth : Region(stack[i]) \subseteq 0 .. (n + Half(n) - 1)

\* What the walk asks of its scratch: activations of records of the schedule, inside the
\* arena and, counting what their subtrees spill, below the high-water.
ScratchSuffices == TypeOK /\ ArenaBound /\ HighWater

\* No region of the block was left out for want of memory.
Whole == outcome = "whole"

\* The cells of the first and of the second child that f has not merged yet.
UnreadFirst(f)  == Span(FirstOut(f) + f.a, FirstK(f) - f.a)
UnreadSecond(f) == IF KindOf(f) = "LEAF_LEFT" THEN {}
                   ELSE Span(SecondOut(f) + f.b, SecondK(f) - f.b)

\* A decoded child survives until its parent's merge has read it, through the
\* decoding of its sibling and through the merge's own writes to the same
\* buffer.
ChildrenSurvive ==
  Whole => \A i \in 1 .. Depth :
    LET f == stack[i] IN
    /\ f.pc \in {"firstDone", "second", "merge"} =>
         \A x \in UnreadFirst(f) : mem[x] = <<FirstRec(f), x - FirstOut(f)>>
    /\ f.pc = "merge" =>
         \A x \in UnreadSecond(f) : mem[x] = <<SecondRec(f), x - SecondOut(f)>>

\* When the walk is over, symbols[0..n) holds the n symbols of the root, in
\* order, unless memory ran out.
BlockDecoded ==
  (stack = <<>> /\ Whole) => \A i \in 0 .. (n - 1) : mem[Symbols + i] = <<0, i>>

\* The caller's buffer is written exactly: never past the block's n symbols, and
\* never before its final value is known, which is the block's unless a region was skipped.
SymbolsExact ==
  [][\A x \in Symbols .. -1 :
       mem'[x] # mem[x] =>
         \/ n' = n /\ x < Symbols + n /\ (Whole => mem'[x] = <<0, x - Symbols>>)
         \/ stack = <<>>]_vars

-----------------------------------------------------------------------------
\* The inductive invariant.

Inner == {"first", "firstDone", "second", "merge"}

\* What an activation may write: the root its buffer and the arena up to the
\* high-water, every other one its region.
Owned(f) == IF AtRoot(f) THEN Span(Symbols, f.K) \cup Span(0, f.K + Half(f.K))
                         ELSE Region(f)

\* Decoded children that f has not merged yet.
Live(f) == (IF f.pc \in {"firstDone", "second", "merge"} THEN UnreadFirst(f) ELSE {})
             \cup (IF f.pc = "merge" THEN UnreadSecond(f) ELSE {})

\* An inner activation knows its split, and its merge cursors are in range.
Progress(f) ==
  /\ f.pc \in Inner => /\ KindOf(f) \in {"LEAF_LEFT", "FULL"}
                       /\ f.K > 0 /\ f.kr <= f.K
                       /\ f.a <= FirstK(f) /\ f.b <= SecondK(f)
  /\ f.pc \in {"firstDone", "second"} => KindOf(f) = "FULL"
  /\ f.pc # "merge" /\ f.pc # "ret" => f.a = 0 /\ f.b = 0

\* The two buffers of an activation are disjoint and inside the arena.
Placed(f) ==
  IF AtRoot(f) THEN f.K = n /\ f.rec = 0
  ELSE /\ f.out >= 0
       /\ f.out + f.K <= f.tmp \/ f.tmp + Half(f.K) <= f.out
       /\ f.out + 2 * f.K <= 2 * n
       /\ f.tmp + f.K <= 2 * n

\* The activation f waits for.
Callee(f) == IF f.pc = "first" THEN FirstFrame(f) ELSE SecondFrame(f)

SamePlace(f, g) == f.rec = g.rec /\ f.K = g.K /\ f.out = g.out /\ f.tmp = g.tmp

\* The activations nest: each is the callee of the one below it.
Waiting ==
  /\ \A i \in 1 .. (Depth - 1) :
       /\ stack[i].pc \in {"first", "second"}
       /\ SamePlace(stack[i + 1], Callee(stack[i]))
  /\ Depth > 0 => Top.pc \notin {"first", "second"}
  /\ \A i \in 1 .. Depth : AtRoot(stack[i]) <=> i = 1

\* An activation owns nothing its callers do not own, and none of the cells they
\* still have to read.
Nested ==
  \A j \in 1 .. Depth : \A i \in 1 .. (j - 1) :
    \A x \in Owned(stack[j]) : x \in Owned(stack[i]) /\ x \notin Live(stack[i])

\* What an activation has merged so far lies at the start of its out buffer.
Merged(f) == IF f.pc = "ret" THEN f.K ELSE IF f.pc = "merge" THEN f.a + f.b ELSE 0
MergedPrefix ==
  Whole => \A i \in 1 .. Depth : \A j \in 0 .. (Merged(stack[i]) - 1) :
    mem[stack[i].out + j] = <<stack[i].rec, j>>

IInv ==
  /\ TypeOK
  /\ \A i \in 1 .. Depth : Progress(stack[i]) /\ Placed(stack[i])
  /\ Waiting
  /\ Nested
  /\ ChildrenSurvive
  /\ MergedPrefix
  /\ BlockDecoded
=============================================================================
