------------------------------ MODULE MCKernels ------------------------------
(***************************************************************************)
(* Merge and partition with registers of four lanes, the vertical layouts  *)
(* with groups of two lanes, the histogram with vectors of eight bytes,    *)
(* the natural layout's kernels at their real sizes.                       *)
(***************************************************************************)
EXTENDS Kernels

\* Every engine and depth, with enough codes for two turns of the widest loop and
\* every remainder of the narrower ones.
MCEngines == AllEngines
MCDepths == 2..8
MCSizes == 1..210

\* Regions of 16-code and 64-code blocks (two lanes a group): natural only, a narrow
\* block, a wide one, one with a tail, one with two narrow blocks and a tail.
MCVerticalEngines == AllVerticalEngines

\* Bit strings that change side at the cuts; a change at the last bit has no effect.
Changing(len, cuts) ==
  {[i \in 1 .. len |-> (Cardinality({c \in cs : c < i}) + first) % 2] : cs \in cuts, first \in {0, 1}}

\* Every bitmap of 11 bits (8 + 2 + 1) and those of 15 bits (8 + 4 + 2 + 1) with at
\* most three changes of side.
MCBitmaps == [1 .. 11 -> {0, 1}] \cup Changing(15, {{a, b, c} : a, b, c \in 1 .. 15})

\* Sets of two registers: every routing of 9 ranks (8 + 1), those of 14 (8 + 4 + 2) with
\* at most three changes of side, and those of 23 (two sets and a tail) with at most two.
MCSides ==
  [1 .. 9 -> {0, 1}]
    \cup Changing(14, {{a, b, c} : a, b, c \in 1 .. 14})
    \cup Changing(23, {{a, b} : a, b \in 1 .. 23})

\* Two bins of two morsels, eight-bit counters of 8 values, wide ones of 128: inputs of
\* 150 bytes, a round and the start of another, that change twice between runs of one
\* byte and runs of all of them.
Letter(kind, i) == IF kind = 4 THEN (i * 3) % 4 ELSE kind
MCInputs ==
  {SubSeq([i \in 1 .. 150 |-> IF i <= c[1] THEN Letter(c[3], i)
                              ELSE IF i <= c[2] THEN Letter(c[4], i) ELSE Letter(c[5], i)], 1, 150) :
     c \in {c \in {0, 5, 17, 33, 64, 70, 119} \X {56, 70, 93, 120, 127, 143}
                    \X (0 .. 4) \X (0 .. 4) \X {0, 3, 4} : c[1] < c[2]}}
=============================================================================
