----------------------------- MODULE MergeKernel -----------------------------
(***************************************************************************)
(* The vector merges of the decode walk (merge_vec_vec, merge_cst_vec of   *)
(* pivco_huffman_primitives_{neon,x86,avx512,scalar}.h) on the buffers     *)
(* codec_decode_subtree gives them: the larger child lies in the tail of   *)
(* the buffer the merge writes from the front, the smaller one in another. *)
(* A step loads whole registers, picks lanes through the kernels' index    *)
(* tables and stores a register; the steps narrow towards the end.         *)
(*                                                                         *)
(* A cell holds the child's side and position it stands for.               *)
(***************************************************************************)
EXTENDS Registers, Integers, FiniteSets, Sequences

CONSTANTS WideGroups,\* registers of the widest AVX-512 step: 4
          ByteMod,   \* values of an index byte: 256
          Bitmaps    \* the bitmaps merged

WideStep == WideGroups * Lanes
ASSUME MergeAssumption ==
  /\ WideGroups \in Nat \ {0, 1}
  /\ ByteMod \in Nat /\ ByteMod % (2 * Lanes) = 0 /\ ByteMod > 2 * Lanes
ASSUME BitmapsAssumption == \A b \in Bitmaps : b \in Seq({0, 1}) /\ b # <<>>

VARIABLES bits,    \* the node's bitmap: 1 takes from the right
          leafy,   \* whether the left child is a leaf (merge_cst_vec)
          out,     \* the node's buffer and what follows it
          other,   \* the smaller child's buffer and what follows it
          lc, rc,  \* cells taken from the left and from the right
          reach    \* history: the farthest load past the end of a child

mergeVars == <<lc, rc, reach, backend, bits, leafy, out, other>>

-----------------------------------------------------------------------------
\* Placement.
K == Len(bits)
Ones(b) == Cardinality({i \in DOMAIN b : b[i] = 1})
KR == Ones(bits)
KL == K - KR
Size(side) == IF side = "r" THEN KR ELSE KL

MergeJunk == <<"junk", 0>>
Leaf == <<"leaf", 0>>
\* A leaf takes no buffer; of two subtrees the right one is in the tail when larger.
InTail(side) == IF leafy THEN side = "r" ELSE (side = "r") = (KR > KL)
ChildBase(side) == IF InTail(side) THEN K - Size(side) ELSE 0
At(side, p) ==
  LET a == ChildBase(side) + p
      buf == IF InTail(side) THEN out ELSE other
  IN  IF a \in DOMAIN buf THEN buf[a] ELSE MergeJunk

\* Cells beyond a child's end that hold nothing of the block.
MergeRoom == WideStep

-----------------------------------------------------------------------------
\* Index tables: the lane a destination lane takes, by the two mask bytes m0, m1.
\* A mask byte is a function of 0 .. Half - 1.
MergePop(m) == Cardinality({i \in 0 .. Half - 1 : m[i] = 1})
PopBefore(m, i) == Cardinality({k \in 0 .. i - 1 : m[k] = 1})

\* g_merge_shuf0, g_merge_shuf1: the index is their absolute difference; the right
\* register's lanes come first.
NeonShuf0(m) ==
  [i \in 0 .. Lanes - 1 |->
     IF i >= Half THEN MergePop(m) ELSE IF m[i] = 1 THEN PopBefore(m, i) ELSE -Lanes - i + PopBefore(m, i)]
\* Mutant: the upper half's left lanes forget the lower half.
NeonShuf1Low(m) ==
  [i \in 0 .. Lanes - 1 |->
     LET h == i - Half
     IN  IF i < Half THEN 0
         ELSE IF m[h] = 1 THEN -PopBefore(m, h) ELSE Lanes + h - PopBefore(m, h)]

NeonShuf1(m) ==
  [i \in 0 .. Lanes - 1 |->
     LET h == i - Half
     IN  IF i < Half THEN 0
         ELSE IF m[h] = 1 THEN -PopBefore(m, h) ELSE Half - (-Lanes - h + PopBefore(m, h))]
Abs(v) == IF v < 0 THEN -v ELSE v
NeonPick(m0, m1, L, R) ==
  [i \in 0 .. Lanes - 1 |->
     LET s == Abs(NeonShuf0(m0)[i] - NeonShuf1(m1)[i])
     IN  IF s < Lanes THEN R[s] ELSE IF s < 2 * Lanes THEN L[s - Lanes] ELSE MergeJunk]

\* g_x86_merge_shuf0, g_x86_merge_shuf1: the sum, as a byte, is the right lane; its
\* complement the left lane; a shuffle gives nothing for an index in the upper half.
X86Shuf0(m) ==
  [i \in 0 .. Lanes - 1 |->
     IF i >= Half THEN MergePop(m)
     ELSE IF m[i] = 1 THEN PopBefore(m, i) ELSE ByteMod - 1 - (i - PopBefore(m, i))]
X86Shuf1(m) ==
  [i \in 0 .. Lanes - 1 |->
     LET h == i - Half
     IN  IF i < Half THEN 0
         ELSE IF m[h] = 1 THEN PopBefore(m, h) ELSE ByteMod - 1 - Half - (h - PopBefore(m, h))]
X86Pick(m0, m1, L, R) ==
  [i \in 0 .. Lanes - 1 |->
     LET s == (X86Shuf0(m0)[i] + X86Shuf1(m1)[i]) % ByteMod
     IN  IF s < ByteMod \div 2 THEN R[s % Lanes] ELSE L[(ByteMod - 1 - s) % Lanes]]

\* expand_tab: the left register's lower half, then the right one's.
ExpandPick(m, L, R) ==
  [i \in 0 .. Half - 1 |-> IF m[i] = 1 THEN R[PopBefore(m, i)] ELSE L[i - PopBefore(m, i)]]

-----------------------------------------------------------------------------
\* One step of a kernel.
taken == lc + rc
\* The padding of the last byte is zero.
MergeBit(p) == IF p < K THEN bits[p + 1] ELSE 0
Mask(p) == [i \in 0 .. Half - 1 |-> MergeBit(p + i)]
OnesIn(p, w) == Cardinality({q \in p .. p + w - 1 : MergeBit(q) = 1})

\* A load of w lanes from a child at its cursor; a leaf is in a register.
Load(side, c, w) == [i \in 0 .. w - 1 |-> IF side = "l" /\ leafy THEN Leaf ELSE At(side, c + i)]
Past(side, c, w) ==
  IF (side = "l" /\ leafy) \/ c + w <= Size(side) THEN 0 ELSE c + w - Size(side)
Farther(a, b) == IF a > b THEN a ELSE b

\* What the step of width w stores, and how far it loads.  Single cells and the masked
\* expanding loads of the widest AVX-512 step take only what the bits ask for.
Routed(w) ==
  [i \in 0 .. w - 1 |-> IF MergeBit(taken + i) = 1 THEN Load("r", rc + OnesIn(taken, i), 1)[0]
                        ELSE Load("l", lc + i - OnesIn(taken, i), 1)[0]]
NeonPicked(w) ==
  LET Low(side, c) == [i \in 0 .. Lanes - 1 |-> IF i < Half THEN Load(side, c, Half)[i] ELSE MergeJunk]
      picked == NeonPick(Mask(taken), [i \in 0 .. Half - 1 |-> 0], Low("l", lc), Low("r", rc))
  IN  IF w = Half THEN [i \in 0 .. Half - 1 |-> picked[i]]
      ELSE NeonPick(Mask(taken), Mask(taken + Half), Load("l", lc, Lanes), Load("r", rc, Lanes))
X86Picked(w) ==
  [i \in 0 .. w - 1 |->
     LET g == i \div Lanes
         pr == OnesIn(taken, g * Lanes)
     IN  X86Pick(Mask(taken + g * Lanes), Mask(taken + g * Lanes + Half),
                 Load("l", lc + g * Lanes - pr, Lanes), Load("r", rc + pr, Lanes))[i % Lanes]]
Picked(w) ==
  IF w = 1 \/ (backend = "avx512" /\ w = WideStep) THEN Routed(w)
  ELSE CASE backend = "avx512" -> ExpandPick(Mask(taken), Load("l", lc, Half), Load("r", rc, Half))
         [] backend = "neon" -> NeonPicked(w)
         [] backend = "x86" -> X86Picked(w)

\* Lanes a load of the step covers, and the cursors it starts from.
LoadWidth(w) == IF w = 1 THEN 1 ELSE IF w = Half THEN Half ELSE Lanes
StepReach(w) ==
  IF w = 1 \/ (backend = "avx512" /\ w = WideStep) THEN 0
  ELSE LET starts == {0} \cup (IF w > Lanes THEN {Lanes} ELSE {})
           Worst(s) == Farther(Past("r", rc + OnesIn(taken, s), LoadWidth(w)),
                               Past("l", lc + s - OnesIn(taken, s), LoadWidth(w)))
       IN  Farther(Worst(0), Worst(CHOOSE s \in starts : \A t \in starts : t <= s))

\* The widths a backend steps by; AVX-512 goes from WideStep straight to Half.
MergeWidths ==
  CASE backend = "scalar" -> {1}
    [] backend = "neon" -> {Lanes, Half, 1}
    [] backend = "x86" -> {2 * Lanes, Lanes, 1}
    [] backend = "avx512" -> {WideStep, Half, 1}

MergeStored(w) ==
  LET picked == Picked(w)
  IN  [a \in DOMAIN out |-> IF a \in taken .. taken + w - 1 THEN picked[a - taken] ELSE out[a]]

MergeFits(w) == taken + w <= K

-----------------------------------------------------------------------------
MergeInit ==
  /\ backend \in Backends /\ bits \in Bitmaps /\ leafy \in BOOLEAN
  /\ lc = 0 /\ rc = 0 /\ reach = 0
  /\ LET Cell(side, b, p) == IF p \in b .. b + Size(side) - 1 THEN <<side, p - b>> ELSE MergeJunk
         tail == IF InTail("r") THEN "r" ELSE "l"
         rest == IF tail = "r" THEN "l" ELSE "r"
     IN  /\ out = [a \in 0 .. K + MergeRoom - 1 |-> Cell(tail, ChildBase(tail), a)]
         /\ other = [a \in 0 .. Size(rest) + MergeRoom - 1 |->
                       IF leafy /\ rest = "l" THEN MergeJunk ELSE Cell(rest, 0, a)]

\* The widest step that fits.
MergeStep(w) ==
  /\ w \in MergeWidths /\ MergeFits(w) /\ taken < K
  /\ \A v \in MergeWidths : v > w => ~MergeFits(v)
  /\ out' = MergeStored(w)
  /\ reach' = Farther(reach, StepReach(w))
  /\ rc' = rc + OnesIn(taken, w)
  /\ lc' = lc + w - OnesIn(taken, w)
  /\ UNCHANGED <<backend, bits, leafy, other>>

MergeNext == \E w \in {1, Half, Lanes, 2 * Lanes, WideStep} : MergeStep(w)
MergeSpec == MergeInit /\ [][MergeNext]_mergeVars

-----------------------------------------------------------------------------
MergeTypeOK ==
  /\ backend \in Backends /\ leafy \in BOOLEAN
  /\ lc \in 0 .. KL /\ rc \in 0 .. KR /\ reach \in 0 .. Lanes
  /\ \A a \in DOMAIN out : out[a] \in {MergeJunk, Leaf} \cup ({"l", "r"} \X (0 .. K - 1))

\* What position a of the node holds.
Wanted(a) ==
  IF MergeBit(a) = 1 THEN <<"r", OnesIn(0, a)>>
  ELSE IF leafy THEN Leaf ELSE <<"l", a - OnesIn(0, a)>>

\* Every backend's index tables and widths yield the scalar merge: what is written so
\* far is the children's symbols in the order of the bitmap, whatever lay past the
\* children's ends when a register reached there.
Merged == \A a \in 0 .. K - 1 : a < taken => out[a] = Wanted(a)

\* The merge runs in place: the part of the larger child not yet taken is still whole in
\* the tail of the buffer being written, after every whole-register store.
ChildrenIntact ==
  /\ \A p \in rc .. KR - 1 : At("r", p) = <<"r", p>>
  /\ ~leafy => \A p \in lc .. KL - 1 : At("l", p) = <<"l", p>>

\* PIVCO_PRIM_MERGE_OVERREAD of the backend.
Overread == CASE backend = "scalar" -> 1 [] backend = "avx512" -> Half [] OTHER -> Lanes

\* No load reaches farther past a child's end than the slack the backend asks of the
\* decode scratch.
OverreadBound == reach <= Overread

\* No store reaches past the node's last symbol: what follows may be a sibling's data.
WritesExact == \A a \in DOMAIN out : a >= K => out[a] = MergeJunk


\* What a merge owes the decode walk, on every backend.
MergeSound == MergeTypeOK /\ Merged /\ ChildrenIntact /\ OverreadBound /\ WritesExact
=============================================================================
