--------------------------- MODULE PartitionKernel ---------------------------
(***************************************************************************)
(* The rank partitions of the encode walk (part_full, part_right and       *)
(* part_none of pivco_huffman_primitives_{neon,x86,avx512,scalar}.h): the  *)
(* ranks above a node's threshold go to tmp, the others are packed to the  *)
(* front of the buffer they come from, and the routing bits to the bitmap. *)
(* A vector step writes whole registers, so each store ends in lanes the   *)
(* next store overwrites; NEON also loads one set ahead of the one it      *)
(* scatters.                                                               *)
(*                                                                         *)
(* A cell holds the index of the rank it stands for.                       *)
(***************************************************************************)
EXTENDS Registers, Integers, FiniteSets, Sequences

CONSTANTS SetGroups, \* registers of a set: 4
          RankMod,   \* values of a rank: 256
          Sides      \* the routings: sequences of 0 (left) and 1 (right)

Set == SetGroups * Lanes
ASSUME SplitAssumption == SetGroups \in Nat \ {0, 1} /\ RankMod \in Nat \ {0, 1, 2}
ASSUME SidesAssumption == \A s \in Sides : s \in Seq({0, 1}) /\ s # <<>>

\* A child that is a leaf needs no ranks: right drops the left side, none both.
Forms == {"full", "right", "none"}

VARIABLES form,
          sides,   \* history: the side each rank belongs to
          thr,     \* the node's threshold
          ranks,   \* the node's buffer and what follows it
          tmp,     \* where the right child's ranks go, and what follows
          bm,      \* the bitmap: its bits, those of the last byte's padding too
          regs,    \* NEON: the set loaded ahead
          j, nl, nr

splitVars == <<j, nl, nr, backend, form, sides, thr, ranks, tmp, bm, regs>>

-----------------------------------------------------------------------------
nRanks == Len(sides)
NoRank == -1
SplitRoom == Set
BitmapBytes == (nRanks + Half - 1) \div Half

\* The extreme ranks of each side: next to the threshold, and at the ends of the range.
RankOf(i) ==
  IF sides[i + 1] = 1 THEN (IF i % 2 = 0 THEN thr + 1 ELSE RankMod - 1)
  ELSE (IF i % 2 = 0 THEN thr ELSE 0)
\* rank > thr; SSE has no unsigned compare and takes the minimum with thr + 1.
GoesRight(i) ==
  IF backend = "x86"
  THEN LET t == (thr + 1) % RankMod
       IN  (IF RankOf(i) < t THEN RankOf(i) ELSE t) = t
  ELSE RankOf(i) > thr
SplitBit(i) == IF i \in 0 .. nRanks - 1 /\ GoesRight(i) THEN 1 ELSE 0
Count(row) == Cardinality({k \in DOMAIN row : SplitBit(row[k]) = 1})

-----------------------------------------------------------------------------
\* Index tables.  Lanes no index names hold a zero.
MaskOf(row, from) == [k \in 0 .. Half - 1 |-> SplitBit(row[from + k])]
Pop(m) == Cardinality({k \in DOMAIN m : m[k] = 1})
\* The k-th bit of m with value b is at Place(m, b, k).
Place(m, b, k) == CHOOSE p \in DOMAIN m : m[p] = b /\ Cardinality({q \in 0 .. p - 1 : m[q] = b}) = k

\* p16rev_tabA: the lower half's lefts to the front, its rights to the back, reversed.
TabA(m) ==
  [k \in 0 .. Lanes - 1 |->
     IF k < Half - Pop(m) THEN Place(m, 0, k)
     ELSE IF k >= Lanes - Pop(m) THEN Place(m, 1, Lanes - 1 - k) ELSE 0]
\* p16rev_tabB0, a row of two registers, read from lane pc0 on.
TabB0(m) ==
  [k \in 0 .. 2 * Lanes - 1 |->
     IF k \in Half .. Lanes - Pop(m) - 1 THEN Half + Place(m, 0, k - Half)
     ELSE IF k \in Lanes - Pop(m) .. Lanes - 1 THEN Half + Place(m, 1, Lanes - 1 - k) ELSE 0]
\* Mutant: the row is read from its first lane.
TabBFirst(m, pc0) == [k \in 0 .. Lanes - 1 |-> TabB0(m)[k]]

TabB(m, pc0) == [k \in 0 .. Lanes - 1 |-> TabB0(m)[k + pc0]]
\* The rows name disjoint lanes, so the or of two indices is their sum.
Comb(row) ==
  LET m0 == MaskOf(row, 0)
      m1 == MaskOf(row, Half)
  IN  [k \in 0 .. Lanes - 1 |-> row[(TabA(m0)[k] + TabB(m1, Pop(m0))[k]) % Lanes]]
Reversed(row) == [k \in 0 .. Lanes - 1 |-> row[Lanes - 1 - k]]

\* ctab8, x86_ctab_r: the rights of a half register, packed; no index in the others.
None == 2 * Lanes
CtabR(m) == [k \in 0 .. Lanes - 1 |-> IF k < Pop(m) THEN Place(m, 1, k) ELSE None]
PreR(nlo, m) ==
  [k \in 0 .. Lanes - 1 |-> IF k \in nlo .. nlo + Pop(m) - 1 THEN Half + Place(m, 1, k - nlo) ELSE None]
Lower(a, b) == IF a < b THEN a ELSE b
Shuffled(row, idx, w) == [k \in 0 .. w - 1 |-> IF idx[k] = None THEN NoRank ELSE row[idx[k]]]
PackedR(row) ==
  IF backend = "neon" THEN Shuffled(row, CtabR(MaskOf(row, 0)), Half)
  ELSE LET m0 == MaskOf(row, 0)
           pre == PreR(Pop(m0), MaskOf(row, Half))
       IN  Shuffled(row, [k \in 0 .. Lanes - 1 |-> Lower(CtabR(m0)[k], pre[k])], Lanes)

\* vpcompressb with the source as the pass-through.
Compressed(row, b) ==
  LET m == [k \in 0 .. Set - 1 |-> SplitBit(row[k])]
  IN  [k \in 0 .. Set - 1 |->
         IF k < Cardinality({p \in DOMAIN m : m[p] = b}) THEN row[Place(m, b, k)] ELSE row[k]]

-----------------------------------------------------------------------------
\* A step takes w ranks in chunks of the width the kernel shuffles at once.
ChunkLanes ==
  CASE backend = "avx512" -> Set
    [] backend = "neon" /\ form # "full" -> Half
    [] OTHER -> Lanes
SplitWidths ==
  CASE backend = "scalar" -> {}
    [] backend = "neon" -> IF form = "full" THEN {Set} ELSE {Set, Half}
    [] backend = "x86" -> {2 * Lanes, Lanes}
    [] backend = "avx512" -> {Set}

LeftRow(row) == IF backend = "avx512" THEN Compressed(row, 0) ELSE Comb(row)
RightRow(row) ==
  CASE backend = "avx512" -> Compressed(row, 1)
    [] backend # "avx512" /\ form = "full" -> Reversed(Comb(row))
    [] OTHER -> PackedR(row)

Read(p, w) == [k \in 0 .. w - 1 |-> ranks[p + k]]
Part(row, g) == [k \in 0 .. ChunkLanes - 1 |-> row[g * ChunkLanes + k]]

LeftAt(g, cr) == nl + g * ChunkLanes - cr
RightAt(cr) == nr + cr
\* A buffer after the chunks of a row are stored in turn, chunk g as rows[g] at ats[g]: where
\* stores overlap the last one stays.
Scattered(buf, rows, ats) ==
  [a \in DOMAIN buf |->
     LET over == {g \in DOMAIN ats : a - ats[g] \in 0 .. ChunkLanes - 1}
         last == CHOOSE g \in over : \A h \in over : h <= g
     IN  IF over = {} THEN buf[a] ELSE rows[last][a - ats[last]]]

SplitFits(w) == j + w <= nRanks
Pipelined == backend = "neon" /\ form = "full"

-----------------------------------------------------------------------------
\* The bitmap holds the bits of an earlier use.
SplitInit ==
  /\ sides \in Sides /\ backend \in Backends /\ form \in Forms
  /\ thr \in {0, RankMod - 2}
  /\ ranks = [i \in 0 .. nRanks - 1 + SplitRoom |-> IF i < nRanks THEN i ELSE NoRank]
  /\ tmp = [i \in 0 .. nRanks - 1 + SplitRoom |-> NoRank]
  /\ bm = [i \in 0 .. BitmapBytes * Half - 1 |-> 1]
  /\ regs = <<>> /\ j = 0 /\ nl = 0 /\ nr = 0

\* The first set is loaded before the loop.
Prime ==
  /\ Pipelined /\ regs = <<>> /\ j = 0 /\ SplitFits(Set)
  /\ regs' = Read(0, Set)
  /\ UNCHANGED <<backend, form, sides, thr, ranks, tmp, bm, j, nl, nr>>

VectorStep(w) ==
  /\ w \in SplitWidths /\ SplitFits(w)
  /\ \A v \in SplitWidths : v > w => ~SplitFits(v)
  /\ Pipelined => regs # <<>>
  /\ LET cells == IF Pipelined THEN regs ELSE Read(j, w)
         right == Count(cells)
         chunks == 0 .. w \div ChunkLanes - 1
         CrOf(g) == Cardinality({k \in 0 .. g * ChunkLanes - 1 : SplitBit(cells[k]) = 1})
     IN  /\ regs' = IF Pipelined /\ j + 2 * Set <= nRanks THEN Read(j + Set, Set) ELSE <<>>
         /\ ranks' = IF form # "full" THEN ranks
                     ELSE Scattered(ranks, [g \in chunks |-> LeftRow(Part(cells, g))],
                                    [g \in chunks |-> LeftAt(g, CrOf(g))])
         /\ tmp' = IF form = "none" THEN tmp
                   ELSE Scattered(tmp, [g \in chunks |-> RightRow(Part(cells, g))],
                                  [g \in chunks |-> RightAt(CrOf(g))])
         /\ bm' = [i \in DOMAIN bm |-> IF i \in j .. j + w - 1 THEN SplitBit(cells[i - j]) ELSE bm[i]]
         /\ nr' = nr + right
         /\ nl' = nl + w - right
  /\ j' = j + w
  /\ UNCHANGED <<backend, form, sides, thr>>

\* The tail clears a byte of the bitmap at its first bit, the scalar kernel all at first.
TailBits(right) ==
  LET cleared == IF backend = "scalar" THEN IF j = 0 THEN DOMAIN bm ELSE {}
                 ELSE IF j % Half = 0 THEN j .. j + Half - 1 ELSE {}
      clean == [i \in DOMAIN bm |-> IF i \in cleared THEN 0 ELSE bm[i]]
  IN  [clean EXCEPT ![j] = IF right THEN 1 ELSE clean[j]]

ScalarStep ==
  /\ j < nRanks
  /\ \A w \in SplitWidths : ~SplitFits(w)
  /\ LET right == SplitBit(ranks[j]) = 1
     IN  /\ bm' = TailBits(right)
         /\ tmp' = IF right /\ form # "none" THEN [tmp EXCEPT ![nr] = ranks[j]] ELSE tmp
         /\ ranks' = IF ~right /\ form = "full" THEN [ranks EXCEPT ![nl] = ranks[j]] ELSE ranks
         /\ nr' = nr + (IF right THEN 1 ELSE 0)
         /\ nl' = nl + (IF right THEN 0 ELSE 1)
  /\ j' = j + 1
  /\ UNCHANGED <<backend, form, sides, thr, regs>>

SplitNext ==
  \/ Prime
  \/ \E w \in {Half, Lanes, 2 * Lanes, Set} : VectorStep(w)
  \/ ScalarStep
SplitSpec == SplitInit /\ [][SplitNext]_splitVars

-----------------------------------------------------------------------------
SplitTypeOK ==
  /\ backend \in Backends /\ form \in Forms /\ thr \in 0 .. RankMod - 2
  /\ j \in 0 .. nRanks /\ nl \in 0 .. nRanks /\ nr \in 0 .. nRanks /\ nl + nr = j
  /\ \A a \in DOMAIN ranks : ranks[a] \in {NoRank} \cup (0 .. nRanks - 1)
  /\ \A a \in DOMAIN tmp : tmp[a] \in {NoRank} \cup (0 .. nRanks - 1)
  /\ regs # <<>> => DOMAIN regs = 0 .. Set - 1

\* Ranks of the side taken so far, in order.
Before(i, side) == Cardinality({k \in 0 .. i - 1 : sides[k + 1] = side})

\* Every backend's tables and stores yield the stable partition by side: the rights taken
\* so far at the front of tmp, the lefts at the front of the buffer, each in its order,
\* and the count returned is the rights'.
Partitioned ==
  /\ nr = Before(j, 1)
  /\ \A i \in 0 .. j - 1 :
       IF sides[i + 1] = 1 THEN form # "none" => tmp[Before(i, 1)] = i
       ELSE form = "full" => ranks[Before(i, 0)] = i

\* The packing runs in place: whatever the whole-register stores left behind, the ranks not
\* yet loaded are where they were, and a set loaded ahead is the next one.
RanksIntact ==
  /\ \A i \in j + (IF regs # <<>> THEN Set ELSE 0) .. nRanks - 1 : ranks[i] = i
  /\ regs # <<>> => \A k \in 0 .. Set - 1 : regs[k] = j + k

\* No store reaches past the node's ranks, in its buffer or in tmp, where the ranks of the
\* nodes still open lie.
StaysInside == \A a \in nRanks .. nRanks - 1 + SplitRoom : ranks[a] = NoRank /\ tmp[a] = NoRank

\* The bitmap has the routing of each rank and zeros in its padding, whatever it held.
BitmapClean ==
  /\ \A i \in 0 .. j - 1 : bm[i] = sides[i + 1]
  /\ j = nRanks => \A i \in nRanks .. BitmapBytes * Half - 1 : bm[i] = 0

\* What a partition owes the encode walk, on every backend.
SplitSound == SplitTypeOK /\ Partitioned /\ RanksIntact /\ StaysInside /\ BitmapClean
=============================================================================
