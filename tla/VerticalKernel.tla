---------------------------- MODULE VerticalKernel ----------------------------
(***************************************************************************)
(* The vertical layouts of a flat region.  n codes of D bits are packed in *)
(* blocks of 8 codes a lane: blocks of four groups of lanes first (64      *)
(* lanes in the code) where the layout has them, then blocks of one group  *)
(* (16 lanes), the rest in the natural layout.  Both sides compute the     *)
(* three spans from n, D and the table's layout alone.                     *)
(*                                                                         *)
(* Every engine has kernels of its own, unrolled by D with the shifts and  *)
(* masks written out, and only some of them are compiled in a given build: *)
(* an encoder and a decoder built for different engines have to agree.     *)
(* x86 has no shift of bytes: it shifts pairs of lanes and masks off what  *)
(* came from the neighbour.  So a bit is modelled as the set of code bits  *)
(* <<code, bit>> it is the union of, and a group has an even number of     *)
(* lanes.                                                                  *)
(***************************************************************************)
EXTENDS Integers, Sequences, FiniteSets, SequencesExt

CONSTANTS GroupLanes,      \* lanes of a group: 16
          VerticalEngines, \* a subset of AllVerticalEngines
          VerticalSizes    \* the code counts of the regions

AllVerticalEngines == {"scalar", "neon", "sse", "avx2", "avx2intel", "avx512"}
VerticalLayouts == {"natural", "v128", "hybrid"}

ASSUME VerticalAssumption ==
  /\ GroupLanes \in Nat \ {0} /\ GroupLanes % 2 = 0
  /\ VerticalEngines \subseteq AllVerticalEngines
  /\ VerticalSizes \subseteq Nat \ {0}

VARIABLES
  call,     \* the call: op, engine, D, n, layout
  done,     \* the codes packed or decoded so far
  part,     \* the group of the wide block the next turn starts at
  packed,   \* the region's bytes, each of eight sets of code bits
  decoded   \* merge: for each code, the index its symbol was looked up by

verticalVars == <<call, done, part, packed, decoded>>

Bits == 0 .. 7
Wide64 == 4 * GroupLanes
NoBits == [b \in Bits |-> {}]
OldBits == [b \in Bits |-> {<<-1, b>>}]
Code(i, D) == [b \in Bits |-> IF b < D THEN {<<i, b>>} ELSE {}]
RegionSize(c) == (c.n * c.D + 7) \div 8

-----------------------------------------------------------------------------
(* The gates. *)

WholeBlocks(n, D, codes) == IF D \in 2 .. 7 /\ n >= codes THEN n - (n % codes) ELSE 0

WideSpan(c) == IF c.layout = "hybrid" THEN WholeBlocks(c.n, c.D, 8 * Wide64) ELSE 0
NarrowSpan(c, wide) ==
  IF c.layout = "natural" THEN 0 ELSE WholeBlocks(c.n - wide, c.D, 8 * GroupLanes)

-----------------------------------------------------------------------------
(* Registers: a function from lanes to bytes. *)

Or(r1, r2) == [l \in DOMAIN r1 |-> [b \in Bits |-> r1[l][b] \cup r2[l][b]]]
Keep(r, mask) == [l \in DOMAIN r |-> [b \in Bits |-> IF b \in mask THEN r[l][b] ELSE {}]]

\* A shift of 16-bit words by k to the right (to the left when k < 0).
ShiftWords(r, k) ==
  [l \in DOMAIN r |-> [b \in Bits |->
     LET from == 8 * (l % 2) + b + k
     IN IF from \in 0 .. 15 THEN r[(l - (l % 2)) + (from \div 8)][from % 8] ELSE {}]]
ShiftBytes(r, k) ==
  [l \in DOMAIN r |-> [b \in Bits |-> IF b + k \in Bits THEN r[l][b + k] ELSE {}]]
\* VSLI: v goes in above the k low bits of r.
InsertAbove(r, v, k) ==
  [l \in DOMAIN r |-> [b \in Bits |-> IF b < k THEN r[l][b] ELSE v[l][b - k]]]

-----------------------------------------------------------------------------
(* The unrolled steps of the wide merges: which columns a code's bits are  *)
(* in, the shifts that align them and the masks that keep only those.  The *)
(* ymm and zmm kernels have the same literals.                             *)

Within(j, right) == [j |-> j, right |-> right, low |-> Bits, left |-> 0, high |-> {}]
Across(j, right, low, left, high) ==
  [j |-> j, right |-> right, low |-> low, left |-> left, high |-> high]

MergeD2 == [s \in 1 .. 8 |-> Within((s - 1) \div 4, <<0, 2, 4, 6, 0, 2, 4, 6>>[s])]
MergeD3 ==
  <<Within(0, 0), Within(0, 3), Across(0, 6, 0..1, 2, 2..7), Within(1, 1), Within(1, 4),
    Across(1, 7, 0..0, 1, 1..7), Within(2, 2), Within(2, 5)>>
MergeD4 == [s \in 1 .. 8 |-> Within((s - 1) \div 2, <<0, 4, 0, 4, 0, 4, 0, 4>>[s])]
MergeD5 ==
  <<Within(0, 0), Across(0, 5, 0..2, 3, 3..7), Within(1, 2), Across(1, 7, 0..0, 1, 1..7),
    Across(2, 4, 0..3, 4, 4..7), Within(3, 1), Across(3, 6, 0..1, 2, 2..7), Within(4, 3)>>
MergeD6 ==
  <<Within(0, 0), Across(0, 6, 0..1, 2, 2..7), Across(1, 4, 0..3, 4, 4..7), Within(2, 2),
    Within(3, 0), Across(3, 6, 0..1, 2, 2..7), Across(4, 4, 0..3, 4, 4..7), Within(5, 2)>>
MergeD7 ==
  <<Within(0, 0), Across(0, 7, 0..0, 1, 1..7), Across(1, 6, 0..1, 2, 2..7),
    Across(2, 5, 0..2, 3, 3..7), Across(3, 4, 0..3, 4, 4..7), Across(4, 3, 0..4, 5, 5..7),
    Across(5, 2, 0..5, 6, 6..7), Within(6, 1)>>
MergeRows(D) == <<MergeD2, MergeD3, MergeD4, MergeD5, MergeD6, MergeD7>>[D - 1]

\* Mutant: what a shift of words lets in from the neighbour is not masked off.
UnrolledCodes_unmasked(cols, D, s) ==
  LET row == MergeRows(D)[s]
      low == ShiftWords(cols[row.j], row.right)
  IN Keep(IF row.high = {} THEN low
          ELSE Or(low, Keep(ShiftWords(cols[row.j + 1], -row.left), row.high)), 0 .. D - 1)

\* The codes of step s (from 1) by each kind of kernel; all end with the mask of D bits.
UnrolledCodes(cols, D, s) ==
  LET row == MergeRows(D)[s]
      low == Keep(ShiftWords(cols[row.j], row.right), row.low)
  IN Keep(IF row.high = {} THEN low
          ELSE Or(low, Keep(ShiftWords(cols[row.j + 1], -row.left), row.high)), 0 .. D - 1)

SseCodes(cols, D, s) ==
  LET bit == (s - 1) * D
      at == bit \div 8
      off == bit % 8
  IN Keep(IF off + D <= 8 THEN ShiftWords(cols[at], off)
          ELSE Or(Keep(ShiftWords(cols[at], off), 0 .. 7 - off),
                  Keep(ShiftWords(cols[at + 1], off - 8), 8 - off .. 7)), 0 .. D - 1)

NeonCodes(cols, D, s) ==
  LET bit == (s - 1) * D
      at == bit \div 8
      off == bit % 8
      low == ShiftBytes(cols[at], off)
  IN Keep(IF off + D <= 8 THEN low ELSE Or(low, ShiftBytes(cols[at + 1], off - 8)), 0 .. D - 1)

\* The scalar kernel shifts a word of the two bytes, of which it loads the second
\* only for a code that runs into it.
ScalarCodes(cols, D, s) ==
  LET bit == (s - 1) * D
      at == bit \div 8
      off == bit % 8
  IN [l \in DOMAIN cols[at] |-> [b \in Bits |->
        IF b >= D THEN {}
        ELSE IF off + b < 8 THEN cols[at][l][off + b] ELSE cols[at + 1][l][off + b - 8]]]

-----------------------------------------------------------------------------
(* The lookups: the index bits that select the symbol.  Tables of 16 bytes *)
(* are shuffled by the low four bits and then blended by the bit that a    *)
(* shift of the words brings to the top of the byte.                       *)

TopBit(r, k) == [l \in DOMAIN r |-> ShiftWords(r, -k)[l][7]]
LowBits(r) == [l \in DOMAIN r |-> [b \in 0 .. 3 |-> r[l][b]]]
Blended(r, i, k) == [l \in DOMAIN r |-> i[l] @@ (Cardinality(DOMAIN i[l]) :> TopBit(r, k)[l])]

BlendLookup4(r) == LowBits(r)
BlendLookup5(r) == Blended(r, BlendLookup4(r), 3)
BlendLookup6(r) == Blended(r, BlendLookup5(r), 2)
BlendLookup7(r) == Blended(r, BlendLookup6(r), 1)
BlendLookup(r, D) ==
  CASE D \in 2 .. 4 -> BlendLookup4(r)
    [] D = 5 -> BlendLookup5(r)
    [] D = 6 -> BlendLookup6(r)
    [] OTHER -> BlendLookup7(r)

\* One register of 64 bytes, smaller tables repeated in it, or two of them.  (NEON and the
\* scalar kernel index by the whole byte.)
PermuteLookup(r, D) ==
  [l \in DOMAIN r |-> [b \in 0 .. (IF D <= 4 THEN 3 ELSE D - 1) |-> r[l][b]]]

-----------------------------------------------------------------------------
(* The unrolled steps of the packs, in the order they are in: step v       *)
(* starts column j (Start), is or-ed into it above the codes already there *)
(* (Above), or leaves its high bits as the start of column j (Spill).      *)

Start(j, v) == [kind |-> "start", j |-> j, v |-> v, shift |-> 0, mask |-> Bits]
Above(j, v, left, mask) == [kind |-> "above", j |-> j, v |-> v, shift |-> left, mask |-> mask]
Spill(j, v, right, mask) == [kind |-> "spill", j |-> j, v |-> v, shift |-> right, mask |-> mask]

PackD2 ==
  <<Start(0, 0), Above(0, 1, 2, 2..7), Above(0, 2, 4, 4..7), Above(0, 3, 6, 6..7),
    Start(1, 4), Above(1, 5, 2, 2..7), Above(1, 6, 4, 4..7), Above(1, 7, 6, 6..7)>>
PackD3 ==
  <<Start(0, 0), Above(0, 1, 3, 3..7), Above(0, 2, 6, 6..7), Spill(1, 2, 2, 0..5),
    Above(1, 3, 1, 1..7), Above(1, 4, 4, 4..7), Above(1, 5, 7, 7..7), Spill(2, 5, 1, 0..6),
    Above(2, 6, 2, 2..7), Above(2, 7, 5, 5..7)>>
PackD4 ==
  <<Start(0, 0), Above(0, 1, 4, 4..7), Start(1, 2), Above(1, 3, 4, 4..7),
    Start(2, 4), Above(2, 5, 4, 4..7), Start(3, 6), Above(3, 7, 4, 4..7)>>
PackD5 ==
  <<Start(0, 0), Above(0, 1, 5, 5..7), Spill(1, 1, 3, 0..4), Above(1, 2, 2, 2..7),
    Above(1, 3, 7, 7..7), Spill(2, 3, 1, 0..6), Above(2, 4, 4, 4..7), Spill(3, 4, 4, 0..3),
    Above(3, 5, 1, 1..7), Above(3, 6, 6, 6..7), Spill(4, 6, 2, 0..5), Above(4, 7, 3, 3..7)>>
PackD6 ==
  <<Start(0, 0), Above(0, 1, 6, 6..7), Spill(1, 1, 2, 0..5), Above(1, 2, 4, 4..7),
    Spill(2, 2, 4, 0..3), Above(2, 3, 2, 2..7), Start(3, 4), Above(3, 5, 6, 6..7),
    Spill(4, 5, 2, 0..5), Above(4, 6, 4, 4..7), Spill(5, 6, 4, 0..3), Above(5, 7, 2, 2..7)>>
PackD7 ==
  <<Start(0, 0), Above(0, 1, 7, 7..7), Spill(1, 1, 1, 0..6), Above(1, 2, 6, 6..7),
    Spill(2, 2, 2, 0..5), Above(2, 3, 5, 5..7), Spill(3, 3, 3, 0..4), Above(3, 4, 4, 4..7),
    Spill(4, 4, 4, 0..3), Above(4, 5, 3, 3..7), Spill(5, 5, 5, 0..2), Above(5, 6, 2, 2..7),
    Spill(6, 6, 6, 0..1), Above(6, 7, 1, 1..7)>>
PackRows(D) == <<PackD2, PackD3, PackD4, PackD5, PackD6, PackD7>>[D - 1]

\* v: the codes of the eight steps.  An unwritten column is unknown.
UnrolledColumns(v, D) ==
  FoldLeft(LAMBDA cols, row :
      LET put == CASE row.kind = "start" -> v[row.v]
                   [] row.kind = "above" ->
                        Or(cols[row.j], Keep(ShiftWords(v[row.v], -row.shift), row.mask))
                   [] OTHER -> Keep(ShiftWords(v[row.v], row.shift), row.mask)
      IN [cols EXCEPT ![row.j] = put],
    [k \in 0 .. D - 1 |-> [l \in DOMAIN v[0] |-> OldBits]], PackRows(D))

\* NEON has the same steps with shifts of bytes and an insert in place of mask and or.
NeonColumns(v, D) ==
  FoldLeft(LAMBDA cols, row :
      LET put == CASE row.kind = "start" -> v[row.v]
                   [] row.kind = "above" -> InsertAbove(cols[row.j], v[row.v], row.shift)
                   [] OTHER -> ShiftBytes(v[row.v], row.shift)
      IN [cols EXCEPT ![row.j] = put],
    [k \in 0 .. D - 1 |-> [l \in DOMAIN v[0] |-> OldBits]], PackRows(D))

\* The columns start at zero, step s is or-ed in at bit s * D.
SseColumns(v, D) ==
  FoldLeft(LAMBDA cols, s :
      LET at == (s * D) \div 8
          off == (s * D) % 8
          start == [cols EXCEPT ![at] = Or(@, Keep(ShiftWords(v[s], -off), off .. 7))]
      IN IF off + D <= 8 THEN start
         ELSE [start EXCEPT ![at + 1] = Or(@, Keep(ShiftWords(v[s], 8 - off), 0 .. off - 1))],
    [k \in 0 .. D - 1 |-> [l \in DOMAIN v[0] |-> NoBits]], <<0, 1, 2, 3, 4, 5, 6, 7>>)

ScalarColumns(v, D) ==
  FoldLeft(LAMBDA cols, s :
      LET at == (s * D) \div 8
          off == (s * D) % 8
          start == [cols EXCEPT ![at] = Or(@, ShiftBytes(v[s], -off))]
      IN IF off + D <= 8 THEN start
         ELSE [start EXCEPT ![at + 1] = Or(@, ShiftBytes(v[s], 8 - off))],
    [k \in 0 .. D - 1 |-> [l \in DOMAIN v[0] |-> NoBits]], <<0, 1, 2, 3, 4, 5, 6, 7>>)

-----------------------------------------------------------------------------
(* The dispatchers.  The narrow blocks have one kernel a platform; of the  *)
(* wide ones the x86 builds take the widest they have, except that seven   *)
(* bits are packed by the 16-lane kernel on AVX2 outside Intel.            *)

WideKernel(c) ==
  CASE c.engine \in {"scalar", "neon", "sse"} -> c.engine
    [] c.engine = "avx512" -> "zmm"
    [] c.engine = "avx2" /\ c.op = "pack" /\ c.D = 7 -> "sse"
    [] OTHER -> "ymm"
NarrowKernel(c) == IF c.engine \in {"scalar", "neon"} THEN c.engine ELSE "sse"

\* The groups of a wide block that a turn of the kernel's loop takes.
Groups(kernel) == CASE kernel \in {"scalar", "zmm"} -> 4
                    [] kernel = "ymm" -> 2
                    [] OTHER -> 1

CodesOf(kernel, cols, D, s) ==
  CASE kernel = "scalar" -> ScalarCodes(cols, D, s)
    [] kernel = "neon" -> NeonCodes(cols, D, s)
    [] kernel = "sse" -> SseCodes(cols, D, s)
    [] OTHER -> UnrolledCodes(cols, D, s)
LookupOf(kernel, r, D) ==
  CASE kernel \in {"sse", "ymm"} -> BlendLookup(r, D)
    [] kernel = "zmm" -> PermuteLookup(r, D)
    [] OTHER -> r
ColumnsOf(kernel, v, D) ==
  CASE kernel = "scalar" -> ScalarColumns(v, D)
    [] kernel = "neon" -> NeonColumns(v, D)
    [] kernel = "sse" -> SseColumns(v, D)
    [] OTHER -> UnrolledColumns(v, D)

-----------------------------------------------------------------------------
VerticalInit ==
  /\ call \in [op : {"pack"}, engine : VerticalEngines, D : 2 .. 8, n : VerticalSizes,
               layout : VerticalLayouts]
  /\ done = 0 /\ part = 0
  /\ packed = [a \in 0 .. RegionSize(call) - 1 |-> OldBits]
  /\ decoded = <<>>

\* A turn of a kernel's loop on block codes "from" of "lanes" lanes, of which it takes
\* those from lane "first" on: D columns of a register each, eight steps of as many codes.
Turn(kernel, from, lanes, first, count) ==
  LET D == call.D
      InTurn == 0 .. count - 1
      byte == (from * D) \div 8 + first
      code == from + first
      cols == [k \in 0 .. D - 1 |-> [l \in InTurn |-> packed[byte + lanes * k + l]]]
  IN IF call.op = "pack"
     THEN LET put == ColumnsOf(kernel,
                        [s \in 0 .. 7 |-> [l \in InTurn |-> Code(code + lanes * s + l, D)]], D)
              stored == {<<k, l>> : k \in 0 .. D - 1, l \in InTurn}
              fresh == [a \in {byte + lanes * p[1] + p[2] : p \in stored} |->
                          put[(a - byte) \div lanes][(a - byte) % lanes]]
          IN /\ packed' = fresh @@ packed
             /\ UNCHANGED decoded
     ELSE LET index == [s \in 0 .. 7 |-> LookupOf(kernel, CodesOf(kernel, cols, D, s + 1), D)]
          IN /\ decoded' = [i \in {code + lanes * s + l : s \in 0 .. 7, l \in InTurn} |->
                              index[(i - code) \div lanes][(i - code) % lanes]] @@ decoded
             /\ UNCHANGED packed

WideTurn ==
  /\ done < WideSpan(call)
  /\ LET kernel == WideKernel(call)
     IN /\ Turn(kernel, done, Wide64, part * GroupLanes, Groups(kernel) * GroupLanes)
        /\ part' = (part + Groups(kernel)) % 4
  /\ done' = IF part' = 0 THEN done + 8 * Wide64 ELSE done
  /\ UNCHANGED call

NarrowTurn ==
  /\ done >= WideSpan(call)
  /\ done < WideSpan(call) + NarrowSpan(call, WideSpan(call))
  /\ Turn(NarrowKernel(call), done, GroupLanes, 0, GroupLanes)
  /\ done' = done + 8 * GroupLanes
  /\ UNCHANGED <<call, part>>

\* The natural kernels, which have the region's last codes to themselves, from a whole byte on.
NaturalRest ==
  /\ done = WideSpan(call) + NarrowSpan(call, WideSpan(call)) /\ done < call.n
  /\ done' = call.n
  /\ LET D == call.D
         first == (done * D) \div 8
         Natural(bit) == IF bit < call.n * D THEN {<<bit \div D, bit % D>>} ELSE {}
     IN IF call.op = "pack"
        THEN /\ packed' = [a \in DOMAIN packed |->
                             IF a < first THEN packed[a] ELSE [b \in Bits |-> Natural(8 * a + b)]]
             /\ UNCHANGED decoded
        ELSE /\ decoded' = [i \in done .. call.n - 1 |-> [b \in 0 .. D - 1 |->
                              packed[(i * D + b) \div 8][(i * D + b) % 8]]] @@ decoded
             /\ UNCHANGED packed
  /\ UNCHANGED <<call, part>>

\* Another build decodes the region.
DecodeRegion ==
  /\ call.op = "pack" /\ done = call.n
  /\ \E e \in VerticalEngines : call' = [call EXCEPT !.op = "merge", !.engine = e]
  /\ done' = 0
  /\ UNCHANGED <<part, packed, decoded>>

VerticalNext == WideTurn \/ NarrowTurn \/ NaturalRest \/ DecodeRegion
VerticalSpec == VerticalInit /\ [][VerticalNext]_verticalVars

-----------------------------------------------------------------------------
VerticalTypeOK ==
  /\ call \in [op : {"pack", "merge"}, engine : VerticalEngines, D : 2 .. 8,
               n : VerticalSizes \cup {0}, layout : VerticalLayouts]
  /\ done \in 0 .. call.n /\ part \in 0 .. 3
  /\ DOMAIN packed = 0 .. RegionSize(call) - 1
  /\ DOMAIN decoded \subseteq 0 .. call.n - 1

\* The layout as the header describes it: of a block's code v, lane v % lanes has the
\* bits from (v \div lanes) * D on of its own stream, whose byte j is lanes * j further.
BlockBit(v, b, lanes, D) ==
  LET bit == (v \div lanes) * D + b IN <<lanes * (bit \div 8) + (v % lanes), bit % 8>>
LayoutBit(c, i, b) ==
  LET whole == 8 * Wide64
      wide == IF c.layout = "hybrid" /\ c.D < 8 THEN (c.n \div whole) * whole ELSE 0
      narrow == IF c.layout # "natural" /\ c.D < 8
                THEN (c.n \div (8 * GroupLanes)) * 8 * GroupLanes ELSE 0
      InBlock(from, lanes) ==
        LET block == (i - from) \div (8 * lanes)
            place == BlockBit((i - from) % (8 * lanes), b, lanes, c.D)
        IN <<(from * c.D) \div 8 + block * lanes * c.D + place[1], place[2]>>
      bit == i * c.D + b
  IN IF i < wide THEN InBlock(0, Wide64)
     ELSE IF i < narrow THEN InBlock(wide, GroupLanes)
     ELSE <<bit \div 8, bit % 8>>

\* Whatever engine packs a region, each bit of each code is where the layout puts it, and
\* nothing else is in the region's bytes.
LayoutKept ==
  call.op = "pack" /\ done = call.n =>
    /\ \A i \in 0 .. call.n - 1, b \in 0 .. call.D - 1 :
         LET p == LayoutBit(call, i, b) IN packed[p[1]][p[2]] = {<<i, b>>}
    /\ Cardinality({p \in (DOMAIN packed) \X Bits : packed[p[1]][p[2]] # {}}) = call.n * call.D

\* Whatever engine decodes it, the symbol of a code is looked up by that code: by all of
\* its bits, and by no bit of another code, however many bits the table is indexed by.
CodesReturn ==
  call.op = "merge" /\ done = call.n =>
    \A i \in 0 .. call.n - 1 :
      /\ 0 .. call.D - 1 \subseteq DOMAIN decoded[i]
      /\ \A b \in DOMAIN decoded[i] : decoded[i][b] = IF b < call.D THEN {<<i, b>>} ELSE {}

\* Every engine packs a flat region to the layout's bytes and gets its codes back from them.
\* The kernels of one build are never run against those of another by a test of either.
VerticalSound == VerticalTypeOK /\ LayoutKept /\ CodesReturn
=============================================================================
