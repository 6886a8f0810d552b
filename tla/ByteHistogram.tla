---------------------------- MODULE ByteHistogram ----------------------------
(***************************************************************************)
(* The AVX-512 byte histogram (histogram_chunk_avx512,                     *)
(* hist_consume_bin_avx512 of pivco_huffman_primitives_avx512.h) and the   *)
(* loop of pivco_histogram over it.  Bytes are binned by their top bits    *)
(* into four adjacent buffers; a bin is counted, when its buffer is nearly *)
(* full and at the end of a round, by one-bit counters that full adders    *)
(* carry into counters of 8, then 16, then 32 bits.                        *)
(*                                                                         *)
(* The affine rotation of a byte's low bits and the transposition of the   *)
(* counters undo each other: a counter is named by the morsel it counts.   *)
(***************************************************************************)
EXTENDS Integers, FiniteSets, Sequences

CONSTANTS Bins,     \* 4
          Morsels,  \* values of a byte within its bin: 64
          LoadLanes,\* bytes of one load: 8
          Burst,    \* vectors counted in 8-bit counters: 31
          CtrMod,   \* values of an 8-bit counter: 256
          WideMod,  \* values of a 16-bit counter: 2^16
          BufSize,  \* cells of a bin's buffer: 16 K
          MaxChunk, \* PIVCO_PRIM_HIST_CHUNK: 2^30
          Inputs,   \* the inputs, sequences of bytes
          Offsets   \* their misalignments

\* A vector is eight loads.
Vec == 8 * LoadLanes
ASSUME CountAssumption ==
  /\ {Bins, Morsels, LoadLanes, Burst, CtrMod, WideMod, BufSize, MaxChunk} \subseteq Nat \ {0}
  /\ Burst * LoadLanes < CtrMod /\ 7 * LoadLanes < CtrMod
  /\ BufSize % Vec = 0 /\ BufSize > Vec /\ WideMod % Vec = 0 /\ WideMod > Vec /\ MaxChunk % Vec = 0
ASSUME OffsetsAssumption == Offsets \subseteq 0 .. Vec - 1
\* A byte is a value of a bin and a morsel.
ASSUME InputsAssumption == Inputs \subseteq Seq(0 .. Bins * Morsels - 1)

VARIABLES in, offset,
          ptr,      \* bytes of the input passed
          left,     \* bytes left of the chunk
          pc,       \* "chunk", "align", "rounds", "vectors", "count", "done"
          round,    \* bytes left of the round
          scratch,  \* the bins' buffers, one after the other, and what follows them
          count,    \* cells in use, by bin
          hist16,   \* the round's counters, by bin and morsel
          tree,     \* the bin being counted: its planes and narrow counters
          freq      \* the result, by byte
countVars == <<in, offset, ptr, left, pc, round, scratch, count, hist16, tree, freq>>

-----------------------------------------------------------------------------
Bytes == 0 .. Bins * Morsels - 1
BinOf(b) == b \div Morsels
MorselOf(b) == b % Morsels
Byte(i) == in[i + 1]
Occurrences(b, i, k) == Cardinality({p \in i .. k - 1 : Byte(p) = b})

\* A cell set to all ones shifts its bit out of the vector: it counts nothing.
Pad == -1
BinBase(bin) == bin * BufSize

\* A full adder on planes of one-bit counters, each a set of <<lane, morsel>>.
Sum3(a, b, c) == {x \in a \cup b \cup c : Cardinality({k \in 1 .. 3 : x \in <<a, b, c>>[k]}) % 2 = 1}
Carry(a, b, c) == (a \cap b) \cup (a \cap c) \cup (b \cap c)

\* The tree over the eight loads x and the counters kept between vectors; e is the carry
\* of weight eight.
Added(x, w0, w1, w2) ==
  LET s1 == Sum3(x[0], x[1], x[2])  c1 == Carry(x[0], x[1], x[2])
      s2 == Sum3(x[3], x[4], x[5])  c2 == Carry(x[3], x[4], x[5])
      s3 == Sum3(x[6], x[7], w0)    c3 == Carry(x[6], x[7], w0)
      s4 == Sum3(s1, s2, s3)        c4 == Carry(s1, s2, s3)
      t1 == Sum3(c1, c2, c3)        d1 == Carry(c1, c2, c3)
      t2 == Sum3(t1, c4, w1)        d2 == Carry(t1, c4, w1)
  IN  [w0 |-> s4, w1 |-> t2, w2 |-> Sum3(d2, d1, w2), e |-> Carry(d2, d1, w2)]

PerMorsel(plane) == [m \in 0 .. Morsels - 1 |-> Cardinality({x \in plane : x[2] = m})]
Zero == [m \in 0 .. Morsels - 1 |-> 0]

\* The cells past a bin's count up to a whole vector are set to all ones.
\* Mutant: they are left as they are.
TailedKept(b) == scratch

Tailed(b) ==
  LET up == ((count[b] + Vec - 1) \div Vec) * Vec
  IN  [a \in DOMAIN scratch |-> IF a \in BinBase(b) + count[b] .. BinBase(b) + up - 1 THEN Pad ELSE scratch[a]]

BurstEnds(k) == k % Burst = 0

\* One vector of a bin; the 8-bit counters go to the 16-bit ones at the end of a burst.
Fresh == [bin |-> 0, k |-> 0, w0 |-> {}, w1 |-> {}, w2 |-> {}, eights |-> Zero, h |-> Zero]
Vectors(bin) == (count[bin] + Vec - 1) \div Vec
AfterVector ==
  LET from == BinBase(tree.bin) + tree.k * Vec
      x == [i \in 0 .. 7 |->
              {<<l, scratch[from + i * LoadLanes + l]>> :
                 l \in {l \in 0 .. LoadLanes - 1 : scratch[from + i * LoadLanes + l] # Pad}}]
      a == Added(x, tree.w0, tree.w1, tree.w2)
      k == tree.k + 1
      e == [m \in DOMAIN Zero |-> (tree.eights[m] + PerMorsel(a.e)[m]) % CtrMod]
      ends == BurstEnds(k) \/ k = Vectors(tree.bin)
  IN  [bin |-> tree.bin, k |-> k, w0 |-> a.w0, w1 |-> a.w1, w2 |-> a.w2,
       eights |-> IF ends THEN Zero ELSE e,
       h |-> IF ends THEN [m \in DOMAIN Zero |-> (tree.h[m] + e[m]) % WideMod] ELSE tree.h]
\* What the bin adds to its counters: the carries by eight, and what the planes still hold.
Total(m) ==
  (8 * tree.h[m] + PerMorsel(tree.w0)[m] + 2 * PerMorsel(tree.w1)[m] + 4 * PerMorsel(tree.w2)[m]) % WideMod

NearlyFull(n) == n >= BufSize - Vec

-----------------------------------------------------------------------------
CountInit ==
  /\ in \in Inputs /\ offset \in Offsets
  /\ ptr = 0 /\ left = 0 /\ pc = "chunk" /\ round = 0
  /\ scratch = [a \in 0 .. (Bins * BufSize) + Vec - 1 |-> 0]
  /\ count = [b \in 0 .. Bins - 1 |-> 0]
  /\ hist16 = [b \in 0 .. Bins - 1 |-> Zero]
  /\ tree = Fresh
  /\ freq = [b \in Bytes |-> 0]

\* The next piece of the input, short enough for counters of 32 bits.
Chunk ==
  /\ pc = "chunk"
  /\ LET rest == Len(in) - ptr
         n == IF rest > MaxChunk THEN MaxChunk ELSE rest
     IN  left' = n /\ pc' = IF n = 0 THEN "done" ELSE IF n >= Vec THEN "align" ELSE "rounds"
  /\ UNCHANGED <<in, offset, ptr, round, scratch, count, hist16, freq, tree>>

\* Bytes up to the first aligned one are counted singly.
Align ==
  /\ pc = "align"
  /\ LET k == (-(offset + ptr)) % Vec
     IN  /\ freq' = [b \in Bytes |-> freq[b] + Occurrences(b, ptr, ptr + k)]
         /\ ptr' = ptr + k /\ left' = left - k
  /\ pc' = "rounds"
  /\ UNCHANGED <<in, offset, round, scratch, count, hist16, tree>>

RoundMax == WideMod - Vec
OpenRound ==
  /\ pc = "rounds" /\ left >= Vec
  /\ round' = IF left >= RoundMax THEN RoundMax ELSE left - (left % Vec)
  /\ left' = left - round'
  /\ hist16' = [b \in 0 .. Bins - 1 |-> Zero]
  /\ count' = [b \in 0 .. Bins - 1 |-> 0]
  /\ pc' = "vectors"
  /\ UNCHANGED <<in, offset, ptr, scratch, freq, tree>>

\* A bin is counted when it has no room for another vector, and at the end of the round.
Due(b) == NearlyFull(count[b]) \/ (round = 0 /\ count[b] > 0)

\* Those of the next p bytes that belong to a bin; and a register with the morsels of the
\* vector's bytes of a bin moved to its front, in their order, and zeroes behind.
Hits(b, p) == {q \in 0 .. p - 1 : BinOf(Byte(ptr + q)) = b}
Hit(b, l) == CHOOSE p \in Hits(b, Vec) : Cardinality(Hits(b, p)) = l
Row(b) ==
  [l \in 0 .. Vec - 1 |-> IF l < Cardinality(Hits(b, Vec)) THEN MorselOf(Byte(ptr + Hit(b, l))) ELSE 0]

\* A vector is compressed into each bin, a whole register stored at the bin's count,
\* the bins in turn.
ReadVector ==
  /\ pc = "vectors" /\ round > 0 /\ \A b \in DOMAIN count : ~Due(b)
  /\ LET row == [b \in DOMAIN count |-> Row(b)]
         Lane(b, a) == a - BinBase(b) - count[b]
         Lands(b, a) == Lane(b, a) \in 0 .. Vec - 1
     IN  scratch' = [a \in DOMAIN scratch |->
                       IF \A b \in DOMAIN count : ~Lands(b, a) THEN scratch[a]
                       ELSE LET b == CHOOSE b \in DOMAIN count :
                                       Lands(b, a) /\ \A c \in DOMAIN count : Lands(c, a) => c <= b
                            IN  row[b][Lane(b, a)]]
  /\ count' = [b \in DOMAIN count |-> count[b] + Cardinality(Hits(b, Vec))]
  /\ ptr' = ptr + Vec /\ round' = round - Vec
  /\ UNCHANGED <<in, offset, left, pc, hist16, freq, tree>>

StartBin(b) ==
  /\ pc = "vectors" /\ Due(b) /\ \A a \in 0 .. b - 1 : ~Due(a)
  /\ scratch' = Tailed(b)
  /\ tree' = [Fresh EXCEPT !.bin = b] /\ pc' = "count"
  /\ UNCHANGED <<in, offset, ptr, left, round, count, hist16, freq>>
CountVector ==
  /\ pc = "count" /\ tree.k < Vectors(tree.bin)
  /\ tree' = AfterVector
  /\ UNCHANGED <<in, offset, ptr, left, pc, round, scratch, count, hist16, freq>>
EndBin ==
  /\ pc = "count" /\ tree.k = Vectors(tree.bin)
  /\ hist16' = [hist16 EXCEPT ![tree.bin] = [m \in DOMAIN Zero |-> (hist16[tree.bin][m] + Total(m)) % WideMod]]
  /\ count' = [count EXCEPT ![tree.bin] = 0]
  /\ tree' = Fresh /\ pc' = "vectors"
  /\ UNCHANGED <<in, offset, ptr, left, round, scratch, freq>>

CloseRound ==
  /\ pc = "vectors" /\ round = 0 /\ \A b \in DOMAIN count : count[b] = 0
  /\ freq' = [b \in Bytes |-> freq[b] + hist16[BinOf(b)][MorselOf(b)]]
  /\ pc' = "rounds"
  /\ UNCHANGED <<in, offset, ptr, left, round, scratch, count, hist16, tree>>

\* What is left of the chunk is counted singly.
Rest ==
  /\ pc = "rounds" /\ left < Vec
  /\ freq' = [b \in Bytes |-> freq[b] + Occurrences(b, ptr, ptr + left)]
  /\ ptr' = ptr + left /\ left' = 0 /\ pc' = "chunk"
  /\ UNCHANGED <<in, offset, round, scratch, count, hist16, tree>>

CountNext ==
  \/ Chunk \/ Align \/ OpenRound \/ ReadVector
  \/ \E b \in 0 .. Bins - 1 : StartBin(b)
  \/ CountVector \/ EndBin
  \/ CloseRound \/ Rest
CountSpec == CountInit /\ [][CountNext]_countVars

-----------------------------------------------------------------------------
CountTypeOK ==
  /\ pc \in {"chunk", "align", "rounds", "vectors", "count", "done"}
  /\ ptr \in 0 .. Len(in) /\ left \in 0 .. MaxChunk /\ round \in 0 .. RoundMax
  /\ DOMAIN freq = Bytes /\ \A b \in Bytes : freq[b] \in 0 .. Len(in)
  /\ \A b \in DOMAIN count : count[b] \in 0 .. BufSize
  /\ \A b \in DOMAIN hist16, m \in DOMAIN Zero : hist16[b][m] \in 0 .. WideMod - 1

\* A vector's store at a bin's count stays in the bin's buffer: what lies after it is the
\* next bin's first bytes.
BinsApart ==
  pc = "vectors" /\ round > 0 /\ (\A b \in DOMAIN count : ~Due(b))
    => \A b \in DOMAIN count : count[b] + Vec <= BufSize

\* Between rounds every byte passed is in the result exactly once: no counter of 8 or of 16
\* bits wraps, no cell past a bin's count is taken for a byte, whatever the alignment of
\* the input and the split into rounds and chunks.
Exact == pc \notin {"vectors", "count"} => \A b \in Bytes : freq[b] = Occurrences(b, 0, ptr)

\* Within a round a byte is in the result, in its bin's counters or in its bin's buffer.
Conserved ==
  pc = "vectors" =>
    \A b \in Bytes :
      LET bin == BinOf(b)
          waiting == Cardinality({a \in BinBase(bin) .. BinBase(bin) + count[bin] - 1 : scratch[a] = MorselOf(b)})
      IN  freq[b] + hist16[bin][MorselOf(b)] + waiting = Occurrences(b, 0, ptr)

\* What the histogram owes the table build.
HistogramSound == CountTypeOK /\ BinsApart /\ Exact /\ Conserved
=============================================================================
