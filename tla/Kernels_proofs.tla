--------------------------- MODULE Kernels_proofs ---------------------------
(***************************************************************************)
(* The SIMD kernels, for regions and nodes of every size.                  *)
(*                                                                         *)
(* The flat kernels stay within their region.  The finite part is the      *)
(* table of loops: each loop's stopping condition is weighed against its   *)
(* registers' reach once, and then holds wherever the loop is in a region  *)
(* of any length.                                                          *)
(*                                                                         *)
(* The vector merges put every child's symbol where the bitmap routes it.  *)
(* Counting in the bitmap says where a step's lanes come from, the index   *)
(* tables are shown to pick just those, and the stores are shown to lag    *)
(* behind the child that lies in the same buffer.                          *)
(*                                                                         *)
(* The partitions are the other way round: by the same counting, the index *)
(* tables pack a chunk's ranks of one side to its front, in order, and the *)
(* chunks of a step, stored in turn, leave junk only where the next one    *)
(* or the next step overwrites it and never past the step's own ranks.     *)
(*                                                                         *)
(* The histogram counts every byte once.  A full adder preserves what its  *)
(* planes weigh, so that the tree of them does; a bin's count is what is   *)
(* between its planes, its narrow counters and its wide ones, each below   *)
(* its modulus by the length of a burst and of a round; and what is stored *)
(* behind a bin's last byte counts nothing.                                *)
(***************************************************************************)
EXTENDS FlatKernel, MergeKernel, PartitionKernel, ByteHistogram, FiniteSetTheorems, WellFoundedInduction, TLAPS

-----------------------------------------------------------------------------
(* The flat kernels.                                                        *)

\* What a loop must be to stay within x bytes past a region of D-bit codes:
\* the codes it and its margin stand for, or the bytes it asks for, reach as
\* far as its registers do.
Sound(l, D, x) ==
    /\ l.take \in Nat \ {0} /\ l.keep \in Nat /\ l.need \in Nat /\ l.span \in Nat
    /\ (l.take * D) % 8 = 0
    /\ l.take * D <= 8 * l.span
    /\ \/ 8 * (l.span - x) <= (l.take + l.keep) * D + 7
       \/ l.span <= l.need + x

WriteExcess(e, D) ==
    IF e \in {"neon", "avx512"} \/ D \in {4, 8} \/ (e = "sse" /\ D = 2)
    THEN 0 ELSE 16 - 2 * D

\* Every loop of every unpack is sound: the margins of the NEON, SSE, AVX2 and
\* AVX-512 kernels suit their registers.
LEMMA MergeTable ==
    ASSUME NEW e \in AllEngines, NEW D \in 2..8,
           NEW k \in 1..Len(MergeLoops(e, D))
    PROVE  Sound(MergeLoops(e, D)[k], D, ReadExcess(e, D))
<1>0. D \in {2, 3, 4, 5, 6, 7, 8}
  OBVIOUS
<1>1. CASE e = "neon"
  <2>1. CASE D = 2
    BY <1>1, <2>1 DEF MergeLoops, NeonMerge, Loop, Exactly, Sound, ReadExcess
  <2>2. CASE D = 3
    BY <1>1, <2>2 DEF MergeLoops, NeonMerge, Loop, Exactly, Sound, ReadExcess
  <2>3. CASE D = 4
    BY <1>1, <2>3 DEF MergeLoops, NeonMerge, Loop, Exactly, Sound, ReadExcess
  <2>4. CASE D = 5
    BY <1>1, <2>4 DEF MergeLoops, NeonMerge, Loop, Exactly, Sound, ReadExcess
  <2>5. CASE D = 6
    BY <1>1, <2>5 DEF MergeLoops, NeonMerge, Loop, Exactly, Sound, ReadExcess
  <2>6. CASE D = 7
    BY <1>1, <2>6 DEF MergeLoops, NeonMerge, Loop, Exactly, Sound, ReadExcess
  <2>7. CASE D = 8
    BY <1>1, <2>7 DEF MergeLoops, NeonMerge, Loop, Exactly, Sound, ReadExcess
  <2> QED BY <1>0, <2>1, <2>2, <2>3, <2>4, <2>5, <2>6, <2>7
<1>2. CASE e = "sse"
  <2>1. CASE D = 2
    BY <1>2, <2>1 DEF MergeLoops, SseMerge, Loop, Exactly, Sound, ReadExcess
  <2>2. CASE D = 3
    BY <1>2, <2>2 DEF MergeLoops, SseMerge, Loop, Exactly, Sound, ReadExcess
  <2>3. CASE D = 4
    BY <1>2, <2>3 DEF MergeLoops, SseMerge, Loop, Exactly, Sound, ReadExcess
  <2>4. CASE D = 5
    BY <1>2, <2>4 DEF MergeLoops, SseMerge, Loop, Exactly, Sound, ReadExcess
  <2>5. CASE D = 6
    BY <1>2, <2>5 DEF MergeLoops, SseMerge, Loop, Exactly, Sound, ReadExcess
  <2>6. CASE D = 7
    BY <1>2, <2>6 DEF MergeLoops, SseMerge, Loop, Exactly, Sound, ReadExcess
  <2>7. CASE D = 8
    BY <1>2, <2>7 DEF MergeLoops, SseMerge, Loop, Exactly, Sound, ReadExcess
  <2> QED BY <1>0, <2>1, <2>2, <2>3, <2>4, <2>5, <2>6, <2>7
<1>3. CASE e = "avx2"
  <2>1. CASE D = 2
    BY <1>3, <2>1 DEF MergeLoops, Avx2Merge, SseMerge, Loop, Exactly, Sound, ReadExcess
  <2>2. CASE D = 3
    BY <1>3, <2>2 DEF MergeLoops, Avx2Merge, SseMerge, Loop, Exactly, Sound, ReadExcess
  <2>3. CASE D = 4
    BY <1>3, <2>3 DEF MergeLoops, Avx2Merge, SseMerge, Loop, Exactly, Sound, ReadExcess
  <2>4. CASE D = 5
    BY <1>3, <2>4 DEF MergeLoops, Avx2Merge, SseMerge, Loop, Exactly, Sound, ReadExcess
  <2>5. CASE D = 6
    BY <1>3, <2>5 DEF MergeLoops, Avx2Merge, SseMerge, Loop, Exactly, Sound, ReadExcess
  <2>6. CASE D = 7
    BY <1>3, <2>6 DEF MergeLoops, Avx2Merge, SseMerge, Loop, Exactly, Sound, ReadExcess
  <2>7. CASE D = 8
    BY <1>3, <2>7 DEF MergeLoops, Avx2Merge, SseMerge, Loop, Exactly, Sound, ReadExcess
  <2> QED BY <1>0, <2>1, <2>2, <2>3, <2>4, <2>5, <2>6, <2>7
<1>4. CASE e = "avx512"
  <2>1. CASE D = 2
    BY <1>4, <2>1 DEF MergeLoops, Avx512Merge, Loop, Exactly, Sound, ReadExcess
  <2>2. CASE D = 3
    BY <1>4, <2>2 DEF MergeLoops, Avx512Merge, Loop, Exactly, Sound, ReadExcess
  <2>3. CASE D = 4
    BY <1>4, <2>3 DEF MergeLoops, Avx512Merge, Loop, Exactly, Sound, ReadExcess
  <2>4. CASE D = 5
    BY <1>4, <2>4 DEF MergeLoops, Avx512Merge, Loop, Exactly, Sound, ReadExcess
  <2>5. CASE D = 6
    BY <1>4, <2>5 DEF MergeLoops, Avx512Merge, Loop, Exactly, Sound, ReadExcess
  <2>6. CASE D = 7
    BY <1>4, <2>6 DEF MergeLoops, Avx512Merge, Loop, Exactly, Sound, ReadExcess
  <2>7. CASE D = 8
    BY <1>4, <2>7 DEF MergeLoops, Avx512Merge, Loop, Exactly, Sound, ReadExcess
  <2> QED BY <1>0, <2>1, <2>2, <2>3, <2>4, <2>5, <2>6, <2>7
<1> QED BY <1>1, <1>2, <1>3, <1>4 DEF AllEngines

\* Every loop of every pack is sound: the NEON loops weigh each store against
\* the region's end, the AVX-512 stores are masked.
LEMMA PackTable ==
    ASSUME NEW e \in AllEngines, NEW D \in 2..8,
           NEW k \in 1..Len(PackLoops(e, D))
    PROVE  Sound(PackLoops(e, D)[k], D, WriteExcess(e, D))
<1>0. D \in {2, 3, 4, 5, 6, 7, 8}
  OBVIOUS
<1>1. CASE e = "neon"
  <2>1. CASE D = 2
    BY <1>1, <2>1 DEF PackLoops, NeonPack, Loop, Exactly, Sound, WriteExcess
  <2>2. CASE D = 3
    BY <1>1, <2>2 DEF PackLoops, NeonPack, Loop, Exactly, Sound, WriteExcess
  <2>3. CASE D = 4
    BY <1>1, <2>3 DEF PackLoops, NeonPack, Loop, Exactly, Sound, WriteExcess
  <2>4. CASE D = 5
    BY <1>1, <2>4 DEF PackLoops, NeonPack, Loop, Exactly, Sound, WriteExcess
  <2>5. CASE D = 6
    BY <1>1, <2>5 DEF PackLoops, NeonPack, Loop, Exactly, Sound, WriteExcess
  <2>6. CASE D = 7
    BY <1>1, <2>6 DEF PackLoops, NeonPack, Loop, Exactly, Sound, WriteExcess
  <2>7. CASE D = 8
    BY <1>1, <2>7 DEF PackLoops, NeonPack, Loop, Exactly, Sound, WriteExcess
  <2> QED BY <1>0, <2>1, <2>2, <2>3, <2>4, <2>5, <2>6, <2>7
<1>2. CASE e = "sse"
  <2>1. CASE D = 2
    BY <1>2, <2>1 DEF PackLoops, SsePack, Loop, Exactly, Sound, WriteExcess
  <2>2. CASE D = 3
    BY <1>2, <2>2 DEF PackLoops, SsePack, Loop, Exactly, Sound, WriteExcess
  <2>3. CASE D = 4
    <3>1. PackLoops(e, D) = <<[take |-> 16, keep |-> 0, need |-> 0, span |-> 8]>>
      BY <1>2, <2>3 DEF PackLoops, SsePack, Loop, Exactly
    <3>2. WriteExcess(e, D) = 0
      BY <1>2, <2>3 DEF WriteExcess
    <3> QED BY <2>3, <3>1, <3>2 DEF Sound
  <2>4. CASE D = 5
    BY <1>2, <2>4 DEF PackLoops, SsePack, Loop, Exactly, Sound, WriteExcess
  <2>5. CASE D = 6
    BY <1>2, <2>5 DEF PackLoops, SsePack, Loop, Exactly, Sound, WriteExcess
  <2>6. CASE D = 7
    BY <1>2, <2>6 DEF PackLoops, SsePack, Loop, Exactly, Sound, WriteExcess
  <2>7. CASE D = 8
    BY <1>2, <2>7 DEF PackLoops, SsePack, Loop, Exactly, Sound, WriteExcess
  <2> QED BY <1>0, <2>1, <2>2, <2>3, <2>4, <2>5, <2>6, <2>7
<1>3. CASE e = "avx2"
  <2>1. CASE D = 2
    <3>1. PackLoops(e, D) = <<[take |-> 32, keep |-> 0, need |-> 0, span |-> 20]>>
      BY <1>3, <2>1 DEF PackLoops, Avx2Pack, Loop, Exactly
    <3>2. WriteExcess(e, D) = 12
      BY <1>3, <2>1 DEF WriteExcess
    <3> QED BY <2>1, <3>1, <3>2 DEF Sound
  <2>2. CASE D = 3
    BY <1>3, <2>2 DEF PackLoops, Avx2Pack, SsePack, Loop, Exactly, Sound, WriteExcess
  <2>3. CASE D = 4
    <3>1. PackLoops(e, D) = <<[take |-> 16, keep |-> 0, need |-> 0, span |-> 8]>>
      BY <1>3, <2>3 DEF PackLoops, Avx2Pack, SsePack, Loop, Exactly
    <3>2. WriteExcess(e, D) = 0
      BY <1>3, <2>3 DEF WriteExcess
    <3> QED BY <2>3, <3>1, <3>2 DEF Sound
  <2>4. CASE D = 5
    BY <1>3, <2>4 DEF PackLoops, Avx2Pack, SsePack, Loop, Exactly, Sound, WriteExcess
  <2>5. CASE D = 6
    BY <1>3, <2>5 DEF PackLoops, Avx2Pack, SsePack, Loop, Exactly, Sound, WriteExcess
  <2>6. CASE D = 7
    BY <1>3, <2>6 DEF PackLoops, Avx2Pack, SsePack, Loop, Exactly, Sound, WriteExcess
  <2>7. CASE D = 8
    BY <1>3, <2>7 DEF PackLoops, Avx2Pack, SsePack, Loop, Exactly, Sound, WriteExcess
  <2> QED BY <1>0, <2>1, <2>2, <2>3, <2>4, <2>5, <2>6, <2>7
<1>4. CASE e = "avx512"
  <2>1. CASE D = 2
    BY <1>4, <2>1 DEF PackLoops, Avx512Pack, Loop, Exactly, Sound, WriteExcess
  <2>2. CASE D = 3
    BY <1>4, <2>2 DEF PackLoops, Avx512Pack, Loop, Exactly, Sound, WriteExcess
  <2>3. CASE D = 4
    BY <1>4, <2>3 DEF PackLoops, Avx512Pack, Loop, Exactly, Sound, WriteExcess
  <2>4. CASE D = 5
    BY <1>4, <2>4 DEF PackLoops, Avx512Pack, Loop, Exactly, Sound, WriteExcess
  <2>5. CASE D = 6
    BY <1>4, <2>5 DEF PackLoops, Avx512Pack, Loop, Exactly, Sound, WriteExcess
  <2>6. CASE D = 7
    BY <1>4, <2>6 DEF PackLoops, Avx512Pack, Loop, Exactly, Sound, WriteExcess
  <2>7. CASE D = 8
    BY <1>4, <2>7 DEF PackLoops, Avx512Pack, Loop, Exactly, Sound, WriteExcess
  <2> QED BY <1>0, <2>1, <2>2, <2>3, <2>4, <2>5, <2>6, <2>7
<1> QED BY <1>1, <1>2, <1>3, <1>4 DEF AllEngines

-----------------------------------------------------------------------------
\* The bits up to a code and the codes behind it, for a depth the kernels know.
LEMMA Bits ==
    ASSUME NEW D \in 2..8, NEW a \in Nat, NEW b \in Nat, NEW c \in Nat,
           a + b <= c
    PROVE  a * D \in Nat /\ b * D \in Nat /\ c * D \in Nat /\ a * D + b * D <= c * D
<1>1. D \in {2, 3, 4, 5, 6, 7, 8}
  OBVIOUS
<1> QED BY <1>1

\* A register that reaches over m bits and x bytes, taken m bits before the end.
LEMMA Reach ==
    ASSUME NEW p \in Nat, NEW m \in Nat, NEW q \in Nat,
           NEW w \in Nat, NEW x \in Nat,
           p + m <= q, 8 * (w - x) <= m + 7
    PROVE  (p \div 8) + w <= ((q + 7) \div 8) + x
OBVIOUS

LEMMA TableTypes ==
    ASSUME NEW e \in AllEngines, NEW D \in 2..8
    PROVE  /\ Len(MergeLoops(e, D)) \in Nat
           /\ Len(PackLoops(e, D)) \in Nat
           /\ ReadExcess(e, D) \in Nat
           /\ WriteExcess(e, D) \in Nat
<1>1. Len(MergeLoops(e, D)) \in Nat
  BY DEF MergeLoops, NeonMerge, SseMerge, Avx2Merge, Avx512Merge, AllEngines
<1>2. Len(PackLoops(e, D)) \in Nat
  BY DEF PackLoops, NeonPack, SsePack, Avx2Pack, Avx512Pack, AllEngines
<1>3. ReadExcess(e, D) \in Nat
  BY DEF ReadExcess
<1>4. WriteExcess(e, D) \in Nat
  BY DEF WriteExcess
<1> QED BY <1>1, <1>2, <1>3, <1>4

Excess == IF op = "pack" THEN WriteExcess(engine, d) ELSE ReadExcess(engine, d)

\* Where a kernel is, and what its loads and stores have kept to.  WindowsCover
\* makes it inductive: a wide turn leaves the next one on a byte boundary.
IInv ==
    /\ TypeOK
    /\ reached <= RegionBytes + Excess
    /\ WindowsCover

LEMMA Setting ==
    ASSUME TypeOK
    PROVE  /\ engine \in AllEngines /\ d \in 2..8 /\ n \in Nat /\ n > 0
           /\ n * d \in Nat
           /\ RegionBytes \in Nat
           /\ Excess \in Nat
           /\ Len(Loops) \in Nat
           /\ \A k \in 1..Len(Loops) : Sound(Loops[k], d, Excess)
<1>1. engine \in AllEngines /\ d \in 2..8 /\ n \in Nat /\ n > 0
  BY FlatKernelAssumption DEF TypeOK
<1>2. n * d \in Nat
  BY <1>1
<1>3. RegionBytes \in Nat
  BY <1>2 DEF RegionBytes
<1>4. CASE op = "pack"
  BY <1>1, <1>2, <1>3, <1>4, TableTypes, PackTable DEF Excess, Loops
<1>5. CASE op # "pack"
  BY <1>1, <1>2, <1>3, <1>5, TableTypes, MergeTable DEF Excess, Loops
<1> QED BY <1>4, <1>5

LEMMA InitIInv == Init => IInv
<1> SUFFICES ASSUME Init PROVE IInv
  OBVIOUS
<1>1. d \in 2..8 /\ n \in Nat /\ n > 0 /\ engine \in AllEngines
  BY FlatKernelAssumption DEF Init
<1>2. n * d \in Nat
  BY <1>1
<1>a. RegionBytes \in Nat
  BY <1>2 DEF RegionBytes
<1>b. Len(Loops) \in Nat
  BY <1>1, TableTypes DEF Loops
<1>c. Excess \in Nat
  BY <1>1, TableTypes DEF Excess
<1>3. RegionBytes \in Nat /\ Len(Loops) \in Nat /\ Excess \in Nat
  BY <1>a, <1>b, <1>c
<1>4. mem \in [0..RegionBytes + 15 -> {"zero", "old", "code", "junk"}]
  BY DEF Init
<1>5. TypeOK
  BY <1>1, <1>3, <1>4 DEF Init, TypeOK
<1>6. WindowsCover
  BY <1>1 DEF Init, WindowsCover
<1>7. reached <= RegionBytes + Excess
  BY <1>3 DEF Init
<1> QED BY <1>5, <1>6, <1>7 DEF IInv

LEMMA StepIInv == IInv /\ [Next]_vars => IInv'
<1> SUFFICES ASSUME IInv, [Next]_vars PROVE IInv'
  OBVIOUS
<1>t. TypeOK /\ WindowsCover /\ reached <= RegionBytes + Excess
  BY DEF IInv
<1>s. /\ engine \in AllEngines /\ d \in 2..8 /\ n \in Nat /\ n > 0
      /\ n * d \in Nat
      /\ RegionBytes \in Nat
      /\ Excess \in Nat
      /\ Len(Loops) \in Nat
      /\ \A k \in 1..Len(Loops) : Sound(Loops[k], d, Excess)
  BY <1>t, Setting
<1>a. at \in Nat /\ at <= n /\ reached \in Nat /\ loop \in Nat /\ loop >= 1
  BY <1>t, <1>s DEF TypeOK
<1>b. at * d \in Nat /\ First \in Nat
  BY <1>s, <1>a DEF First
<1>1. CASE Wide
  <2> DEFINE l == Loops[loop]
  <2>1. /\ loop <= Len(Loops) /\ Fits(l)
        /\ at' = at + l.take
        /\ reached' = Larger(reached, First + l.span)
        /\ short' = (short \/ (at * d) % 8 # 0 \/ l.take * d > 8 * l.span)
        /\ mem' = IF op = "pack" THEN Stored(l) ELSE mem
        /\ UNCHANGED <<op, engine, d, n, loop>>
    BY <1>1 DEF Wide
  <2>2. /\ UNCHANGED RegionBytes /\ UNCHANGED Excess /\ UNCHANGED Loops
    BY <2>1 DEF RegionBytes, Excess, Loops
  <2>3. Sound(l, d, Excess)
    BY <1>s, <1>a, <2>1
  <2> HIDE DEF l
  <2>4. /\ l.take \in Nat /\ l.take > 0 /\ l.keep \in Nat
        /\ l.need \in Nat /\ l.span \in Nat
    BY <2>3 DEF Sound
  <2>5. at + (l.take + l.keep) <= n /\ at + l.take <= n
    <3>1. at + l.take + l.keep <= n
      BY <2>1 DEF Fits
    <3> QED BY <3>1, <1>s, <1>a, <2>4
  <2>6. at * d + (l.take + l.keep) * d <= n * d
    BY <1>s, <1>a, <2>4, <2>5, Bits, SMTT(30)
  <2>7. (l.take + l.keep) * d \in Nat /\ l.take * d \in Nat
    BY <1>s, <2>4
  <2>8. First + l.span <= RegionBytes + Excess
    <3>1. CASE 8 * (l.span - Excess) <= (l.take + l.keep) * d + 7
      BY <3>1, <1>s, <1>b, <2>4, <2>6, <2>7, Reach DEF First, RegionBytes
    <3>2. CASE l.span <= l.need + Excess
      <4>1. First + l.need <= BytesThere
        BY <2>1 DEF Fits
      <4>2. BytesThere \in Nat /\ BytesThere <= RegionBytes
        BY <1>s DEF BytesThere, RegionBytes
      <4> QED BY <3>2, <4>1, <4>2, <1>s, <1>b, <2>4
    <3> QED BY <2>3, <3>1, <3>2 DEF Sound
  <2>9. reached' <= RegionBytes + Excess /\ reached' \in Nat
    <3>1. First + l.span \in Nat
      BY <1>b, <2>4
    <3>2. reached' = reached \/ reached' = First + l.span
      BY <2>1 DEF Larger
    <3> QED BY <1>t, <1>a, <2>8, <3>1, <3>2
  <2>10. ~short'
    <3>1. ~short /\ (at * d) % 8 = 0
      BY <1>t, <2>1 DEF WindowsCover
    <3>2. ~(l.take * d > 8 * l.span)
      BY <2>3, <2>4, <2>7 DEF Sound
    <3> QED BY <2>1, <3>1, <3>2
  <2>11. (at' * d') % 8 = 0
    <3>1. (at + l.take) * d = at * d + l.take * d
      BY <1>s, <1>a, <2>4
    <3>2. (at * d) % 8 = 0 /\ (l.take * d) % 8 = 0
      BY <1>t, <2>1, <2>3 DEF WindowsCover, Sound
    <3>3. \A y, z \in Nat : y % 8 = 0 /\ z % 8 = 0 => (y + z) % 8 = 0
      OBVIOUS
    <3>4. (at * d + l.take * d) % 8 = 0
      BY <3>2, <3>3, <1>b, <2>7
    <3> QED BY <3>1, <3>4, <2>1
  <2>12. mem' \in [0..RegionBytes + 15 -> {"zero", "old", "code", "junk"}]
    BY <1>t, <2>1 DEF TypeOK, Stored
  <2>13. TypeOK'
    BY <1>t, <1>a, <2>1, <2>2, <2>4, <2>5, <2>9, <2>10, <2>12, SMTT(30) DEF TypeOK
  <2> QED BY <2>1, <2>2, <2>9, <2>10, <2>11, <2>13 DEF IInv, WindowsCover
<1>2. CASE NextLoop
  <2>1. /\ loop <= Len(Loops) /\ loop' = loop + 1
        /\ UNCHANGED <<op, engine, d, n, at, reached, short, mem>>
    BY <1>2 DEF NextLoop
  <2>2. UNCHANGED RegionBytes /\ UNCHANGED Excess /\ UNCHANGED Loops
    BY <2>1 DEF RegionBytes, Excess, Loops
  <2>3. TypeOK'
    BY <1>t, <1>s, <1>a, <2>1, <2>2 DEF TypeOK
  <2>4. WindowsCover'
    BY <1>t, <1>s, <1>a, <2>1, <2>2 DEF WindowsCover
  <2> QED BY <1>t, <2>1, <2>2, <2>3, <2>4 DEF IInv
<1>3. CASE ScalarMerge
  <2>1. /\ loop > Len(Loops) /\ at < n /\ at' = at + 1
        /\ reached' = Larger(reached,
                            First + (IF ((at * d) % 8) + d > 8 THEN 2 ELSE 1))
        /\ UNCHANGED <<op, engine, d, n, loop, short, mem>>
    BY <1>3 DEF ScalarMerge
  <2>2. UNCHANGED RegionBytes /\ UNCHANGED Excess /\ UNCHANGED Loops
    BY <2>1 DEF RegionBytes, Excess, Loops
  <2>3. at * d + 1 * d <= n * d
    BY <1>s, <1>a, <2>1, Bits
  <2>4. First + (IF ((at * d) % 8) + d > 8 THEN 2 ELSE 1) <= RegionBytes
    BY <1>s, <1>b, <2>3 DEF First, RegionBytes
  <2>5. reached' <= RegionBytes + Excess /\ reached' \in Nat
    BY <1>t, <1>s, <1>a, <1>b, <2>1, <2>4 DEF Larger
  <2>6. TypeOK'
    BY <1>t, <1>s, <1>a, <2>1, <2>2, <2>5 DEF TypeOK
  <2>7. WindowsCover'
    BY <1>t, <1>s, <1>a, <2>1, <2>2 DEF WindowsCover
  <2> QED BY <2>1, <2>2, <2>5, <2>6, <2>7 DEF IInv
<1>4. CASE ScalarPack
  <2> DEFINE end == IF at + 1 = n THEN RegionBytes ELSE ((at + 1) * d) \div 8
  <2>1. /\ loop > Len(Loops) /\ at < n /\ at' = at + 1
        /\ mem' = [b \in DOMAIN mem |->
                     IF b \in First..end - 1 THEN "code" ELSE mem[b]]
        /\ reached' = Larger(reached, end)
        /\ UNCHANGED <<op, engine, d, n, loop, short>>
    BY <1>4 DEF ScalarPack
  <2>2. UNCHANGED RegionBytes /\ UNCHANGED Excess /\ UNCHANGED Loops
    BY <2>1 DEF RegionBytes, Excess, Loops
  <2>3. (at + 1) * d \in Nat /\ (at + 1) * d <= n * d
    BY <1>s, <1>a, <2>1, Bits, at + 1 \in Nat, (at + 1) + 0 <= n, 0 * d = 0
  <2>4. end \in Nat /\ end <= RegionBytes
    BY <1>s, <2>3 DEF RegionBytes
  <2>5. mem' \in [0..RegionBytes + 15 -> {"zero", "old", "code", "junk"}]
    BY <1>t, <2>1 DEF TypeOK
  <2> HIDE DEF end
  <2>6. reached' <= RegionBytes + Excess /\ reached' \in Nat
    BY <1>t, <1>s, <1>a, <2>1, <2>4 DEF Larger
  <2>7. TypeOK'
    BY <1>t, <1>s, <1>a, <2>1, <2>2, <2>5, <2>6 DEF TypeOK
  <2>8. WindowsCover'
    BY <1>t, <1>s, <1>a, <2>1, <2>2 DEF WindowsCover
  <2> QED BY <2>1, <2>2, <2>6, <2>7, <2>8 DEF IInv
<1>5. CASE Copy
  <2>1. /\ op = "merge" /\ d = 8 /\ at < n /\ at' = n /\ reached' = n
        /\ UNCHANGED <<op, engine, d, n, loop, short, mem>>
    BY <1>5 DEF Copy
  <2>2. UNCHANGED RegionBytes /\ UNCHANGED Excess /\ UNCHANGED Loops
    BY <2>1 DEF RegionBytes, Excess, Loops
  <2>3. n <= RegionBytes /\ (n * d) % 8 = 0
    BY <1>s, <2>1 DEF RegionBytes
  <2>4. TypeOK'
    BY <1>t, <1>s, <1>a, <2>1, <2>2 DEF TypeOK
  <2>5. WindowsCover'
    BY <1>t, <1>s, <2>1, <2>2, <2>3 DEF WindowsCover
  <2> QED BY <1>s, <2>1, <2>2, <2>3, <2>4, <2>5 DEF IInv
<1>6. CASE UNCHANGED vars
  BY <1>t, <1>6 DEF IInv, TypeOK, WindowsCover, vars, RegionBytes, Excess, Loops
<1> QED BY <1>1, <1>2, <1>3, <1>4, <1>5, <1>6 DEF Next

\* The strengthened invariant holds throughout, whatever the region's size.
THEOREM InductiveInvariant == Spec => []IInv
<1>1. Init => IInv
  BY InitIInv
<1>2. IInv /\ [Next]_vars => IInv'
  BY StepIInv
<1> QED BY <1>1, <1>2, PTL DEF Spec

\* The state of every pack and unpack keeps its type; no kernel does more codes
\* than the region has.
THEOREM FlatTypeCorrect == Spec => []TypeOK
<1>1. IInv => TypeOK
  BY DEF IInv
<1> QED BY <1>1, InductiveInvariant, PTL

\* No unpack kernel loads farther past a region of any size than ReadExcess:
\* nothing at all for most, at most ten bytes for the others.
THEOREM FlatReadsBounded == Spec => []ReadsBounded
<1>1. IInv => ReadsBounded
  BY DEF IInv, ReadsBounded, Excess
<1> QED BY <1>1, InductiveInvariant, PTL

\* No pack kernel stores past a region of any size on NEON and AVX-512, nor
\* more than one register's junk past it on SSE and AVX2.
THEOREM FlatStoresBounded == Spec => []StoresBounded
<1>1. IInv => StoresBounded
  BY DEF IInv, StoresBounded, Excess, WriteExcess
<1> QED BY <1>1, InductiveInvariant, PTL

\* Every wide load covers the codes of its turn, and every turn starts on a
\* byte, however many turns there were.
THEOREM FlatWindowsCover == Spec => []WindowsCover
<1>1. IInv => WindowsCover
  BY DEF IInv
<1> QED BY <1>1, InductiveInvariant, PTL

-----------------------------------------------------------------------------
\* The bytes a pack has finished: those before the current code's first bit,
\* and the whole region after the last code.
Done == IF at = n THEN RegionBytes ELSE First

PackedSoFar == op = "pack" => \A b \in 0..Done - 1 : mem[b] = "code"

LEMMA InitPackedSoFar == Init => PackedSoFar
<1> SUFFICES ASSUME Init PROVE PackedSoFar
  OBVIOUS
<1>1. d \in 2..8 /\ n \in Nat /\ n > 0 /\ at = 0
  BY FlatKernelAssumption DEF Init
<1>2. Done = 0
  BY <1>1 DEF Done, First
<1> QED BY <1>2 DEF PackedSoFar

LEMMA StepPackedSoFar == IInv /\ PackedSoFar /\ [Next]_vars => PackedSoFar'
<1> SUFFICES ASSUME IInv, PackedSoFar, [Next]_vars PROVE PackedSoFar'
  OBVIOUS
<1>t. TypeOK /\ WindowsCover
  BY DEF IInv
<1>s. /\ d \in 2..8 /\ n \in Nat /\ n > 0 /\ n * d \in Nat
      /\ RegionBytes \in Nat /\ Len(Loops) \in Nat
      /\ \A k \in 1..Len(Loops) : Sound(Loops[k], d, Excess)
  BY <1>t, Setting
<1>a. at \in Nat /\ at <= n /\ loop \in Nat /\ loop >= 1
  BY <1>t, <1>s DEF TypeOK
<1>b. at * d \in Nat /\ First \in Nat
  BY <1>s, <1>a DEF First
<1>1. CASE Wide
  <2> SUFFICES ASSUME op = "pack" PROVE \A b \in 0..Done' - 1 : mem'[b] = "code"
    BY <1>1 DEF Wide, PackedSoFar
  <2> DEFINE l == Loops[loop]
  <2>1. /\ loop <= Len(Loops) /\ Fits(l)
        /\ at' = at + l.take
        /\ mem' = Stored(l)
        /\ UNCHANGED <<op, engine, d, n>>
    BY <1>1 DEF Wide
  <2>2. Sound(l, d, Excess)
    BY <1>s, <1>a, <2>1
  <2> HIDE DEF l
  <2>3. /\ l.take \in Nat /\ l.take > 0 /\ l.keep \in Nat /\ l.span \in Nat
        /\ (l.take * d) % 8 = 0 /\ l.take * d <= 8 * l.span
    BY <2>2 DEF Sound
  <2>4. (at * d) % 8 = 0 /\ l.take * d \in Nat
    BY <1>t, <1>s, <2>1, <2>3 DEF WindowsCover
  <2>5. at < n /\ at + l.take <= n
    BY <1>s, <1>a, <2>1, <2>3, SMTT(30) DEF Fits
  <2>6. at' * d' = at * d + l.take * d
    BY <1>s, <1>a, <2>1, <2>3
  <2> DEFINE w == (l.take * d) \div 8
  <2>7. w \in Nat /\ w <= l.span
    BY <2>3, <2>4
  <2>8. First' = First + w
    BY <1>b, <2>3, <2>4, <2>6 DEF First
  <2>9. Done' = First + w
    <3>1. CASE at' = n'
      <4>1. RegionBytes' = (at' * d' + 7) \div 8
        BY <3>1 DEF RegionBytes
      <4>2. RegionBytes' = (at * d + l.take * d + 7) \div 8
        BY <4>1, <2>6
      <4>3. \A y, z \in Nat : y % 8 = 0 /\ z % 8 = 0
                => (y + z + 7) \div 8 = y \div 8 + z \div 8
        OBVIOUS
      <4>4. RegionBytes' = First + w
        BY <4>2, <4>3, <1>b, <2>3, <2>4 DEF First
      <4> QED BY <3>1, <4>4 DEF Done
    <3>2. CASE at' # n'
      BY <3>2, <2>8 DEF Done
    <3> QED BY <3>1, <3>2
  <2>10. Done = First
    BY <2>5, <1>a DEF Done
  <2>11. at * d + l.take * d <= n * d
    BY <2>5, <1>s, <1>a, <2>3, Bits
  <2>12. First + w <= RegionBytes
    BY <2>11, <1>s, <1>b, <2>4 DEF First, RegionBytes
  <2>13. ASSUME NEW b \in 0..Done' - 1 PROVE mem'[b] = "code"
    <3>1. b \in 0..RegionBytes + 15 /\ b \in Nat /\ b < First + w
      BY <2>9, <2>12, <2>7, <1>b, <1>s, <2>13
    <3>2. DOMAIN mem = 0..RegionBytes + 15
      BY <1>t DEF TypeOK
    <3>3. CASE b < First
      <4>1. mem[b] = "code"
        BY <2>10, <3>1, <3>3, <1>b DEF PackedSoFar
      <4> QED BY <2>1, <3>1, <3>2, <3>3, <4>1 DEF Stored
    <3>4. CASE ~(b < First)
      <4>1. ~(b >= First + l.span) /\ b < First + (l.take * d) \div 8
        BY <3>1, <2>7, <1>b, <2>3
      <4>2. Stored(l)[b] =
              IF b < First \/ b >= First + l.span THEN mem[b]
              ELSE IF b < First + (l.take * d) \div 8 THEN "code" ELSE "junk"
        BY <3>1, <3>2, Zenon DEF Stored
      <4> QED BY <2>1, <3>4, <4>1, <4>2, Zenon
    <3> QED BY <3>3, <3>4
  <2> QED BY <2>13
<1>2. CASE NextLoop
  BY <1>2 DEF NextLoop, PackedSoFar, Done, First, RegionBytes
<1>3. CASE ScalarMerge
  BY <1>3 DEF ScalarMerge, PackedSoFar
<1>4. CASE ScalarPack
  <2> DEFINE end == IF at + 1 = n THEN RegionBytes ELSE ((at + 1) * d) \div 8
  <2>1. /\ op = "pack" /\ at < n /\ at' = at + 1
        /\ mem' = [b \in DOMAIN mem |->
                     IF b \in First..end - 1 THEN "code" ELSE mem[b]]
        /\ UNCHANGED <<op, engine, d, n>>
    BY <1>4 DEF ScalarPack
  <2>2. Done' = end
    BY <2>1, <1>a, <1>s DEF Done, First, RegionBytes
  <2>3. (at + 1) * d \in Nat /\ (at + 1) * d <= n * d
    BY <1>s, <1>a, <2>1, Bits, at + 1 \in Nat, (at + 1) + 0 <= n, 0 * d = 0
  <2>4. end \in Nat /\ end <= RegionBytes
    BY <1>s, <2>3 DEF RegionBytes
  <2> HIDE DEF end
  <2>5. Done = First
    BY <2>1, <1>a DEF Done
  <2>6. ASSUME NEW b \in 0..Done' - 1 PROVE mem'[b] = "code"
    <3>1. b \in 0..RegionBytes + 15 /\ b \in Nat /\ b < end
      BY <2>2, <2>4, <1>s, <2>6
    <3>2. DOMAIN mem = 0..RegionBytes + 15
      BY <1>t DEF TypeOK
    <3>3. CASE b < First
      <4>1. mem[b] = "code"
        BY <2>1, <2>5, <3>1, <3>3, <1>b DEF PackedSoFar
      <4> QED BY <2>1, <3>1, <3>2, <4>1
    <3>4. CASE ~(b < First)
      <4>1. b \in First..end - 1
        BY <3>1, <3>4, <1>b, <2>4
      <4> QED BY <2>1, <3>1, <3>2, <4>1
    <3> QED BY <3>3, <3>4
  <2> QED BY <2>6 DEF PackedSoFar
<1>5. CASE Copy
  BY <1>5 DEF Copy, PackedSoFar
<1>6. CASE UNCHANGED vars
  BY <1>6 DEF vars, PackedSoFar, Done, First, RegionBytes
<1> QED BY <1>1, <1>2, <1>3, <1>4, <1>5, <1>6 DEF Next

\* A packed region of any size holds codes in every byte: no junk of a wide
\* store outlives the turns behind it.
THEOREM FlatPacked == Spec => []Packed
<1>1. Init => PackedSoFar
  BY InitPackedSoFar
<1>2. IInv /\ PackedSoFar /\ [Next]_vars => PackedSoFar'
  BY StepPackedSoFar
<1>3. PackedSoFar => Packed
  BY DEF PackedSoFar, Packed, Done
<1> QED BY <1>1, <1>2, <1>3, InductiveInvariant, PTL DEF Spec
\* FlatSound: for every engine, depth and region the flat kernels load and store only where
\* they may, cover the codes they decode and leave a packed region full of codes.
THEOREM FlatSafe == Spec => []FlatSound
<1>1. TypeOK /\ ReadsBounded /\ StoresBounded /\ WindowsCover /\ Packed => FlatSound
  BY DEF FlatSound
<1> QED
  BY <1>1, FlatTypeCorrect, FlatReadsBounded, FlatStoresBounded, FlatWindowsCover, FlatPacked, PTL
-----------------------------------------------------------------------------
(* Counting in a bitmap, and in a mask byte of it.                          *)

\* The members of T among the w numbers from p on.
Members(T, p, w) == {q \in p .. p + w - 1 : q \in T}
Among(T, p, w) == Cardinality(Members(T, p, w))

LEMMA AmongBounds ==
  ASSUME NEW T, NEW p \in Int, NEW w \in Nat
  PROVE  Among(T, p, w) \in 0 .. w /\ IsFiniteSet(Members(T, p, w))
<1>1. IsFiniteSet(p .. p + w - 1) /\ Cardinality(p .. p + w - 1) = w
  BY FS_Interval
<1>2. Members(T, p, w) \in SUBSET (p .. p + w - 1)
  BY DEF Members
<1>3. IsFiniteSet(Members(T, p, w)) /\ Cardinality(Members(T, p, w)) <= w
  BY <1>1, <1>2, FS_Subset
<1> QED BY <1>3, FS_CardinalityType DEF Among

LEMMA AmongJoins ==
  ASSUME NEW T, NEW p \in Int, NEW v \in Nat, NEW w \in Nat
  PROVE  Among(T, p, v + w) = Among(T, p, v) + Among(T, p + v, w)
<1> DEFINE A == Members(T, p, v)
           B == Members(T, p + v, w)
<1>1. IsFiniteSet(A) /\ IsFiniteSet(B)
  BY AmongBounds, p + v \in Int
<1>2. A \cap B = {} /\ A \cup B = Members(T, p, v + w)
  BY DEF Members
<1>3. Cardinality(A) \in Nat /\ Cardinality(B) \in Nat
  BY <1>1, FS_CardinalityType
<1> HIDE DEF A, B
<1>4. Cardinality(A \cup B) = Cardinality(A) + Cardinality(B)
  <2>1. Cardinality(A \cap B) = 0
    BY <1>2, FS_EmptySet
  <2>2. Cardinality(A \cup B) = Cardinality(A) + Cardinality(B) - Cardinality(A \cap B)
    BY <1>1, FS_Union
  <2> QED BY <1>3, <2>1, <2>2
<1> QED BY <1>2, <1>4 DEF Among, A, B

LEMMA AmongOne ==
  ASSUME NEW T, NEW p \in Int
  PROVE  Among(T, p, 0) = 0 /\ Among(T, p, 1) = IF p \in T THEN 1 ELSE 0
<1>1. Members(T, p, 0) = {} /\ Members(T, p, 1) = IF p \in T THEN {p} ELSE {}
  BY DEF Members
<1> QED BY <1>1, FS_EmptySet, FS_Singleton DEF Among

\* Sets that are each other's translation have as many members.
LEMMA Translated ==
  ASSUME NEW A \in SUBSET Int, NEW B \in SUBSET Int, NEW c \in Int, IsFiniteSet(A),
         \A x \in A : x + c \in B, \A y \in B : y - c \in A
  PROVE  Cardinality(A) = Cardinality(B)
<1> DEFINE f == [x \in A |-> x + c]
<1>1. f \in Bijection(A, B)
  <2>1. f \in [A -> B]
    OBVIOUS
  <2>2. \A x, y \in A : f[x] = f[y] => x = y
    OBVIOUS
  <2>3. \A y \in B : \E x \in A : f[x] = y
    <3>1. SUFFICES ASSUME NEW y \in B PROVE \E x \in A : f[x] = y
      OBVIOUS
    <3>2. y - c \in A /\ f[y - c] = y
      OBVIOUS
    <3> QED BY <3>2
  <2> QED BY <2>1, <2>2, <2>3, Zenon DEF Bijection, Injection, Surjection, IsInjective
<1> QED BY <1>1, FS_Bijection DEF ExistsBijection

-----------------------------------------------------------------------------
(* The counts of the merge.                                                 *)
OnePlaces == {q \in Nat : MergeBit(q) = 1}

LEMMA OnesAreAmong ==
  ASSUME NEW p \in Nat, NEW w \in Nat
  PROVE  OnesIn(p, w) = Among(OnePlaces, p, w)
<1>1. {q \in p .. p + w - 1 : MergeBit(q) = 1} = Members(OnePlaces, p, w)
  BY DEF Members, OnePlaces
<1> QED BY <1>1 DEF OnesIn, Among

LEMMA OnesBounds ==
  ASSUME NEW p \in Nat, NEW w \in Nat
  PROVE  OnesIn(p, w) \in Nat /\ OnesIn(p, w) <= w
BY OnesAreAmong, AmongBounds

LEMMA OnesJoin ==
  ASSUME NEW p \in Nat, NEW v \in Nat, NEW w \in Nat
  PROVE  OnesIn(p, v + w) = OnesIn(p, v) + OnesIn(p + v, w)
<1>1. p + v \in Nat /\ v + w \in Nat
  OBVIOUS
<1> QED BY <1>1, OnesAreAmong, AmongJoins

LEMMA OnesOne ==
  ASSUME NEW p \in Nat
  PROVE  OnesIn(p, 0) = 0 /\ OnesIn(p, 1) = IF MergeBit(p) = 1 THEN 1 ELSE 0
<1>1. OnesIn(p, 0) = Among(OnePlaces, p, 0) /\ OnesIn(p, 1) = Among(OnePlaces, p, 1)
  BY OnesAreAmong
<1>2. (p \in OnePlaces) = (MergeBit(p) = 1)
  BY DEF OnePlaces
<1> QED BY <1>1, <1>2, AmongOne

\* The counts the index tables are built from are those of the bitmap.
LEMMA MaskCounts ==
  ASSUME NEW p \in Nat, NEW i \in 0 .. Half
  PROVE  /\ PopBefore(Mask(p), i) = OnesIn(p, i)
         /\ MergePop(Mask(p)) = OnesIn(p, Half)
<1>0. Half \in Nat /\ Half > 0
  BY HalfAssumption
<1>1. ASSUME NEW k \in 0 .. Half
      PROVE  Cardinality({b \in 0 .. k - 1 : Mask(p)[b] = 1}) = OnesIn(p, k)
  <2> DEFINE A == {b \in 0 .. k - 1 : Mask(p)[b] = 1}
             B == {q \in p .. p + k - 1 : MergeBit(q) = 1}
  <2>1. \A b \in 0 .. k - 1 : Mask(p)[b] = MergeBit(p + b)
    BY <1>0 DEF Mask
  <2>2. A = {b \in 0 .. k - 1 : MergeBit(p + b) = 1}
    BY <2>1
  <2>3. \A b \in A : b + p \in B
    BY <2>2
  <2>4. \A q \in B : q - p \in A
    <3>1. SUFFICES ASSUME NEW q \in B PROVE q - p \in A
      OBVIOUS
    <3>2. q - p \in 0 .. k - 1 /\ p + (q - p) = q
      OBVIOUS
    <3> QED BY <2>2, <3>2
  <2>5. IsFiniteSet(0 .. k - 1) /\ A \in SUBSET (0 .. k - 1)
    BY FS_Interval
  <2>6. IsFiniteSet(A) /\ A \in SUBSET Int /\ B \in SUBSET Int
    BY <2>5, FS_Subset
  <2> HIDE DEF A, B
  <2>7. Cardinality(A) = Cardinality(B)
    BY <2>3, <2>4, <2>6, Translated
  <2> QED BY <2>7 DEF A, B, OnesIn
<1>2. PopBefore(Mask(p), i) = OnesIn(p, i)
  BY <1>1 DEF PopBefore
<1>3. MergePop(Mask(p)) = OnesIn(p, Half)
  BY <1>0, <1>1 DEF MergePop
<1> QED BY <1>2, <1>3

\* The right child takes as many symbols as the bitmap has ones.
LEMMA RightSize ==
  ASSUME bits \in Seq({0, 1})
  PROVE  K \in Nat /\ KR = OnesIn(0, K) /\ KR \in Nat /\ KR <= K
<1>1. K \in Nat /\ DOMAIN bits = 1 .. K
  BY DEF K
<1> DEFINE A == {i \in DOMAIN bits : bits[i] = 1}
           B == {q \in 0 .. K - 1 : MergeBit(q) = 1}
<1>2. \A i \in A : i + (-1) \in B
  BY <1>1 DEF MergeBit
<1>3. \A q \in B : q - (-1) \in A
  BY <1>1 DEF MergeBit
<1>4. IsFiniteSet(1 .. K) /\ A \in SUBSET (1 .. K)
  BY <1>1, FS_Interval
<1>5. IsFiniteSet(A) /\ A \in SUBSET Int /\ B \in SUBSET Int
  BY <1>1, <1>4, FS_Subset
<1> HIDE DEF A, B
<1>6. Cardinality(A) = Cardinality(B)
  BY <1>2, <1>3, <1>5, Translated
<1>7. KR = OnesIn(0, K)
  BY <1>1, <1>6 DEF KR, Ones, A, B, OnesIn
<1> QED BY <1>1, <1>7, OnesBounds

\* Of the first t symbols no child gives more than it has.
LEMMA CountsBelow ==
  ASSUME bits \in Seq({0, 1}), NEW t \in Nat, t <= K
  PROVE  OnesIn(0, t) <= KR /\ t - OnesIn(0, t) <= KL
<1>1. K \in Nat /\ KR = OnesIn(0, K) /\ KR \in Nat /\ KR <= K
  BY RightSize
<1>2. K - t \in Nat /\ t + (K - t) = K /\ 0 + t = t
  BY <1>1
<1>3. OnesIn(0, t + (K - t)) = OnesIn(0, t) + OnesIn(0 + t, K - t)
  BY <1>2, OnesJoin
<1>4. /\ OnesIn(t, K - t) \in Nat /\ OnesIn(t, K - t) <= K - t
      /\ OnesIn(0, t) \in Nat /\ OnesIn(0, t) <= t
  BY <1>2, OnesBounds
<1>5. KR = OnesIn(0, t) + OnesIn(t, K - t)
  BY <1>1, <1>2, <1>3
<1> QED BY <1>1, <1>4, <1>5 DEF KL

-----------------------------------------------------------------------------
(* The merge of the decode walk.                                            *)

\* The child that starts in the tail of the node's buffer, and what a cell of that buffer
\* holds until the merge gets there.
TailSide == IF InTail("r") THEN "r" ELSE "l"
Resting(a) ==
  IF a \in K - Size(TailSide) .. K - 1 THEN <<TailSide, a - (K - Size(TailSide))>> ELSE MergeJunk
OtherWhole ==
  \A side \in {"l", "r"} : side # TailSide /\ ~(leafy /\ side = "l") =>
    \A p \in 0 .. Size(side) - 1 : p \in DOMAIN other /\ other[p] = <<side, p>>

\* Behind the merge the node's buffer holds its symbols, before it what it held at first.
MergeInv ==
  /\ bits \in Seq({0, 1}) /\ backend \in Backends /\ leafy \in BOOLEAN
  /\ lc \in Nat /\ rc \in Nat /\ taken <= K /\ rc = OnesIn(0, taken)
  /\ reach \in 0 .. Overread
  /\ K > 0 => DOMAIN out = 0 .. K + MergeRoom - 1
  /\ \A a \in DOMAIN out : a \in Nat /\ out[a] = IF a < taken THEN Wanted(a) ELSE Resting(a)
  /\ OtherWhole

LEMMA MergeShapes ==
  /\ Half \in Nat /\ Half > 0 /\ Lanes \in Nat /\ Lanes = 2 * Half
  /\ WideStep \in Nat /\ WideStep > Lanes /\ MergeRoom = WideStep
  /\ ByteMod \in Nat /\ ByteMod > 2 * Lanes
<1>1. Half \in Nat /\ Half > 0 /\ Lanes \in Nat /\ Lanes = 2 * Half /\ Lanes > 0
  BY HalfAssumption DEF Lanes
<1>2. WideGroups \in Nat /\ WideGroups >= 2
  BY MergeAssumption
<1>3. WideStep \in Nat /\ WideStep > Lanes
  <2>1. \A g, l \in Nat : g >= 2 /\ l > 0 => g * l \in Nat /\ g * l > l
    OBVIOUS
  <2> QED BY <1>1, <1>2, <2>1 DEF WideStep
<1> QED BY <1>1, <1>3, MergeAssumption DEF MergeRoom

\* The cursors never pass the children's ends.
LEMMA Cursors ==
  ASSUME MergeInv
  PROVE  /\ K \in Nat /\ KR \in Nat /\ KL \in Nat /\ KL + KR = K
         /\ taken \in Nat /\ rc <= KR /\ lc <= KL
         /\ Size("r") = KR /\ Size("l") = KL
<1>1. K \in Nat /\ KR = OnesIn(0, K) /\ KR \in Nat /\ KR <= K
  BY RightSize DEF MergeInv
<1>2. taken \in Nat /\ taken = lc + rc /\ lc \in Nat /\ rc \in Nat /\ taken <= K
  BY DEF MergeInv, taken
<1>3. OnesIn(0, taken) <= KR /\ taken - OnesIn(0, taken) <= KL
  BY <1>2, CountsBelow DEF MergeInv
<1>4. rc <= KR /\ lc <= KL
  BY <1>1, <1>2, <1>3 DEF MergeInv, KL
<1> QED BY <1>1, <1>2, <1>4 DEF KL, Size

\* Of neither child is anything overwritten before it is taken.
LEMMA Intact ==
  ASSUME MergeInv, NEW side \in {"l", "r"}, ~(leafy /\ side = "l"),
         NEW p \in Nat, (IF side = "r" THEN rc ELSE lc) <= p, p < Size(side)
  PROVE  At(side, p) = <<side, p>>
<1>1. /\ K \in Nat /\ KR \in Nat /\ KL \in Nat /\ KL + KR = K
      /\ taken \in Nat /\ taken = lc + rc /\ lc \in Nat /\ rc \in Nat /\ rc <= KR /\ lc <= KL
      /\ Size("r") = KR /\ Size("l") = KL
  BY Cursors DEF MergeInv, taken
<1>2. InTail(side) <=> side = TailSide
  BY DEF InTail, TailSide
<1>3. CASE side = TailSide
  <2> DEFINE a == K - Size(side) + p
  <2>1. a \in Nat /\ a < K /\ a >= taken /\ a - (K - Size(side)) = p /\ a >= K - Size(side)
    BY <1>1
  <2>2. a \in DOMAIN out
    BY <2>1, <1>1, MergeShapes DEF MergeInv
  <2>3. out[a] = Resting(a)
    BY <1>1, <2>1, <2>2 DEF MergeInv
  <2>4. Resting(a) = <<side, p>>
    BY <1>1, <1>3, <2>1 DEF Resting
  <2>5. At(side, p) = IF a \in DOMAIN out THEN out[a] ELSE MergeJunk
    BY <1>2, <1>3 DEF At, ChildBase
  <2> QED BY <2>2, <2>3, <2>4, <2>5
<1>4. CASE side # TailSide
  <2>1. p \in DOMAIN other /\ other[p] = <<side, p>>
    BY <1>1, <1>4 DEF MergeInv, OtherWhole
  <2>2. At(side, p) = IF p \in DOMAIN other THEN other[p] ELSE MergeJunk
    BY <1>2, <1>4, 0 + p = p DEF At, ChildBase
  <2> QED BY <2>1, <2>2
<1> QED BY <1>3, <1>4

-----------------------------------------------------------------------------
(* What a lane of a step gets.                                              *)

\* The places of the next symbols in the children they come from.
LEMMA Routes ==
  ASSUME MergeInv, NEW i \in Nat, taken + i < K
  PROVE  /\ OnesIn(taken, i) \in Nat /\ OnesIn(taken, i) <= i
         /\ MergeBit(taken + i) \in {0, 1}
         /\ MergeBit(taken + i) = 1 =>
              /\ rc + OnesIn(taken, i) < KR
              /\ Wanted(taken + i) = <<"r", rc + OnesIn(taken, i)>>
         /\ MergeBit(taken + i) = 0 =>
              /\ lc + i - OnesIn(taken, i) < KL
              /\ Wanted(taken + i) = IF leafy THEN Leaf ELSE <<"l", lc + i - OnesIn(taken, i)>>
<1> DEFINE q == taken + i
           c == OnesIn(taken, i)
           one == OnesIn(q, 1)
<1>1. /\ K \in Nat /\ KR \in Nat /\ KL \in Nat
      /\ taken \in Nat /\ taken = lc + rc /\ lc \in Nat /\ rc \in Nat
      /\ rc = OnesIn(0, taken) /\ bits \in Seq({0, 1})
  BY Cursors DEF MergeInv, taken
<1>2. q \in Nat /\ q + 1 \in Nat /\ q + 1 <= K /\ 0 + q = q
  BY <1>1
<1>3. c \in Nat /\ c <= i
  BY <1>1, OnesBounds
<1>4. OnesIn(0, q) = rc + c
  BY <1>1, OnesJoin, 0 + taken = taken
<1>5. one = IF MergeBit(q) = 1 THEN 1 ELSE 0
  BY <1>2, OnesOne
<1>6. MergeBit(q) \in {0, 1}
  <2>1. q < K /\ q + 1 \in 1 .. K
    BY <1>1, <1>2
  <2> HIDE DEF q
  <2>2. bits[q + 1] \in {0, 1}
    BY <1>1, <2>1 DEF K
  <2> QED BY <2>1, <2>2 DEF MergeBit
<1>7. Wanted(q) = IF MergeBit(q) = 1 THEN <<"r", rc + c>>
                  ELSE IF leafy THEN Leaf ELSE <<"l", q - (rc + c)>>
  BY <1>4 DEF Wanted
<1>8. q = lc + rc + i
  BY <1>1
<1> HIDE DEF q, c, one
<1>9. OnesIn(0, q + 1) = rc + c + one
  BY <1>2, <1>4, OnesJoin DEF one
<1>10. rc + c + one <= KR /\ (q + 1) - (rc + c + one) <= KL
  BY <1>1, <1>2, <1>9, CountsBelow
<1>11. MergeBit(q) = 1 => rc + c < KR
  BY <1>1, <1>3, <1>5, <1>10
<1>12. MergeBit(q) = 0 => lc + i - c < KL
  <2>1. SUFFICES ASSUME MergeBit(q) = 0 PROVE lc + i - c < KL
    OBVIOUS
  <2>2. (q + 1) - (rc + c) <= KL
    BY <1>1, <1>2, <1>3, <1>5, <1>10, <2>1
  <2> QED BY <1>1, <1>3, <1>8, <2>2, SMTT(30)
<1>13. q - (rc + c) = lc + i - c
  BY <1>1, <1>3, <1>8
<1> QED BY <1>3, <1>6, <1>7, <1>11, <1>12, <1>13 DEF q, c

\* A register loaded from a child holds the symbol at the lane its cursor has come to.
LEMMA RightLane ==
  ASSUME MergeInv, NEW i \in Nat, taken + i < K, MergeBit(taken + i) = 1,
         NEW b \in Nat, NEW w \in Nat, NEW k \in 0 .. w - 1, b + k = rc + OnesIn(taken, i)
  PROVE  Load("r", b, w)[k] = Wanted(taken + i)
<1>1. /\ OnesIn(taken, i) \in Nat /\ rc + OnesIn(taken, i) < KR
      /\ Wanted(taken + i) = <<"r", rc + OnesIn(taken, i)>>
  BY Routes
<1>2. Load("r", b, w)[k] = At("r", rc + OnesIn(taken, i))
  BY DEF Load
<1>3. rc + OnesIn(taken, i) \in Nat /\ rc <= rc + OnesIn(taken, i) /\ Size("r") = KR
  BY <1>1, Cursors DEF MergeInv
<1>4. At("r", rc + OnesIn(taken, i)) = <<"r", rc + OnesIn(taken, i)>>
  BY <1>1, <1>3, Intact
<1> QED BY <1>1, <1>2, <1>4

LEMMA LeftLane ==
  ASSUME MergeInv, NEW i \in Nat, taken + i < K, MergeBit(taken + i) # 1,
         NEW b \in Nat, NEW w \in Nat, NEW k \in 0 .. w - 1, b + k = lc + i - OnesIn(taken, i)
  PROVE  Load("l", b, w)[k] = Wanted(taken + i)
<1> DEFINE p == lc + i - OnesIn(taken, i)
<1>1. /\ OnesIn(taken, i) \in Nat /\ OnesIn(taken, i) <= i /\ p < KL
      /\ Wanted(taken + i) = IF leafy THEN Leaf ELSE <<"l", p>>
  BY Routes
<1>2. Load("l", b, w)[k] = IF leafy THEN Leaf ELSE At("l", p)
  BY DEF Load
<1>3. p \in Nat /\ lc <= p /\ Size("l") = KL
  BY <1>1, Cursors DEF MergeInv
<1> HIDE DEF p
<1>4. ~leafy => At("l", p) = <<"l", p>>
  BY <1>1, <1>3, Intact
<1> QED BY <1>1, <1>2, <1>4

\* A register's cursors in the two children, o symbols into the step.
LeftFrom(o) == lc + o - OnesIn(taken, o)
RightFrom(o) == rc + OnesIn(taken, o)

LEMMA RegisterLane ==
  ASSUME MergeInv, NEW o \in Nat, NEW w \in Nat, NEW i \in 0 .. w - 1, (taken + o) + i < K
  PROVE  /\ OnesIn(taken + o, i) \in 0 .. i
         /\ MergeBit((taken + o) + i) = 1 =>
              Load("r", RightFrom(o), w)[OnesIn(taken + o, i)] = Wanted((taken + o) + i)
         /\ MergeBit((taken + o) + i) # 1 =>
              Load("l", LeftFrom(o), w)[i - OnesIn(taken + o, i)] = Wanted((taken + o) + i)
<1> DEFINE c == OnesIn(taken + o, i)
           u == o + i
<1>1. taken \in Nat /\ lc \in Nat /\ rc \in Nat /\ taken + o \in Nat /\ i \in Nat
  BY Cursors DEF MergeInv
<1>2. u \in Nat /\ taken + u = (taken + o) + i /\ taken + u < K
  BY <1>1
<1>3. c \in Nat /\ c <= i /\ OnesIn(taken, o) \in Nat /\ OnesIn(taken, o) <= o
  BY <1>1, OnesBounds
<1>4. OnesIn(taken, u) = OnesIn(taken, o) + c
  BY <1>1, OnesJoin
<1>5. LeftFrom(o) \in Nat /\ RightFrom(o) \in Nat
  BY <1>1, <1>3 DEF LeftFrom, RightFrom
<1> HIDE DEF u
<1>6. RightFrom(o) + c = rc + OnesIn(taken, u)
  BY <1>1, <1>3, <1>4 DEF RightFrom
<1>7. LeftFrom(o) + (i - c) = lc + u - OnesIn(taken, u)
  BY <1>1, <1>3, <1>4 DEF LeftFrom, u
<1>8. c \in 0 .. w - 1 /\ i - c \in 0 .. w - 1
  BY <1>3
<1> HIDE DEF c
<1>9. MergeBit(taken + u) = 1 => Load("r", RightFrom(o), w)[c] = Wanted(taken + u)
  BY <1>2, <1>5, <1>6, <1>8, RightLane
<1>10. MergeBit(taken + u) # 1 => Load("l", LeftFrom(o), w)[i - c] = Wanted(taken + u)
  BY <1>2, <1>5, <1>7, <1>8, LeftLane
<1> QED BY <1>2, <1>3, <1>9, <1>10 DEF c

\* The bits of the second mask byte follow those of the first.
LEMMA MaskLow ==
  ASSUME NEW p \in Nat, NEW i \in 0 .. Half - 1
  PROVE  Mask(p)[i] = MergeBit(p + i) /\ PopBefore(Mask(p), i) = OnesIn(p, i)
<1>1. i \in 0 .. Half
  BY HalfAssumption
<1> QED BY <1>1, MaskCounts DEF Mask

LEMMA MaskHigh ==
  ASSUME NEW p \in Nat, NEW i \in Half .. Lanes - 1
  PROVE  /\ Mask(p + Half)[i - Half] = MergeBit(p + i)
         /\ MergePop(Mask(p)) + PopBefore(Mask(p + Half), i - Half) = OnesIn(p, i)
         /\ MergePop(Mask(p)) \in Nat /\ PopBefore(Mask(p + Half), i - Half) \in Nat
<1> DEFINE h == i - Half
<1>1. Half \in Nat /\ h \in 0 .. Half - 1 /\ h \in Nat /\ Half + h = i /\ (p + Half) + h = p + i
  BY MergeShapes
<1>2. 0 \in 0 .. Half /\ p + Half \in Nat
  BY <1>1
<1> HIDE DEF h
<1>3. Mask(p + Half)[h] = MergeBit((p + Half) + h) /\ PopBefore(Mask(p + Half), h) = OnesIn(p + Half, h)
  BY <1>1, <1>2, MaskLow
<1>4. MergePop(Mask(p)) = OnesIn(p, Half)
  BY <1>2, MaskCounts
<1>5. OnesIn(p, Half + h) = OnesIn(p, Half) + OnesIn(p + Half, h)
  BY <1>1, OnesJoin
<1>6. OnesIn(p, Half) \in Nat /\ OnesIn(p + Half, h) \in Nat
  BY <1>1, <1>2, OnesBounds
<1> QED BY <1>1, <1>3, <1>4, <1>5, <1>6 DEF h

\* Each backend's shuffle picks, lane by lane, what the bits ask for.
LEMMA X86Picks ==
  ASSUME NEW p \in Nat, NEW i \in 0 .. Lanes - 1, NEW L, NEW R
  PROVE  X86Pick(Mask(p), Mask(p + Half), L, R)[i] =
           IF MergeBit(p + i) = 1 THEN R[OnesIn(p, i)] ELSE L[i - OnesIn(p, i)]
<1> DEFINE m0 == Mask(p)
           m1 == Mask(p + Half)
           c == OnesIn(p, i)
           sum == X86Shuf0(m0)[i] + X86Shuf1(m1)[i]
           s == sum % ByteMod
<1>1. /\ Half \in Nat /\ Half > 0 /\ Lanes \in Nat /\ Lanes = 2 * Half
      /\ ByteMod \in Nat /\ ByteMod > 2 * Lanes
  BY MergeShapes
<1>2. c \in Nat /\ c <= i /\ i \in Nat /\ i < Lanes
  BY <1>1, OnesBounds
<1>3. sum = IF MergeBit(p + i) = 1 THEN c ELSE ByteMod - 1 - (i - c)
  <2>1. CASE i < Half
    <3>1. m0[i] = MergeBit(p + i) /\ PopBefore(m0, i) = c
      BY <1>1, <1>2, <2>1, MaskLow
    <3>2. X86Shuf0(m0)[i] = IF MergeBit(p + i) = 1 THEN c ELSE ByteMod - 1 - (i - c)
      <4> HIDE DEF m0, c
      <4> QED BY <1>1, <1>2, <2>1, <3>1 DEF X86Shuf0
    <3>3. X86Shuf1(m1)[i] = 0
      BY <1>1, <1>2, <2>1 DEF X86Shuf1
    <3> HIDE DEF m0, m1, c
    <3> QED BY <1>1, <1>2, <3>2, <3>3
  <2>2. CASE i >= Half
    <3> DEFINE h == i - Half
               P == MergePop(m0)
               Q == PopBefore(m1, h)
    <3>1. m1[h] = MergeBit(p + i) /\ P + Q = c /\ P \in Nat /\ Q \in Nat
      BY <1>1, <1>2, <2>2, MaskHigh
    <3>2. X86Shuf0(m0)[i] = P
      BY <1>1, <1>2, <2>2 DEF X86Shuf0
    <3>3. X86Shuf1(m1)[i] = IF m1[h] = 1 THEN Q ELSE ByteMod - 1 - Half - (h - Q)
      BY <1>1, <1>2, <2>2 DEF X86Shuf1
    <3> HIDE DEF m0, m1, c, P, Q
    <3> QED BY <1>1, <1>2, <2>2, <3>1, <3>2, <3>3
  <2> QED BY <1>1, <1>2, <2>1, <2>2
<1>4. X86Pick(m0, m1, L, R)[i] = IF s < ByteMod \div 2 THEN R[s % Lanes] ELSE L[(ByteMod - 1 - s) % Lanes]
  BY <1>2 DEF X86Pick
<1> HIDE DEF m0, m1, c, sum
<1>5. \A x, y \in Nat : x < y => x % y = x
  OBVIOUS
<1>6. CASE MergeBit(p + i) = 1
  <2>1. s = c /\ s < ByteMod \div 2 /\ s % Lanes = c
    BY <1>1, <1>2, <1>3, <1>5, <1>6, SMTT(30)
  <2> QED BY <1>4, <1>6, <2>1 DEF m0, m1, c
<1>7. CASE MergeBit(p + i) # 1
  <2>1. s = ByteMod - 1 - (i - c)
    BY <1>1, <1>2, <1>3, <1>5, <1>7
  <2>2. ~(s < ByteMod \div 2)
    BY <1>1, <1>2, <2>1
  <2>3. (ByteMod - 1 - s) % Lanes = i - c
    <3>1. ByteMod - 1 - s = i - c /\ i - c \in Nat /\ i - c < Lanes
      BY <1>1, <1>2, <2>1
    <3> QED BY <1>1, <1>5, <3>1
  <2> QED BY <1>4, <1>7, <2>2, <2>3 DEF m0, m1, c
<1> QED BY <1>6, <1>7

LEMMA NeonPicks ==
  ASSUME NEW p \in Nat, NEW i \in 0 .. Lanes - 1, NEW L, NEW R, NEW m1,
         i >= Half => m1 = Mask(p + Half)
  PROVE  NeonPick(Mask(p), m1, L, R)[i] =
           IF MergeBit(p + i) = 1 THEN R[OnesIn(p, i)] ELSE L[i - OnesIn(p, i)]
<1> DEFINE m0 == Mask(p)
           c == OnesIn(p, i)
           diff == NeonShuf0(m0)[i] - NeonShuf1(m1)[i]
           s == Abs(diff)
<1>1. Half \in Nat /\ Half > 0 /\ Lanes \in Nat /\ Lanes = 2 * Half
  BY MergeShapes
<1>2. c \in Nat /\ c <= i /\ i \in Nat /\ i < Lanes
  BY <1>1, OnesBounds
<1>3. diff = IF MergeBit(p + i) = 1 THEN c ELSE -Lanes - i + c
  <2>1. CASE i < Half
    <3>1. m0[i] = MergeBit(p + i) /\ PopBefore(m0, i) = c
      BY <1>1, <1>2, <2>1, MaskLow
    <3>2. NeonShuf0(m0)[i] = IF MergeBit(p + i) = 1 THEN c ELSE -Lanes - i + c
      <4> HIDE DEF m0, c
      <4> QED BY <1>1, <1>2, <2>1, <3>1 DEF NeonShuf0
    <3>3. NeonShuf1(m1)[i] = 0
      BY <1>1, <1>2, <2>1 DEF NeonShuf1
    <3> HIDE DEF m0, c
    <3> QED BY <1>1, <1>2, <3>2, <3>3
  <2>2. CASE i >= Half
    <3> DEFINE h == i - Half
               P == MergePop(m0)
               Q == PopBefore(m1, h)
    <3>1. m1[h] = MergeBit(p + i) /\ P + Q = c /\ P \in Nat /\ Q \in Nat
      <4>1. i \in Half .. Lanes - 1 /\ m1 = Mask(p + Half)
        BY <1>1, <1>2, <2>2
      <4> QED BY <4>1, MaskHigh
    <3>2. NeonShuf0(m0)[i] = P
      BY <1>1, <1>2, <2>2 DEF NeonShuf0
    <3>3. NeonShuf1(m1)[i] = IF m1[h] = 1 THEN -Q ELSE Half - (-Lanes - h + Q)
      BY <1>1, <1>2, <2>2 DEF NeonShuf1
    <3> HIDE DEF m0, c, P, Q
    <3> QED BY <1>1, <1>2, <2>2, <3>1, <3>2, <3>3
  <2> QED BY <1>1, <1>2, <2>1, <2>2
<1>4. NeonPick(m0, m1, L, R)[i] =
        IF s < Lanes THEN R[s] ELSE IF s < 2 * Lanes THEN L[s - Lanes] ELSE MergeJunk
  BY <1>2 DEF NeonPick
<1> HIDE DEF m0, c, diff
<1>6. CASE MergeBit(p + i) = 1
  <2>1. s = c /\ s < Lanes
    BY <1>1, <1>2, <1>3, <1>6 DEF Abs
  <2> QED BY <1>4, <1>6, <2>1 DEF m0, c
<1>7. CASE MergeBit(p + i) # 1
  <2>1. s = Lanes + (i - c) /\ ~(s < Lanes) /\ s < 2 * Lanes /\ s - Lanes = i - c
    BY <1>1, <1>2, <1>3, <1>7 DEF Abs
  <2> QED BY <1>4, <1>7, <2>1 DEF m0, c
<1> QED BY <1>6, <1>7

LEMMA ExpandPicks ==
  ASSUME NEW p \in Nat, NEW i \in 0 .. Half - 1, NEW L, NEW R
  PROVE  ExpandPick(Mask(p), L, R)[i] =
           IF MergeBit(p + i) = 1 THEN R[OnesIn(p, i)] ELSE L[i - OnesIn(p, i)]
BY MaskLow DEF ExpandPick

LEMMA FirstLane ==
  ASSUME MergeInv, NEW w \in Nat, NEW i \in 0 .. w - 1, taken + i < K
  PROVE  /\ OnesIn(taken, i) \in 0 .. i
         /\ MergeBit(taken + i) = 1 => Load("r", rc, w)[OnesIn(taken, i)] = Wanted(taken + i)
         /\ MergeBit(taken + i) # 1 => Load("l", lc, w)[i - OnesIn(taken, i)] = Wanted(taken + i)
<1>1. taken \in Nat /\ lc \in Nat /\ rc \in Nat
  BY Cursors DEF MergeInv
<1>2. taken + 0 = taken /\ OnesIn(taken, 0) = 0
  BY <1>1, OnesOne
<1>3. LeftFrom(0) = lc /\ RightFrom(0) = rc
  BY <1>1, <1>2 DEF LeftFrom, RightFrom
<1>4. /\ OnesIn(taken + 0, i) \in 0 .. i
      /\ MergeBit((taken + 0) + i) = 1 =>
           Load("r", RightFrom(0), w)[OnesIn(taken + 0, i)] = Wanted((taken + 0) + i)
      /\ MergeBit((taken + 0) + i) # 1 =>
           Load("l", LeftFrom(0), w)[i - OnesIn(taken + 0, i)] = Wanted((taken + 0) + i)
  BY <1>2, RegisterLane
<1> QED BY <1>2, <1>3, <1>4

LEMMA RoutedRight ==
  ASSUME MergeInv, NEW w \in Nat, NEW i \in 0 .. w - 1, taken + i < K
  PROVE  Routed(w)[i] = Wanted(taken + i)
<1>0. i \in Nat
  OBVIOUS
<1>1. OnesIn(taken, i) \in Nat /\ OnesIn(taken, i) <= i
  BY <1>0, Routes
<1>2. rc + OnesIn(taken, i) \in Nat /\ lc + i - OnesIn(taken, i) \in Nat
  BY <1>1 DEF MergeInv
<1>3. MergeBit(taken + i) = 1 => Load("r", rc + OnesIn(taken, i), 1)[0] = Wanted(taken + i)
  BY <1>0, <1>2, RightLane
<1>4. MergeBit(taken + i) # 1 => Load("l", lc + i - OnesIn(taken, i), 1)[0] = Wanted(taken + i)
  BY <1>0, <1>2, LeftLane
<1> QED BY <1>3, <1>4 DEF Routed

LEMMA NeonRight ==
  ASSUME MergeInv, NEW w \in {Half, Lanes}, NEW i \in 0 .. w - 1, taken + i < K
  PROVE  NeonPicked(w)[i] = Wanted(taken + i)
<1>1. Half \in Nat /\ Half > 0 /\ Lanes \in Nat /\ Lanes = 2 * Half /\ w \in Nat /\ i \in 0 .. Lanes - 1
  BY MergeShapes
<1>2. taken \in Nat
  BY Cursors
<1> DEFINE c == OnesIn(taken, i)
           Low(side, b) == [k \in 0 .. Lanes - 1 |-> IF k < Half THEN Load(side, b, Half)[k] ELSE MergeJunk]
           zeros == [k \in 0 .. Half - 1 |-> 0]
<1>3. /\ c \in 0 .. i
      /\ MergeBit(taken + i) = 1 => Load("r", rc, w)[c] = Wanted(taken + i)
      /\ MergeBit(taken + i) # 1 => Load("l", lc, w)[i - c] = Wanted(taken + i)
  BY <1>1, FirstLane
<1>4. CASE w = Half
  <2>1. NeonPick(Mask(taken), zeros, Low("l", lc), Low("r", rc))[i] =
          IF MergeBit(taken + i) = 1 THEN Low("r", rc)[c] ELSE Low("l", lc)[i - c]
    <3>1. i \in 0 .. Lanes - 1 /\ ~(i >= Half)
      BY <1>1, <1>4
    <3> HIDE DEF zeros, Low
    <3>2. i >= Half => zeros = Mask(taken + Half)
      BY <3>1
    <3> QED BY <1>2, <3>1, <3>2, NeonPicks, ZenonT(40)
  <2>2. c \in 0 .. Half - 1 /\ i - c \in 0 .. Half - 1
    BY <1>1, <1>3, <1>4
  <2>3. Low("r", rc)[c] = Load("r", rc, Half)[c] /\ Low("l", lc)[i - c] = Load("l", lc, Half)[i - c]
    <3> HIDE DEF c
    <3> QED BY <1>1, <2>2
  <2>4. NeonPicked(w)[i] = NeonPick(Mask(taken), zeros, Low("l", lc), Low("r", rc))[i]
    BY <1>1, <1>4 DEF NeonPicked
  <2> HIDE DEF Low, zeros, c
  <2> QED BY <1>3, <1>4, <2>1, <2>3, <2>4
<1>5. CASE w = Lanes
  <2> DEFINE m1 == Mask(taken + Half)
  <2>1. NeonPick(Mask(taken), m1, Load("l", lc, Lanes), Load("r", rc, Lanes))[i] =
          IF MergeBit(taken + i) = 1 THEN Load("r", rc, Lanes)[c] ELSE Load("l", lc, Lanes)[i - c]
    BY <1>1, <1>2, NeonPicks
  <2>2. NeonPicked(w)[i] = NeonPick(Mask(taken), m1, Load("l", lc, Lanes), Load("r", rc, Lanes))[i]
    <3>1. w # Half
      BY <1>1, <1>5
    <3> QED BY <3>1 DEF NeonPicked
  <2> HIDE DEF c, m1
  <2> QED BY <1>3, <1>5, <2>1, <2>2
<1> QED BY <1>4, <1>5

LEMMA X86Right ==
  ASSUME MergeInv, NEW w \in {Lanes, 2 * Lanes}, NEW i \in 0 .. w - 1, taken + i < K
  PROVE  X86Picked(w)[i] = Wanted(taken + i)
<1>1. Half \in Nat /\ Half > 0 /\ Lanes \in Nat /\ Lanes = 2 * Half /\ i \in Nat /\ i < 2 * Lanes
  BY MergeShapes
<1>2. taken \in Nat
  BY Cursors
<1> DEFINE g == i \div Lanes
           o == g * Lanes
           k == i % Lanes
           p == taken + o
<1>3. g \in {0, 1} /\ o \in Nat /\ k \in 0 .. Lanes - 1 /\ o + k = i
  <2>1. CASE i < Lanes
    <3>1. g = 0 /\ k = i
      BY <1>1, <2>1
    <3> QED BY <1>1, <2>1, <3>1
  <2>2. CASE i >= Lanes
    <3>1. g = 1 /\ k = i - Lanes
      BY <1>1, <2>2
    <3> QED BY <1>1, <2>2, <3>1
  <2> QED BY <1>1, <2>1, <2>2
<1>4. X86Picked(w)[i] =
       X86Pick(Mask(p), Mask(p + Half), Load("l", LeftFrom(o), Lanes), Load("r", RightFrom(o), Lanes))[k]
  BY DEF X86Picked, LeftFrom, RightFrom
<1> HIDE DEF g, o, k
<1>5. p \in Nat /\ p + k = taken + i
  BY <1>2, <1>3, <1>1
<1>6. X86Pick(Mask(p), Mask(p + Half), Load("l", LeftFrom(o), Lanes), Load("r", RightFrom(o), Lanes))[k] =
        IF MergeBit(p + k) = 1 THEN Load("r", RightFrom(o), Lanes)[OnesIn(p, k)]
        ELSE Load("l", LeftFrom(o), Lanes)[k - OnesIn(p, k)]
  <2> HIDE DEF p
  <2> QED BY <1>3, <1>5, X86Picks
<1>7. /\ MergeBit(p + k) = 1 => Load("r", RightFrom(o), Lanes)[OnesIn(p, k)] = Wanted(p + k)
      /\ MergeBit(p + k) # 1 => Load("l", LeftFrom(o), Lanes)[k - OnesIn(p, k)] = Wanted(p + k)
  BY <1>1, <1>3, <1>5, RegisterLane
<1> HIDE DEF p
<1> QED BY <1>4, <1>5, <1>6, <1>7

\* Every step of every backend stores what the scalar merge would.
LEMMA PickedRight ==
  ASSUME MergeInv, NEW w \in MergeWidths, MergeFits(w), NEW i \in 0 .. w - 1
  PROVE  Picked(w)[i] = Wanted(taken + i)
<1>1. /\ Half \in Nat /\ Half > 0 /\ Lanes \in Nat /\ Lanes = 2 * Half
      /\ WideStep \in Nat /\ WideStep > Lanes
  BY MergeShapes
<1>2. w \in Nat
  BY <1>1 DEF MergeWidths, MergeInv, Backends
<1>3. taken + i < K
  BY <1>2, Cursors DEF MergeFits
<1>4. CASE w = 1 \/ (backend = "avx512" /\ w = WideStep)
  BY <1>2, <1>3, <1>4, RoutedRight DEF Picked
<1>5. CASE ~(w = 1 \/ (backend = "avx512" /\ w = WideStep))
  <2>1. CASE backend = "scalar"
    BY <1>5, <2>1 DEF MergeWidths
  <2>2. CASE backend = "neon"
    <3>1. w \in {Half, Lanes} /\ Picked(w) = NeonPicked(w)
      BY <1>5, <2>2 DEF MergeWidths, Picked
    <3> QED BY <1>3, <3>1, NeonRight
  <2>3. CASE backend = "x86"
    <3>1. w \in {Lanes, 2 * Lanes} /\ Picked(w) = X86Picked(w)
      BY <1>5, <2>3 DEF MergeWidths, Picked
    <3> QED BY <1>3, <3>1, X86Right
  <2>4. CASE backend = "avx512"
    <3>1. w = Half /\ Picked(w) = ExpandPick(Mask(taken), Load("l", lc, Half), Load("r", rc, Half))
      BY <1>5, <2>4 DEF MergeWidths, Picked
    <3>2. taken \in Nat
      BY Cursors
    <3>3. Picked(w)[i] = IF MergeBit(taken + i) = 1 THEN Load("r", rc, Half)[OnesIn(taken, i)]
                         ELSE Load("l", lc, Half)[i - OnesIn(taken, i)]
      BY <3>1, <3>2, ExpandPicks
    <3> QED BY <1>1, <1>3, <3>1, <3>3, FirstLane
  <2> QED BY <2>1, <2>2, <2>3, <2>4 DEF MergeInv, Backends
<1> QED BY <1>4, <1>5

-----------------------------------------------------------------------------
(* How far a step loads.                                                    *)
LEMMA PastBounds ==
  ASSUME NEW side \in {"l", "r"}, Size(side) \in Nat,
         NEW c \in Nat, c <= Size(side), NEW w \in Nat
  PROVE  Past(side, c, w) \in 0 .. w
BY DEF Past

LEMMA ReachBounds ==
  ASSUME MergeInv, NEW w \in MergeWidths, MergeFits(w)
  PROVE  StepReach(w) \in 0 .. Overread
<1>1. /\ Half \in Nat /\ Half > 0 /\ Lanes \in Nat /\ Lanes = 2 * Half
      /\ WideStep \in Nat /\ WideStep > Lanes
  BY MergeShapes
<1>2. Overread \in Nat
  BY <1>1 DEF Overread
<1>3. CASE w = 1 \/ (backend = "avx512" /\ w = WideStep)
  BY <1>2, <1>3 DEF StepReach
<1>4. CASE ~(w = 1 \/ (backend = "avx512" /\ w = WideStep))
  <2> DEFINE starts == {0} \cup (IF w > Lanes THEN {Lanes} ELSE {})
             far == CHOOSE s \in starts : \A t \in starts : t <= s
             v == LoadWidth(w)
             R(s) == Past("r", rc + OnesIn(taken, s), v)
             L(s) == Past("l", lc + s - OnesIn(taken, s), v)
             Worst(s) == Farther(R(s), L(s))
  <2>1. w \in {Half, Lanes, 2 * Lanes} /\ v \in Nat /\ v <= Overread
    BY <1>1, <1>4 DEF MergeWidths, MergeInv, Backends, LoadWidth, Overread
  <2>2. ASSUME NEW s \in starts PROVE Worst(s) \in 0 .. v
    <3>1. s \in Nat /\ s <= w /\ taken + s \in Nat /\ taken + s <= K /\ 0 + taken = taken
      BY <1>1, <2>1, Cursors DEF MergeFits
    <3>2. OnesIn(taken, s) \in Nat /\ OnesIn(taken, s) <= s
      BY <3>1, Cursors, OnesBounds
    <3>3. OnesIn(0, taken + s) = rc + OnesIn(taken, s)
      BY <3>1, Cursors, OnesJoin DEF MergeInv
    <3>4. rc + OnesIn(taken, s) <= KR /\ (taken + s) - (rc + OnesIn(taken, s)) <= KL
      BY <3>1, <3>3, CountsBelow DEF MergeInv
    <3>5. lc \in Nat /\ rc \in Nat /\ taken = lc + rc
      BY DEF MergeInv, taken
    <3>6. /\ rc + OnesIn(taken, s) \in Nat /\ lc + s - OnesIn(taken, s) \in Nat
          /\ lc + s - OnesIn(taken, s) <= KL
      BY <3>1, <3>2, <3>4, <3>5
    <3>7. R(s) \in 0 .. v /\ L(s) \in 0 .. v
      <4> HIDE DEF v
      <4> QED BY <2>1, <3>4, <3>6, Cursors, PastBounds
    <3> HIDE DEF R, L, v
    <3> QED BY <2>1, <3>7 DEF Farther
  <2>3. far \in starts /\ 0 \in starts
    <3>1. \E s \in starts : \A t \in starts : t <= s
      <4>1. CASE w > Lanes
        BY <1>1, <4>1
      <4>2. CASE ~(w > Lanes)
        BY <4>2
      <4> QED BY <4>1, <4>2
    <3> HIDE DEF starts
    <3>2. far \in starts
      BY <3>1
    <3> QED BY <3>2 DEF starts
  <2>4. StepReach(w) = Farther(Worst(0), Worst(far))
    BY <1>4 DEF StepReach
  <2>5. Worst(0) \in 0 .. v /\ Worst(far) \in 0 .. v
    <3> HIDE DEF starts, far, Worst, v
    <3> QED BY <2>2, <2>3
  <2> HIDE DEF Worst, far, v
  <2> QED BY <1>2, <2>1, <2>4, <2>5 DEF Farther
<1> QED BY <1>3, <1>4

-----------------------------------------------------------------------------
(* The invariant and what follows from it.                                  *)
LEMMA InitMerge == MergeInit => MergeInv
<1> SUFFICES ASSUME MergeInit PROVE MergeInv
  OBVIOUS
<1>1. bits \in Seq({0, 1}) /\ backend \in Backends /\ leafy \in BOOLEAN
  BY BitmapsAssumption DEF MergeInit
<1>2. lc = 0 /\ rc = 0 /\ reach = 0 /\ taken = 0
  BY DEF MergeInit, taken
<1>3. K \in Nat /\ KR \in Nat /\ KL \in Nat /\ KL + KR = K /\ Size("r") = KR /\ Size("l") = KL
  BY <1>1, RightSize DEF KL, Size
<1>4. OnesIn(0, 0) = 0
  BY OnesOne
<1>5. Overread \in Nat
  BY MergeShapes DEF Overread
<1>6. InTail("r") <=> TailSide = "r"
  BY DEF TailSide
<1>7. InTail(TailSide) /\ ChildBase(TailSide) = K - Size(TailSide)
  BY <1>1 DEF TailSide, InTail, ChildBase
<1>8. out = [a \in 0 .. K + MergeRoom - 1 |-> Resting(a)]
  <2>1. out = [a \in 0 .. K + MergeRoom - 1 |->
                 IF a \in ChildBase(TailSide) .. ChildBase(TailSide) + Size(TailSide) - 1
                 THEN <<TailSide, a - ChildBase(TailSide)>> ELSE MergeJunk]
    BY DEF MergeInit, TailSide
  <2>2. ChildBase(TailSide) + Size(TailSide) - 1 = K - 1
    BY <1>3, <1>7 DEF TailSide
  <2> QED BY <1>7, <2>1, <2>2 DEF Resting
<1>9. OtherWhole
  <2>1. SUFFICES ASSUME NEW side \in {"l", "r"}, side # TailSide, ~(leafy /\ side = "l"),
                        NEW p \in 0 .. Size(side) - 1
                 PROVE  p \in DOMAIN other /\ other[p] = <<side, p>>
    BY DEF OtherWhole
  <2>2. side = IF TailSide = "r" THEN "l" ELSE "r"
    BY <2>1 DEF TailSide
  <2>3. other = [a \in 0 .. Size(side) + MergeRoom - 1 |->
                   IF a \in 0 .. 0 + Size(side) - 1 THEN <<side, a - 0>> ELSE MergeJunk]
    BY <2>1, <2>2 DEF MergeInit, TailSide
  <2>4. p \in 0 .. Size(side) + MergeRoom - 1 /\ p \in 0 .. 0 + Size(side) - 1 /\ p - 0 = p
    BY <1>3, MergeShapes
  <2> QED BY <2>3, <2>4
<1>10. \A a \in 0 .. K + MergeRoom - 1 : a \in Nat /\ ~(a < taken)
  BY <1>2
<1> QED BY <1>1, <1>2, <1>3, <1>4, <1>5, <1>8, <1>9, <1>10 DEF MergeInv

LEMMA StepMerge == MergeInv /\ [MergeNext]_mergeVars => MergeInv'
<1> SUFFICES ASSUME MergeInv, [MergeNext]_mergeVars PROVE MergeInv'
  OBVIOUS
<1>1. ASSUME NEW w, MergeStep(w) PROVE MergeInv'
  <2>1. /\ w \in MergeWidths /\ MergeFits(w) /\ taken < K
        /\ out' = MergeStored(w) /\ reach' = Farther(reach, StepReach(w))
        /\ rc' = rc + OnesIn(taken, w) /\ lc' = lc + w - OnesIn(taken, w)
        /\ UNCHANGED <<backend, bits, leafy, other>>
    BY <1>1 DEF MergeStep
  <2>2. /\ K' = K /\ TailSide' = TailSide /\ Overread' = Overread /\ OtherWhole'
        /\ \A a : Wanted(a)' = Wanted(a)
        /\ \A a : Resting(a)' = Resting(a)
        /\ \A q : MergeBit(q)' = MergeBit(q)
    <3>1. K' = K /\ KR' = KR /\ KL' = KL
      BY <2>1 DEF K, KR, KL, Ones
    <3>2. TailSide' = TailSide /\ Overread' = Overread /\ Size("l")' = Size("l") /\ Size("r")' = Size("r")
      BY <2>1, <3>1 DEF TailSide, InTail, Overread, Size
    <3>3. \A q : MergeBit(q)' = MergeBit(q)
      BY <2>1, <3>1 DEF MergeBit
    <3>4. \A p, t : OnesIn(p, t)' = OnesIn(p, t)
      BY <3>3 DEF OnesIn
    <3>5. \A a : Wanted(a)' = Wanted(a)
      BY <2>1, <3>3, <3>4 DEF Wanted
    <3>6. \A a : Resting(a)' = Resting(a)
      BY <2>1, <3>1, <3>2 DEF Resting, Size
    <3>7. OtherWhole'
      BY <2>1, <3>2 DEF MergeInv, OtherWhole
    <3> QED BY <3>1, <3>2, <3>3, <3>5, <3>6, <3>7
  <2>3. /\ K \in Nat /\ taken \in Nat /\ taken = lc + rc /\ lc \in Nat /\ rc \in Nat
        /\ rc = OnesIn(0, taken) /\ taken <= K
    BY Cursors DEF MergeInv, taken
  <2>4. w \in Nat /\ taken + w <= K
    BY <2>1, MergeShapes DEF MergeWidths, MergeInv, Backends, MergeFits
  <2>5. OnesIn(taken, w) \in Nat /\ OnesIn(taken, w) <= w
    BY <2>3, <2>4, OnesBounds
  <2>6. taken' = taken + w /\ lc' \in Nat /\ rc' \in Nat
    <3>1. taken' = lc' + rc'
      BY DEF taken
    <3> DEFINE c == OnesIn(taken, w)
    <3>2. c \in Nat /\ c <= w /\ rc' = rc + c /\ lc' = lc + w - c
      BY <2>1, <2>5
    <3> HIDE DEF c
    <3>3. lc' \in Nat /\ rc' \in Nat /\ lc' + rc' = (lc + rc) + w
      BY <2>3, <2>4, <3>2
    <3> QED BY <2>3, <3>1, <3>3
  <2>7. rc' = OnesIn(0, taken + w)
    BY <2>1, <2>3, <2>4, OnesJoin, 0 + taken = taken
  <2>8. reach' \in 0 .. Overread
    BY <2>1, ReachBounds DEF MergeInv, Farther
  <2>9. DOMAIN out' = DOMAIN out
    BY <2>1 DEF MergeStored
  <2>10. ASSUME NEW a \in DOMAIN out
         PROVE  a \in Nat /\ out'[a] = IF a < taken + w THEN Wanted(a) ELSE Resting(a)
    <3>1. a \in Nat /\ out[a] = IF a < taken THEN Wanted(a) ELSE Resting(a)
      BY DEF MergeInv
    <3>2. out'[a] = IF a \in taken .. taken + w - 1 THEN Picked(w)[a - taken] ELSE out[a]
      BY <2>1 DEF MergeStored
    <3>3. CASE a \in taken .. taken + w - 1
      <4> DEFINE i == a - taken
      <4>1. i \in 0 .. w - 1 /\ taken + i = a
        BY <2>3, <2>4, <3>1, <3>3
      <4> HIDE DEF i
      <4>2. Picked(w)[i] = Wanted(a)
        BY <2>1, <4>1, PickedRight
      <4>3. out'[a] = Picked(w)[i]
        BY <3>2, <3>3 DEF i
      <4>4. a < taken + w
        BY <2>3, <2>4, <3>1, <3>3
      <4> QED BY <3>1, <4>2, <4>3, <4>4
    <3>4. CASE a \notin taken .. taken + w - 1
      <4>1. out'[a] = out[a]
        BY <3>2, <3>4
      <4>2. (a < taken) <=> (a < taken + w)
        BY <2>3, <2>4, <3>1, <3>4
      <4> QED BY <3>1, <4>1, <4>2
    <3> QED BY <3>3, <3>4
  <2>11. \A a \in DOMAIN out' : a \in Nat /\ out'[a] = IF a < taken' THEN Wanted(a)' ELSE Resting(a)'
    <3>1. SUFFICES ASSUME NEW a \in DOMAIN out
                   PROVE  a \in Nat /\ out'[a] = IF a < taken' THEN Wanted(a)' ELSE Resting(a)'
      BY <2>9
    <3>2. Wanted(a)' = Wanted(a) /\ Resting(a)' = Resting(a)
      BY <2>2
    <3> QED BY <2>6, <2>10, <3>2
  <2>12. /\ bits' \in Seq({0, 1}) /\ backend' \in Backends /\ leafy' \in BOOLEAN
         /\ taken' <= K' /\ reach' \in 0 .. Overread'
         /\ K' > 0 => DOMAIN out' = 0 .. K' + MergeRoom - 1
    BY <2>1, <2>2, <2>4, <2>6, <2>8, <2>9 DEF MergeInv
  <2>13. rc' = OnesIn(0, taken)'
    BY <2>2, <2>6, <2>7 DEF OnesIn
  <2> QED BY <2>2, <2>6, <2>11, <2>12, <2>13 DEF MergeInv
<1>2. CASE UNCHANGED mergeVars
  BY <1>2, ZenonT(40) DEF mergeVars, MergeInv, taken, K, Overread, OnesIn, MergeBit, Wanted, Resting, TailSide, InTail,
     Size, KL, KR, Ones, OtherWhole
<1> QED BY <1>1, <1>2 DEF MergeNext

\* What the invariant says of the merge's promises.
LEMMA InvMerge == MergeInv => MergeSound
<1> SUFFICES ASSUME MergeInv PROVE MergeSound
  OBVIOUS
<1>1. /\ K \in Nat /\ KR \in Nat /\ KL \in Nat /\ KL + KR = K
      /\ taken \in Nat /\ taken = lc + rc /\ lc \in Nat /\ rc \in Nat
      /\ rc <= KR /\ lc <= KL /\ Size("r") = KR /\ Size("l") = KL
  BY Cursors DEF MergeInv, taken
<1>2. ASSUME NEW a \in DOMAIN out
      PROVE  /\ out[a] \in {MergeJunk, Leaf} \cup ({"l", "r"} \X (0 .. K - 1))
             /\ a >= K => out[a] = MergeJunk
  <2>1. a \in Nat /\ out[a] = IF a < taken THEN Wanted(a) ELSE Resting(a)
    BY DEF MergeInv
  <2>2. CASE a < taken
    <3>1. OnesIn(0, a) \in Nat /\ OnesIn(0, a) <= a
      BY <2>1, OnesBounds
    <3>2. a < K /\ OnesIn(0, a) \in 0 .. K - 1 /\ a - OnesIn(0, a) \in 0 .. K - 1
      BY <1>1, <2>1, <2>2, <3>1 DEF MergeInv
    <3> QED BY <2>1, <2>2, <3>2, <1>1 DEF Wanted
  <2>3. CASE ~(a < taken)
    <3>1. out[a] = Resting(a)
      BY <2>1, <2>3
    <3>2. Size(TailSide) \in Nat /\ Size(TailSide) <= K /\ TailSide \in {"l", "r"}
      BY <1>1 DEF TailSide
    <3>3. CASE a \in K - Size(TailSide) .. K - 1
      <4>1. a - (K - Size(TailSide)) \in 0 .. K - 1
        BY <1>1, <2>1, <3>2, <3>3
      <4> QED BY <1>1, <2>1, <3>1, <3>2, <3>3, <4>1 DEF Resting
    <3>4. CASE a \notin K - Size(TailSide) .. K - 1
      BY <3>1, <3>4 DEF Resting
    <3> QED BY <3>3, <3>4
  <2> QED BY <2>2, <2>3
<1>3. MergeTypeOK
  <2>1. Overread \in Nat /\ Overread <= Lanes /\ Lanes \in Nat
    BY MergeShapes DEF Overread, MergeInv, Backends
  <2>2. reach \in 0 .. Lanes
    BY <2>1 DEF MergeInv
  <2> QED BY <1>1, <1>2, <2>2 DEF MergeTypeOK, MergeInv
<1>4. Merged
  <2>1. SUFFICES ASSUME NEW a \in 0 .. K - 1, a < taken PROVE out[a] = Wanted(a)
    BY DEF Merged
  <2>2. a \in DOMAIN out
    BY <1>1, MergeShapes DEF MergeInv
  <2> QED BY <2>1, <2>2 DEF MergeInv
<1>5. ChildrenIntact
  <2>1. ASSUME NEW p \in rc .. KR - 1 PROVE At("r", p) = <<"r", p>>
    <3>1. p \in Nat /\ rc <= p /\ p < Size("r")
      BY <1>1
    <3> QED BY <3>1, Intact
  <2>2. ASSUME ~leafy, NEW p \in lc .. KL - 1 PROVE At("l", p) = <<"l", p>>
    <3>1. p \in Nat /\ lc <= p /\ p < Size("l")
      BY <1>1
    <3> QED BY <2>2, <3>1, Intact
  <2> QED BY <2>1, <2>2 DEF ChildrenIntact
<1>6. OverreadBound
  <2>1. Overread \in Nat
    BY MergeShapes DEF Overread, MergeInv
  <2> QED BY <2>1 DEF OverreadBound, MergeInv
<1>7. WritesExact
  BY <1>2 DEF WritesExact
<1> QED BY <1>3, <1>4, <1>5, <1>6, <1>7 DEF MergeSound

\* MergeSound: on every backend, for every width of its registers and every bitmap, the merge
\* writes the children's symbols in the order of the bitmap and nothing else, loses nothing of
\* the child whose buffer it writes over, and loads no farther than the backend's slack.
THEOREM MergeCorrect == MergeSpec => []MergeSound
<1>1. MergeInit => MergeInv
  BY InitMerge
<1>2. MergeInv /\ [MergeNext]_mergeVars => MergeInv'
  BY StepMerge
<1>3. MergeInv => MergeSound
  BY InvMerge
<1> QED BY <1>1, <1>2, <1>3, PTL DEF MergeSpec

-----------------------------------------------------------------------------
(* Masks of routing bits and the places in them.                            *)

\* The ranks that go right.
Rights == {i \in Nat : SplitBit(i) = 1}
RightsIn(s, w) == Among(Rights, s, w)

\* Counts of ranks that go right: their bounds, how they join, a single rank.
LEMMA RightsBounds ==
  ASSUME NEW s \in Nat, NEW w \in Nat
  PROVE  RightsIn(s, w) \in Nat /\ RightsIn(s, w) <= w
BY AmongBounds DEF RightsIn

LEMMA RightsJoin ==
  ASSUME NEW s \in Nat, NEW v \in Nat, NEW w \in Nat
  PROVE  RightsIn(s, v + w) = RightsIn(s, v) + RightsIn(s + v, w)
BY AmongJoins DEF RightsIn

LEMMA RightsOne ==
  ASSUME NEW s \in Nat
  PROVE  /\ RightsIn(s, 0) = 0
         /\ RightsIn(s, 1) = IF SplitBit(s) = 1 THEN 1 ELSE 0
         /\ SplitBit(s) \in {0, 1}
<1>1. (s \in Rights) = (SplitBit(s) = 1)
  BY DEF Rights
<1>2. SplitBit(s) \in {0, 1}
  BY DEF SplitBit
<1> QED BY <1>1, <1>2, AmongOne DEF RightsIn

\* m shows the bits of the w ranks from s on.
Shows(m, s, w) == DOMAIN m = 0 .. w - 1 /\ \A k \in 0 .. w - 1 : m[k] = SplitBit(s + k)
CountOf(m, b, p) == Cardinality({q \in 0 .. p - 1 : m[q] = b})

\* A mask counts what it shows.
LEMMA ShownCounts ==
  ASSUME NEW s \in Nat, NEW w \in Nat, NEW m, Shows(m, s, w), NEW p \in 0 .. w
  PROVE  /\ CountOf(m, 1, p) = RightsIn(s, p)
         /\ CountOf(m, 0, p) = p - RightsIn(s, p)
         /\ Pop(m) = RightsIn(s, w)
<1>1. ASSUME NEW t \in 0 .. w PROVE CountOf(m, 1, t) = RightsIn(s, t)
  <2> DEFINE A == {q \in 0 .. t - 1 : m[q] = 1}
             B == Members(Rights, s, t)
  <2>1. A = {q \in 0 .. t - 1 : SplitBit(s + q) = 1}
    BY DEF Shows
  <2>2. \A q \in A : q + s \in B
    BY <2>1 DEF Members, Rights
  <2>3. \A q \in B : q - s \in A
    <3>1. SUFFICES ASSUME NEW q \in B PROVE q - s \in A
      OBVIOUS
    <3>2. q - s \in 0 .. t - 1 /\ s + (q - s) = q /\ SplitBit(q) = 1
      BY DEF Members, Rights
    <3> QED BY <2>1, <3>2
  <2>4. IsFiniteSet(0 .. t - 1) /\ A \in SUBSET (0 .. t - 1)
    BY FS_Interval
  <2>5. IsFiniteSet(A) /\ A \in SUBSET Int /\ B \in SUBSET Int
    BY <2>4, FS_Subset DEF Members
  <2> HIDE DEF A, B
  <2>6. Cardinality(A) = Cardinality(B)
    BY <2>2, <2>3, <2>5, Translated
  <2> QED BY <2>6 DEF A, B, CountOf, RightsIn, Among
<1>2. CountOf(m, 0, p) = p - RightsIn(s, p)
  <2> DEFINE S == 0 .. p - 1
             A == {q \in S : m[q] = 1}
             B == {q \in S : m[q] = 0}
  <2>1. IsFiniteSet(S) /\ Cardinality(S) = p /\ IsFiniteSet(A)
    <3>1. IsFiniteSet(S) /\ Cardinality(S) = p
      BY FS_Interval
    <3>2. A \in SUBSET S
      OBVIOUS
    <3> QED BY <3>1, <3>2, FS_Subset
  <2>2. \A q \in S : m[q] = 0 \/ m[q] = 1
    BY DEF Shows, SplitBit
  <2>3. B = S \ A /\ S \cap A = A
    BY <2>2
  <2>4. Cardinality(A) = RightsIn(s, p)
    BY <1>1 DEF CountOf
  <2>5. CountOf(m, 0, p) = Cardinality(B)
    BY DEF CountOf
  <2> HIDE DEF S, A, B
  <2>6. Cardinality(S \ A) = Cardinality(S) - Cardinality(S \cap A)
    BY <2>1, FS_Difference
  <2> QED BY <2>1, <2>3, <2>4, <2>5, <2>6
<1>3. Pop(m) = RightsIn(s, w)
  BY <1>1 DEF Pop, Shows, CountOf
<1> QED BY <1>1, <1>2, <1>3

\* Places are in the order of their counts, so Place finds the one it is asked for,
LEMMA PlaceIs ==
  ASSUME NEW w \in Nat, NEW m, DOMAIN m = 0 .. w - 1, NEW b, NEW p \in 0 .. w - 1, m[p] = b
  PROVE  Place(m, b, CountOf(m, b, p)) = p
<1> DEFINE T == {q \in 0 .. w - 1 : m[q] = b}
<1>1. \A x \in 0 .. w : CountOf(m, b, x) = Among(T, 0, x)
  <2>1. SUFFICES ASSUME NEW x \in 0 .. w PROVE CountOf(m, b, x) = Among(T, 0, x)
    OBVIOUS
  <2>2. {q \in 0 .. x - 1 : m[q] = b} = Members(T, 0, x)
    BY DEF Members
  <2> QED BY <2>2 DEF CountOf, Among
<1>2. ASSUME NEW x \in 0 .. w - 1, m[x] = b, NEW y \in 0 .. w - 1, x < y
      PROVE  CountOf(m, b, x) < CountOf(m, b, y)
  <2> DEFINE r == y - (x + 1)
  <2>1. x \in Nat /\ r \in Nat /\ (x + 1) + r = y /\ 0 + x = x /\ 0 + (x + 1) = x + 1
    BY <1>2
  <2>2. x \in T
    BY <1>2
  <2> HIDE DEF T, r
  <2>3. Among(T, 0, (x + 1) + r) = Among(T, 0, x + 1) + Among(T, 0 + (x + 1), r)
    BY <2>1, AmongJoins
  <2>4. Among(T, 0, x + 1) = Among(T, 0, x) + Among(T, 0 + x, 1)
    BY <2>1, AmongJoins
  <2>5. Among(T, x, 1) = 1 /\ Among(T, x + 1, r) \in Nat /\ Among(T, 0, x) \in Nat
    <3>1. Among(T, x, 1) = IF x \in T THEN 1 ELSE 0
      BY <2>1, AmongOne
    <3>2. Among(T, x + 1, r) \in 0 .. r /\ Among(T, 0, x) \in 0 .. x
      BY <2>1, AmongBounds
    <3> QED BY <2>1, <2>2, <3>1, <3>2
  <2>6. Among(T, 0, y) > Among(T, 0, x)
    BY <2>1, <2>3, <2>4, <2>5
  <2>7. x \in 0 .. w /\ y \in 0 .. w
    OBVIOUS
  <2> QED BY <1>1, <2>6, <2>7, <2>5
<1>3. ASSUME NEW q \in DOMAIN m, m[q] = b, CountOf(m, b, q) = CountOf(m, b, p) PROVE q = p
  <2>1. q \in 0 .. w - 1 /\ CountOf(m, b, p) \in Int
    <3>1. Among(T, 0, p) \in 0 .. p
      BY AmongBounds
    <3> HIDE DEF T
    <3> QED BY <1>1, <1>3, <3>1
  <2>2. ~(q < p) /\ ~(p < q)
    BY <1>2, <1>3, <2>1
  <2> QED BY <2>1, <2>2
<1>4. Place(m, b, CountOf(m, b, p)) =
        CHOOSE q \in DOMAIN m : m[q] = b /\ CountOf(m, b, q) = CountOf(m, b, p)
  BY DEF Place, CountOf
<1>5. p \in DOMAIN m /\ m[p] = b
  OBVIOUS
<1> QED BY <1>3, <1>4, <1>5

\* and there is one for each count below the total.
LEMMA PlaceThere ==
  ASSUME NEW w \in Nat, NEW m, DOMAIN m = 0 .. w - 1, NEW b, NEW k \in Nat, k < CountOf(m, b, w)
  PROVE  /\ Place(m, b, k) \in 0 .. w - 1
         /\ m[Place(m, b, k)] = b /\ CountOf(m, b, Place(m, b, k)) = k
<1> DEFINE S == {q \in 0 .. w - 1 : m[q] = b}
           c == Cardinality(S)
           T == 0 .. c - 1
           f == [q \in S |-> CountOf(m, b, q)]
<1>1. IsFiniteSet(S) /\ c \in Nat /\ CountOf(m, b, w) = c
  <2>1. IsFiniteSet(0 .. w - 1) /\ S \in SUBSET (0 .. w - 1)
    BY FS_Interval
  <2>2. IsFiniteSet(S)
    BY <2>1, FS_Subset
  <2> QED BY <2>2, FS_CardinalityType DEF CountOf
<1>2. ASSUME NEW q \in S PROVE CountOf(m, b, q) \in T
  <2> DEFINE U == {x \in 0 .. q - 1 : m[x] = b}
  <2>1. U \in SUBSET S /\ q \in S /\ q \notin U
    OBVIOUS
  <2>2. IsFiniteSet(U) /\ Cardinality(U) <= c /\ (c = Cardinality(U) => S = U)
    <3> HIDE DEF U, S
    <3> QED BY <1>1, <2>1, FS_Subset
  <2>3. Cardinality(U) \in Nat /\ Cardinality(U) # c
    <3> HIDE DEF U, S
    <3> QED BY <2>1, <2>2, FS_CardinalityType
  <2>4. CountOf(m, b, q) = Cardinality(U)
    BY DEF CountOf
  <2> HIDE DEF U, S, c
  <2> QED BY <1>1, <2>2, <2>3, <2>4
<1>3. f \in Injection(S, T)
  <2>1. f \in [S -> T]
    <3> HIDE DEF S, T
    <3> QED BY <1>2
  <2>2. \A x, y \in S : f[x] = f[y] => x = y
    <3>1. SUFFICES ASSUME NEW x \in S, NEW y \in S, f[x] = f[y] PROVE x = y
      OBVIOUS
    <3>2. Place(m, b, CountOf(m, b, x)) = x /\ Place(m, b, CountOf(m, b, y)) = y
      BY PlaceIs
    <3> QED BY <3>1, <3>2
  <2> HIDE DEF f, S, T
  <2> QED BY <2>1, <2>2, Zenon DEF Injection, IsInjective
<1>4. IsFiniteSet(T) /\ Cardinality(T) = c
  <2>1. c \in Nat /\ 0 \in Int /\ c - 1 \in Int
    BY <1>1
  <2> HIDE DEF c
  <2>2. IsFiniteSet(0 .. c - 1) /\ Cardinality(0 .. c - 1) = IF 0 > c - 1 THEN 0 ELSE (c - 1) - 0 + 1
    BY <2>1, FS_Interval
  <2> QED BY <2>1, <2>2
<1>5. f \in Surjection(S, T)
  <2>1. Cardinality(S) = Cardinality(T)
    <3> HIDE DEF S, T
    <3> QED BY <1>4 DEF c
  <2> HIDE DEF f, S, T, c
  <2>2. Cardinality(S) = Cardinality(T) <=> f \in Surjection(S, T)
    BY <1>3, <1>4, FS_Injection
  <2> QED BY <2>1, <2>2
<1>6. k \in T
  BY <1>1
<1>7. PICK q \in S : f[q] = k
  <2> HIDE DEF f, S, T
  <2> QED BY <1>5, <1>6 DEF Surjection
<1>8. Place(m, b, k) = q
  BY <1>7, PlaceIs
<1> QED BY <1>7, <1>8

-----------------------------------------------------------------------------
(* What a register is shuffled to.                                          *)
LEMMA SplitShapes ==
  /\ Half \in Nat /\ Half > 0 /\ Lanes \in Nat /\ Lanes = 2 * Half /\ None = 2 * Lanes
  /\ SetGroups \in Nat /\ SetGroups >= 2 /\ Set \in Nat /\ Set = SetGroups * Lanes /\ Set > Lanes
<1>1. Half \in Nat /\ Half > 0 /\ Lanes \in Nat /\ Lanes = 2 * Half /\ Lanes > 0 /\ None = 2 * Lanes
  BY HalfAssumption DEF Lanes, None
<1>2. SetGroups \in Nat /\ SetGroups >= 2
  BY SplitAssumption
<1>3. \A g, l \in Nat : g >= 2 /\ l > 0 => g * l \in Nat /\ g * l > l
  OBVIOUS
<1> QED BY <1>1, <1>2, <1>3 DEF Set

\* In w ranks from s on, each has fewer of its side before it than there are.
LEMMA RankBelow ==
  ASSUME NEW s \in Nat, NEW w \in Nat, NEW p \in 0 .. w - 1
  PROVE  /\ RightsIn(s, p) \in Nat /\ RightsIn(s, p) <= p
         /\ RightsIn(s, w) \in Nat /\ RightsIn(s, w) <= w
         /\ SplitBit(s + p) = 0 => p - RightsIn(s, p) < w - RightsIn(s, w)
         /\ SplitBit(s + p) = 1 => RightsIn(s, p) < RightsIn(s, w)
<1> DEFINE x == s + p
           r == w - (p + 1)
<1>1. p \in Nat /\ x \in Nat /\ r \in Nat /\ (p + 1) + r = w /\ s + (p + 1) \in Nat
  OBVIOUS
<1> HIDE DEF r
<1>2. RightsIn(s, (p + 1) + r) = RightsIn(s, p + 1) + RightsIn(s + (p + 1), r)
  BY <1>1, RightsJoin
<1>3. RightsIn(s, p + 1) = RightsIn(s, p) + RightsIn(x, 1)
  BY <1>1, RightsJoin
<1> HIDE DEF x
<1>4. RightsIn(x, 1) = IF SplitBit(x) = 1 THEN 1 ELSE 0
  BY <1>1, RightsOne
<1>5. /\ RightsIn(s, p) \in Nat /\ RightsIn(s, p) <= p /\ RightsIn(s, w) \in Nat /\ RightsIn(s, w) <= w
      /\ RightsIn(s + (p + 1), r) \in Nat /\ RightsIn(s + (p + 1), r) <= r
  BY <1>1, RightsBounds
<1>6. RightsIn(s, w) = RightsIn(s, p) + RightsIn(x, 1) + RightsIn(s + (p + 1), r)
  BY <1>1, <1>2, <1>3, <1>4, <1>5
<1>7. SplitBit(x) = 1 => RightsIn(s, p) < RightsIn(s, w)
  BY <1>4, <1>5, <1>6
<1>8. SplitBit(x) = 0 => p - RightsIn(s, p) < w - RightsIn(s, w)
  <2>1. SUFFICES ASSUME SplitBit(x) = 0 PROVE p - RightsIn(s, p) < w - RightsIn(s, w)
    OBVIOUS
  <2>2. RightsIn(s, w) = RightsIn(s, p) + RightsIn(s + (p + 1), r)
    BY <1>4, <1>5, <1>6, <2>1
  <2> QED BY <1>1, <1>5, <2>2
<1> QED BY <1>5, <1>7, <1>8 DEF x

\* A mask byte of a row of consecutive ranks.
LEMMA MaskShows ==
  ASSUME NEW s \in Nat, NEW w \in Nat, NEW from \in Nat, from + Half <= w,
         NEW row, row = [k \in 0 .. w - 1 |-> s + k], NEW t, t = s + from
  PROVE  Shows(MaskOf(row, from), t, Half)
<1>1. \A k \in 0 .. Half - 1 : from + k \in 0 .. w - 1 /\ s + (from + k) = t + k
  BY SplitShapes
<1>2. \A k \in 0 .. Half - 1 : row[from + k] = t + k
  BY <1>1
<1> QED BY <1>2 DEF MaskOf, Shows

\* The places of a mask that shows ranks.
LEMMA ShownPlaces ==
  ASSUME NEW s \in Nat, NEW w \in Nat, NEW m, Shows(m, s, w), NEW p \in 0 .. w - 1
  PROVE  /\ SplitBit(s + p) = 0 => Place(m, 0, p - RightsIn(s, p)) = p
         /\ SplitBit(s + p) = 1 => Place(m, 1, RightsIn(s, p)) = p
<1>1. DOMAIN m = 0 .. w - 1 /\ m[p] = SplitBit(s + p) /\ p \in 0 .. w
  BY DEF Shows
<1>2. CountOf(m, 1, p) = RightsIn(s, p) /\ CountOf(m, 0, p) = p - RightsIn(s, p)
  BY <1>1, ShownCounts
<1> QED BY <1>1, <1>2, PlaceIs

\* Each place of such a mask is found.
LEMMA ShownThere ==
  ASSUME NEW s \in Nat, NEW w \in Nat, NEW m, Shows(m, s, w), NEW k \in Nat
  PROVE  /\ k < w - Pop(m) => Place(m, 0, k) \in 0 .. w - 1
         /\ k < Pop(m) => Place(m, 1, k) \in 0 .. w - 1
<1>1. DOMAIN m = 0 .. w - 1 /\ w \in 0 .. w
  BY DEF Shows
<1>2. CountOf(m, 1, w) = Pop(m) /\ CountOf(m, 0, w) = w - Pop(m)
  BY <1>1, ShownCounts
<1> QED BY <1>1, <1>2, PlaceThere

\* The rows of the two tables, a byte's ranks at a time: where each goes, and nothing elsewhere.
LEMMA TabALanes ==
  ASSUME NEW s \in Nat, NEW m, Shows(m, s, Half)
  PROVE  /\ \A k \in 0 .. Lanes - 1 : TabA(m)[k] \in 0 .. Half - 1
         /\ \A k \in Half - Pop(m) .. Lanes - Pop(m) - 1 : TabA(m)[k] = 0
         /\ \A p \in 0 .. Half - 1 :
              /\ SplitBit(s + p) = 0 => TabA(m)[p - RightsIn(s, p)] = p
              /\ SplitBit(s + p) = 1 => TabA(m)[Lanes - 1 - RightsIn(s, p)] = p
<1> DEFINE P == Pop(m)
<1>1. Half \in Nat /\ Half > 0 /\ Lanes \in Nat /\ Lanes = 2 * Half
  BY SplitShapes
<1>2. P = RightsIn(s, Half) /\ P \in Nat /\ P <= Half
  <2>1. 0 \in 0 .. Half
    BY <1>1
  <2> QED BY <1>1, <2>1, ShownCounts, RightsBounds
<1>3. \A k \in 0 .. Lanes - 1 :
        TabA(m)[k] = IF k < Half - P THEN Place(m, 0, k)
                     ELSE IF k >= Lanes - P THEN Place(m, 1, Lanes - 1 - k) ELSE 0
  BY DEF TabA
<1>4. \A k \in Nat : /\ k < Half - P => Place(m, 0, k) \in 0 .. Half - 1
                     /\ k < P => Place(m, 1, k) \in 0 .. Half - 1
  BY <1>1, ShownThere
<1> HIDE DEF P
<1>5. ASSUME NEW k \in 0 .. Lanes - 1 PROVE TabA(m)[k] \in 0 .. Half - 1
  <2>1. CASE k < Half - P
    BY <1>3, <1>4, <2>1
  <2>2. CASE k >= Lanes - P
    <3>1. ~(k < Half - P) /\ Lanes - 1 - k \in Nat /\ Lanes - 1 - k < P
      BY <1>1, <1>2, <2>2
    <3> QED BY <1>3, <1>4, <2>2, <3>1
  <2>3. CASE ~(k < Half - P) /\ ~(k >= Lanes - P)
    BY <1>1, <1>3, <2>3
  <2> QED BY <2>1, <2>2, <2>3
<1>6. ASSUME NEW k \in Half - P .. Lanes - P - 1 PROVE TabA(m)[k] = 0
  <2>1. k \in 0 .. Lanes - 1 /\ ~(k < Half - P) /\ ~(k >= Lanes - P)
    BY <1>1, <1>2
  <2> QED BY <1>3, <2>1
<1>7. ASSUME NEW p \in 0 .. Half - 1
      PROVE  /\ SplitBit(s + p) = 0 => TabA(m)[p - RightsIn(s, p)] = p
             /\ SplitBit(s + p) = 1 => TabA(m)[Lanes - 1 - RightsIn(s, p)] = p
  <2>1. /\ RightsIn(s, p) \in Nat /\ RightsIn(s, p) <= p /\ p \in Nat
        /\ SplitBit(s + p) = 0 => p - RightsIn(s, p) < Half - P
        /\ SplitBit(s + p) = 1 => RightsIn(s, p) < P
    BY <1>1, <1>2, RankBelow
  <2>2. /\ SplitBit(s + p) = 0 => Place(m, 0, p - RightsIn(s, p)) = p
        /\ SplitBit(s + p) = 1 => Place(m, 1, RightsIn(s, p)) = p
    BY <1>1, ShownPlaces
  <2> DEFINE c == RightsIn(s, p)
  <2> HIDE DEF c
  <2>3. CASE SplitBit(s + p) = 0
    <3>1. p - c \in 0 .. Lanes - 1 /\ p - c < Half - P
      BY <1>1, <1>2, <2>1, <2>3 DEF c
    <3> QED BY <1>3, <2>2, <2>3, <3>1 DEF c
  <2>4. CASE SplitBit(s + p) = 1
    <3>1. /\ Lanes - 1 - c \in 0 .. Lanes - 1 /\ ~(Lanes - 1 - c < Half - P) /\ Lanes - 1 - c >= Lanes - P
          /\ Lanes - 1 - (Lanes - 1 - c) = c
      BY <1>1, <1>2, <2>1, <2>4 DEF c
    <3>2. TabA(m)[Lanes - 1 - c] = Place(m, 1, Lanes - 1 - (Lanes - 1 - c))
      BY <1>3, <3>1
    <3> QED BY <2>2, <2>4, <3>1, <3>2 DEF c
  <2> QED BY <2>3, <2>4
<1> QED BY <1>5, <1>6, <1>7 DEF P

\* The lanes of the other table, before it is shifted.
LEMMA TabBLanes ==
  ASSUME NEW s \in Nat, NEW m, Shows(m, s, Half)
  PROVE  /\ \A k \in 0 .. 2 * Lanes - 1 : TabB0(m)[k] \in 0 .. Lanes - 1
         /\ \A k \in 0 .. 2 * Lanes - 1 : k < Half \/ k >= Lanes => TabB0(m)[k] = 0
         /\ \A p \in 0 .. Half - 1 :
              /\ SplitBit(s + p) = 0 => TabB0(m)[Half + (p - RightsIn(s, p))] = Half + p
              /\ SplitBit(s + p) = 1 => TabB0(m)[Lanes - 1 - RightsIn(s, p)] = Half + p
<1> DEFINE P == Pop(m)
<1>1. Half \in Nat /\ Half > 0 /\ Lanes \in Nat /\ Lanes = 2 * Half
  BY SplitShapes
<1>2. P = RightsIn(s, Half) /\ P \in Nat /\ P <= Half
  <2>1. 0 \in 0 .. Half
    BY <1>1
  <2> QED BY <1>1, <2>1, ShownCounts, RightsBounds
<1>3. \A k \in 0 .. 2 * Lanes - 1 :
        TabB0(m)[k] = IF k \in Half .. Lanes - P - 1 THEN Half + Place(m, 0, k - Half)
                      ELSE IF k \in Lanes - P .. Lanes - 1 THEN Half + Place(m, 1, Lanes - 1 - k) ELSE 0
  BY DEF TabB0
<1>4. \A k \in Nat : /\ k < Half - P => Place(m, 0, k) \in 0 .. Half - 1
                     /\ k < P => Place(m, 1, k) \in 0 .. Half - 1
  BY <1>1, ShownThere
<1> HIDE DEF P
<1>5. ASSUME NEW k \in 0 .. 2 * Lanes - 1 PROVE TabB0(m)[k] \in 0 .. Lanes - 1
  <2>1. CASE k \in Half .. Lanes - P - 1
    <3>1. k - Half \in Nat /\ k - Half < Half - P
      BY <1>1, <1>2, <2>1
    <3>2. Place(m, 0, k - Half) \in 0 .. Half - 1 /\ TabB0(m)[k] = Half + Place(m, 0, k - Half)
      BY <1>3, <1>4, <2>1, <3>1
    <3> QED BY <1>1, <3>2
  <2>2. CASE k \in Lanes - P .. Lanes - 1
    <3>1. k \notin Half .. Lanes - P - 1 /\ Lanes - 1 - k \in Nat /\ Lanes - 1 - k < P
      BY <1>1, <1>2, <2>2
    <3>2. Place(m, 1, Lanes - 1 - k) \in 0 .. Half - 1 /\ TabB0(m)[k] = Half + Place(m, 1, Lanes - 1 - k)
      BY <1>3, <1>4, <2>2, <3>1
    <3> QED BY <1>1, <3>2
  <2>3. CASE k \notin Half .. Lanes - P - 1 /\ k \notin Lanes - P .. Lanes - 1
    BY <1>1, <1>3, <2>3
  <2> QED BY <2>1, <2>2, <2>3
<1>6. ASSUME NEW k \in 0 .. 2 * Lanes - 1, k < Half \/ k >= Lanes PROVE TabB0(m)[k] = 0
  <2>1. k \notin Half .. Lanes - P - 1 /\ k \notin Lanes - P .. Lanes - 1
    BY <1>1, <1>2, <1>6
  <2> QED BY <1>3, <2>1
<1>7. ASSUME NEW p \in 0 .. Half - 1
      PROVE  /\ SplitBit(s + p) = 0 => TabB0(m)[Half + (p - RightsIn(s, p))] = Half + p
             /\ SplitBit(s + p) = 1 => TabB0(m)[Lanes - 1 - RightsIn(s, p)] = Half + p
  <2>1. /\ RightsIn(s, p) \in Nat /\ RightsIn(s, p) <= p /\ p \in Nat
        /\ SplitBit(s + p) = 0 => p - RightsIn(s, p) < Half - P
        /\ SplitBit(s + p) = 1 => RightsIn(s, p) < P
    BY <1>1, <1>2, RankBelow
  <2>2. /\ SplitBit(s + p) = 0 => Place(m, 0, p - RightsIn(s, p)) = p
        /\ SplitBit(s + p) = 1 => Place(m, 1, RightsIn(s, p)) = p
    BY <1>1, ShownPlaces
  <2> DEFINE c == RightsIn(s, p)
  <2> HIDE DEF c
  <2>3. CASE SplitBit(s + p) = 0
    <3> DEFINE k == Half + (p - c)
    <3>1. k \in 0 .. 2 * Lanes - 1 /\ k \in Half .. Lanes - P - 1 /\ k - Half = p - c
      BY <1>1, <1>2, <2>1, <2>3 DEF c
    <3> HIDE DEF k
    <3>2. TabB0(m)[k] = Half + Place(m, 0, p - c)
      BY <1>3, <3>1
    <3> QED BY <2>2, <2>3, <3>2 DEF c, k
  <2>4. CASE SplitBit(s + p) = 1
    <3> DEFINE k == Lanes - 1 - c
    <3>1. /\ k \in 0 .. 2 * Lanes - 1 /\ k \notin Half .. Lanes - P - 1 /\ k \in Lanes - P .. Lanes - 1
          /\ Lanes - 1 - k = c
      BY <1>1, <1>2, <2>1, <2>4 DEF c
    <3> HIDE DEF k
    <3>2. TabB0(m)[k] = Half + Place(m, 1, c)
      BY <1>3, <3>1
    <3> QED BY <2>2, <2>4, <3>2 DEF c, k
  <2> QED BY <2>3, <2>4
<1> QED BY <1>5, <1>6, <1>7 DEF P

\* What a row of w lanes stored for the w ranks from s on is to hold: the lefts, or the
\* rights, in their order at its front, and anything of the row behind them.
LeftPacked(r, s, w) ==
  \A p \in 0 .. w - 1 : SplitBit(s + p) = 0 => r[p - RightsIn(s, p)] = s + p
RightPacked(r, s, w) ==
  \A p \in 0 .. w - 1 : SplitBit(s + p) = 1 => r[RightsIn(s, p)] = s + p
FromRow(r, s, w) ==
  \A k \in 0 .. w - 1 : r[k] = NoRank \/ r[k] \in s .. s + w - 1

\* The two-byte shuffle of the full partitions.
LEMMA CombPacks ==
  ASSUME NEW s \in Nat, NEW row, row = [k \in 0 .. Lanes - 1 |-> s + k]
  PROVE  /\ LeftPacked(Comb(row), s, Lanes) /\ FromRow(Comb(row), s, Lanes)
         /\ RightPacked(Reversed(Comb(row)), s, Lanes) /\ FromRow(Reversed(Comb(row)), s, Lanes)
<1> DEFINE m0 == MaskOf(row, 0)
           m1 == MaskOf(row, Half)
           t == s + Half
           P == Pop(m0)
           A(k) == TabA(m0)[k]
           B(k) == TabB0(m1)[k + P]
<1>1. Half \in Nat /\ Half > 0 /\ Lanes \in Nat /\ Lanes = 2 * Half /\ t \in Nat /\ t = s + Half
  BY SplitShapes
<1>2. Shows(m0, s, Half) /\ Shows(m1, t, Half)
  <2>1. 0 + Half <= Lanes /\ Half + Half <= Lanes /\ s = s + 0 /\ 0 \in Nat
    BY <1>1
  <2>2. Shows(MaskOf(row, 0), s, Half)
    BY <1>1, <2>1, MaskShows
  <2>3. Shows(MaskOf(row, Half), s + Half, Half)
    BY <1>1, <2>1, MaskShows
  <2> QED BY <2>2, <2>3
<1>4. \A k \in 0 .. Lanes - 1 : Comb(row)[k] = row[(A(k) + B(k)) % Lanes]
  BY DEF Comb, TabB
<1> HIDE DEF m0, m1, P, t
<1>3. P = RightsIn(s, Half) /\ P \in Nat /\ P <= Half
  <2>1. Half \in 0 .. Half
    BY <1>1
  <2>2. Pop(m0) = RightsIn(s, Half)
    BY <1>1, <1>2, <2>1, ShownCounts
  <2> QED BY <1>1, <2>2, RightsBounds DEF P
<1>5. /\ \A k \in 0 .. Lanes - 1 : A(k) \in 0 .. Half - 1
      /\ \A k \in Half - P .. Lanes - P - 1 : A(k) = 0
      /\ \A p \in 0 .. Half - 1 :
           /\ SplitBit(s + p) = 0 => A(p - RightsIn(s, p)) = p
           /\ SplitBit(s + p) = 1 => A(Lanes - 1 - RightsIn(s, p)) = p
  BY <1>2, TabALanes DEF P
<1>6. /\ \A k \in 0 .. Lanes - 1 : B(k) \in 0 .. Lanes - 1
      /\ \A k \in 0 .. Lanes - 1 : k + P < Half \/ k + P >= Lanes => B(k) = 0
      /\ \A q \in 0 .. Half - 1, k \in 0 .. Lanes - 1 :
           /\ SplitBit(t + q) = 0 /\ k + P = Half + (q - RightsIn(t, q)) => B(k) = Half + q
           /\ SplitBit(t + q) = 1 /\ k + P = Lanes - 1 - RightsIn(t, q) => B(k) = Half + q
  <2>1. /\ \A k \in 0 .. 2 * Lanes - 1 : TabB0(m1)[k] \in 0 .. Lanes - 1
        /\ \A k \in 0 .. 2 * Lanes - 1 : k < Half \/ k >= Lanes => TabB0(m1)[k] = 0
        /\ \A q \in 0 .. Half - 1 :
             /\ SplitBit(t + q) = 0 => TabB0(m1)[Half + (q - RightsIn(t, q))] = Half + q
             /\ SplitBit(t + q) = 1 => TabB0(m1)[Lanes - 1 - RightsIn(t, q)] = Half + q
    BY <1>1, <1>2, TabBLanes
  <2>2. \A k \in 0 .. Lanes - 1 : k + P \in 0 .. 2 * Lanes - 1
    BY <1>1, <1>3
  <2>3. /\ \A k \in 0 .. Lanes - 1 : B(k) \in 0 .. Lanes - 1
        /\ \A k \in 0 .. Lanes - 1 : k + P < Half \/ k + P >= Lanes => B(k) = 0
    BY <2>1, <2>2
  <2>4. SUFFICES ASSUME NEW q \in 0 .. Half - 1, NEW k \in 0 .. Lanes - 1
                 PROVE  /\ SplitBit(t + q) = 0 /\ k + P = Half + (q - RightsIn(t, q)) => B(k) = Half + q
                        /\ SplitBit(t + q) = 1 /\ k + P = Lanes - 1 - RightsIn(t, q) => B(k) = Half + q
    BY <2>3
  <2> QED BY <2>1
<1> HIDE DEF A, B
\* A lane of either half that one row names and the other does not.
<1>7. ASSUME NEW k \in 0 .. Lanes - 1, NEW p \in 0 .. Lanes - 1, A(k) + B(k) = p
      PROVE  Comb(row)[k] = s + p
  <2>1. p % Lanes = p
    BY <1>1
  <2>2. Comb(row)[k] = row[p]
    BY <1>4, <1>7, <2>1
  <2> QED BY <2>2
<1>8. ASSUME NEW p \in 0 .. Half - 1
      PROVE  /\ SplitBit(s + p) = 0 => Comb(row)[p - RightsIn(s, p)] = s + p
             /\ SplitBit(s + p) = 1 => Comb(row)[Lanes - 1 - RightsIn(s, p)] = s + p
  <2>1. /\ RightsIn(s, p) \in Nat /\ RightsIn(s, p) <= p
        /\ SplitBit(s + p) = 0 => p - RightsIn(s, p) < Half - P
        /\ SplitBit(s + p) = 1 => RightsIn(s, p) < P
    BY <1>1, <1>3, RankBelow
  <2>2. p \in 0 .. Lanes - 1 /\ p + 0 = p
    BY <1>1
  <2>3. ASSUME SplitBit(s + p) = 0 PROVE Comb(row)[p - RightsIn(s, p)] = s + p
    <3>1. PICK k \in 0 .. Lanes - 1 : k = p - RightsIn(s, p) /\ k + P < Half
      BY <1>1, <1>3, <2>1, <2>3, SMTT(30)
    <3>2. A(k) = p /\ B(k) = 0
      BY <1>5, <1>6, <2>3, <3>1
    <3> QED BY <1>7, <2>2, <3>1, <3>2
  <2>4. ASSUME SplitBit(s + p) = 1 PROVE Comb(row)[Lanes - 1 - RightsIn(s, p)] = s + p
    <3>0. Lanes - 1 - RightsIn(s, p) \in 0 .. Lanes - 1 /\ Lanes - 1 - RightsIn(s, p) + P >= Lanes
      BY <1>1, <1>3, <2>1, <2>4
    <3>1. PICK k \in 0 .. Lanes - 1 : k = Lanes - 1 - RightsIn(s, p) /\ k + P >= Lanes
      BY <3>0
    <3>2. A(k) = p /\ B(k) = 0
      BY <1>5, <1>6, <2>4, <3>1
    <3> QED BY <1>7, <2>2, <3>1, <3>2
  <2> QED BY <2>3, <2>4
<1>9. ASSUME NEW q \in 0 .. Half - 1
      PROVE  /\ SplitBit(t + q) = 0 => Comb(row)[Half - P + (q - RightsIn(t, q))] = s + (Half + q)
             /\ SplitBit(t + q) = 1 => Comb(row)[Lanes - 1 - (P + RightsIn(t, q))] = s + (Half + q)
  <2>1. /\ RightsIn(t, q) \in Nat /\ RightsIn(t, q) <= q
        /\ RightsIn(t, Half) \in Nat /\ RightsIn(t, Half) <= Half
        /\ SplitBit(t + q) = 0 => q - RightsIn(t, q) < Half - RightsIn(t, Half)
        /\ SplitBit(t + q) = 1 => RightsIn(t, q) < RightsIn(t, Half)
    BY <1>1, RankBelow
  <2>2. Half + q \in 0 .. Lanes - 1 /\ 0 + (Half + q) = Half + q
    BY <1>1
  <2>3. ASSUME SplitBit(t + q) = 0
        PROVE  Comb(row)[Half - P + (q - RightsIn(t, q))] = s + (Half + q)
    <3>0. PICK k \in 0 .. Lanes - 1 : k = Half - P + (q - RightsIn(t, q))
      <4>1. Half - P + (q - RightsIn(t, q)) \in 0 .. Lanes - 1
        BY <1>1, <1>3, <2>1, <2>3, SMTT(30)
      <4> QED BY <4>1
    <3>1. /\ k = Half - P + (q - RightsIn(t, q)) /\ k + P = Half + (q - RightsIn(t, q))
          /\ k \in Half - P .. Lanes - P - 1
      <4> DEFINE x == q - RightsIn(t, q)
      <4>1. x \in 0 .. Half - 1
        BY <1>1, <2>1
      <4>2. k = Half - P + x
        BY <3>0
      <4> HIDE DEF x
      <4>3. k + P = Half + x
        BY <1>1, <1>3, <4>1, <4>2
      <4>4. k \in Half - P .. Lanes - P - 1
        <5>1. k + P >= Half /\ k + P <= Lanes - 1
          BY <1>1, <1>3, <4>1, <4>3
        <5> QED BY <1>1, <1>3, <5>1
      <4> QED BY <3>0, <4>3, <4>4 DEF x
    <3>2. A(k) = 0 /\ B(k) = Half + q
      BY <1>5, <1>6, <2>3, <3>1
    <3> QED BY <1>7, <2>2, <3>1, <3>2
  <2>4. ASSUME SplitBit(t + q) = 1
        PROVE  Comb(row)[Lanes - 1 - (P + RightsIn(t, q))] = s + (Half + q)
    <3>0. PICK k \in 0 .. Lanes - 1 : k = Lanes - 1 - (P + RightsIn(t, q))
      <4>1. Lanes - 1 - (P + RightsIn(t, q)) \in 0 .. Lanes - 1
        BY <1>1, <1>3, <2>1, <2>4
      <4> QED BY <4>1
    <3>1. /\ k = Lanes - 1 - (P + RightsIn(t, q)) /\ k + P = Lanes - 1 - RightsIn(t, q)
          /\ k \in Half - P .. Lanes - P - 1
      <4> DEFINE x == RightsIn(t, q)
      <4>1. x \in 0 .. Half - 1
        BY <1>1, <2>1, <2>4
      <4>2. k = Lanes - 1 - (P + x)
        BY <3>0
      <4> HIDE DEF x
      <4>3. k + P = Lanes - 1 - x
        BY <1>1, <1>3, <4>1, <4>2
      <4>4. k \in Half - P .. Lanes - P - 1
        <5>1. k + P >= Half /\ k + P <= Lanes - 1
          BY <1>1, <1>3, <4>1, <4>3
        <5> QED BY <1>1, <1>3, <5>1
      <4> QED BY <3>0, <4>3, <4>4 DEF x
    <3>2. A(k) = 0 /\ B(k) = Half + q
      BY <1>5, <1>6, <2>4, <3>1
    <3> QED BY <1>7, <2>2, <3>1, <3>2
  <2> QED BY <2>3, <2>4
<1>11. ASSUME NEW p \in 0 .. Lanes - 1
       PROVE  /\ SplitBit(s + p) = 0 => Comb(row)[p - RightsIn(s, p)] = s + p
              /\ SplitBit(s + p) = 1 => Comb(row)[Lanes - 1 - RightsIn(s, p)] = s + p
  <2>1. CASE p < Half
    <3>1. p \in 0 .. Half - 1
      BY <1>1, <2>1
    <3> QED BY <1>8, <3>1
  <2>2. CASE p >= Half
    <3>1. PICK q \in 0 .. Half - 1 : p = Half + q /\ t + q = s + p
      <4>1. p - Half \in 0 .. Half - 1 /\ p = Half + (p - Half) /\ t + (p - Half) = s + p
        BY <1>1, <2>2
      <4> QED BY <4>1
    <3>0. q \in Nat
      BY <1>1
    <3>2. RightsIn(s, p) = RightsIn(s, Half) + RightsIn(t, q)
      BY <1>1, <3>0, <3>1, RightsJoin
    <3>3. RightsIn(t, q) \in Nat
      BY <1>1, <3>0, RightsBounds
    <3>4. RightsIn(s, p) = P + RightsIn(t, q) /\ p - RightsIn(s, p) = Half - P + (q - RightsIn(t, q))
      BY <1>1, <1>3, <3>0, <3>1, <3>2, <3>3
    <3> QED BY <1>9, <3>1, <3>4
  <2> QED BY <1>1, <2>1, <2>2
<1>12. FromRow(Comb(row), s, Lanes)
  <2>1. SUFFICES ASSUME NEW k \in 0 .. Lanes - 1 PROVE Comb(row)[k] \in s .. s + Lanes - 1
    BY DEF FromRow
  <2>2. PICK x \in 0 .. Lanes - 1 : x = (A(k) + B(k)) % Lanes
    <3>1. A(k) \in 0 .. Half - 1 /\ B(k) \in 0 .. Lanes - 1
      BY <1>5, <1>6
    <3>2. (A(k) + B(k)) % Lanes \in 0 .. Lanes - 1
      BY <1>1, <3>1
    <3> QED BY <3>2
  <2>3. Comb(row)[k] = s + x
    BY <1>4, <2>2
  <2> QED BY <1>1, <2>3
<1>13. \A k \in 0 .. Lanes - 1 :
         Lanes - 1 - k \in 0 .. Lanes - 1 /\ Reversed(Comb(row))[k] = Comb(row)[Lanes - 1 - k]
  BY <1>1 DEF Reversed
<1>14. LeftPacked(Comb(row), s, Lanes)
  BY <1>11 DEF LeftPacked
<1>15. RightPacked(Reversed(Comb(row)), s, Lanes)
  <2>1. SUFFICES ASSUME NEW p \in 0 .. Lanes - 1, SplitBit(s + p) = 1
                 PROVE  Reversed(Comb(row))[RightsIn(s, p)] = s + p
    BY DEF RightPacked
  <2>2. RightsIn(s, p) \in Nat /\ RightsIn(s, p) <= p
    BY <1>1, RankBelow
  <2>3. RightsIn(s, p) \in 0 .. Lanes - 1
    BY <1>1, <2>2
  <2> QED BY <1>11, <1>13, <2>1, <2>3
<1>16. FromRow(Reversed(Comb(row)), s, Lanes)
  BY <1>12, <1>13 DEF FromRow
<1> QED BY <1>12, <1>14, <1>15, <1>16

\* The packing of the rights alone.
LEMMA PackedRPacks ==
  ASSUME NEW s \in Nat, NEW w \in Nat, w = IF backend = "neon" THEN Half ELSE Lanes,
         NEW row, row = [k \in 0 .. w - 1 |-> s + k]
  PROVE  RightPacked(PackedR(row), s, w) /\ FromRow(PackedR(row), s, w)
<1> DEFINE m0 == MaskOf(row, 0)
           m1 == MaskOf(row, Half)
           t == s + Half
           P == Pop(m0)
           Q == Pop(m1)
<1>1. Half \in Nat /\ Half > 0 /\ Lanes \in Nat /\ Lanes = 2 * Half /\ None = 2 * Lanes
  BY SplitShapes
<1>2. Shows(m0, s, Half) /\ P = RightsIn(s, Half) /\ P \in Nat /\ P <= Half
  <2>1. 0 + Half <= w /\ s = s + 0 /\ 0 \in Nat /\ Half \in 0 .. Half
    BY <1>1
  <2>2. Shows(MaskOf(row, 0), s, Half)
    BY <1>1, <2>1, MaskShows
  <2> HIDE DEF m0
  <2>3. Pop(m0) = RightsIn(s, Half)
    BY <1>1, <2>1, <2>2, ShownCounts DEF m0
  <2>4. RightsIn(s, Half) \in Nat /\ RightsIn(s, Half) <= Half
    BY <1>1, RightsBounds
  <2> QED BY <2>2, <2>3, <2>4 DEF m0
<1>3. \A k \in 0 .. Lanes - 1 : CtabR(m0)[k] = IF k < P THEN Place(m0, 1, k) ELSE None
  BY DEF CtabR
<1> HIDE DEF m0
<1>4. \A k \in Nat : k < P => Place(m0, 1, k) \in 0 .. Half - 1
  BY <1>1, <1>2, ShownThere
<1>5. \A p \in 0 .. Half - 1 : SplitBit(s + p) = 1 =>
        RightsIn(s, p) \in Nat /\ RightsIn(s, p) < P /\ Place(m0, 1, RightsIn(s, p)) = p
  <2> HIDE DEF P
  <2>1. SUFFICES ASSUME NEW p \in 0 .. Half - 1, SplitBit(s + p) = 1
                 PROVE  RightsIn(s, p) \in Nat /\ RightsIn(s, p) < P /\ Place(m0, 1, RightsIn(s, p)) = p
    OBVIOUS
  <2>2. RightsIn(s, p) \in Nat /\ RightsIn(s, p) < P
    BY <1>1, <1>2, <2>1, RankBelow
  <2>3. Place(m0, 1, RightsIn(s, p)) = p
    BY <1>1, <1>2, <2>1, ShownPlaces
  <2> QED BY <2>2, <2>3
<1> HIDE DEF m0, P
<1>6. CASE backend = "neon"
  <2>1. PackedR(row) = Shuffled(row, CtabR(m0), Half)
    BY <1>6 DEF PackedR, m0
  <2>2. \A k \in 0 .. Half - 1 :
          PackedR(row)[k] = IF k < P THEN IF Place(m0, 1, k) = None THEN NoRank ELSE row[Place(m0, 1, k)] ELSE NoRank
    <3>1. SUFFICES ASSUME NEW k \in 0 .. Half - 1
                   PROVE  PackedR(row)[k] = IF k < P THEN IF Place(m0, 1, k) = None THEN NoRank
                                                          ELSE row[Place(m0, 1, k)]
                                            ELSE NoRank
      OBVIOUS
    <3>2. CtabR(m0)[k] = IF k < P THEN Place(m0, 1, k) ELSE None
      BY <1>1, <1>3
    <3>3. PackedR(row)[k] = IF CtabR(m0)[k] = None THEN NoRank ELSE row[CtabR(m0)[k]]
      BY <2>1 DEF Shuffled
    <3>4. CASE k < P
      BY <3>2, <3>3, <3>4
    <3>5. CASE ~(k < P)
      BY <3>2, <3>3, <3>5
    <3> QED BY <3>4, <3>5
  <2>3. \A k \in 0 .. Half - 1 :
          /\ k < P => /\ Place(m0, 1, k) \in 0 .. Half - 1
                      /\ PackedR(row)[k] = s + Place(m0, 1, k)
          /\ ~(k < P) => PackedR(row)[k] = NoRank
    <3>1. SUFFICES ASSUME NEW k \in 0 .. Half - 1
                   PROVE  /\ k < P => /\ Place(m0, 1, k) \in 0 .. Half - 1
                                      /\ PackedR(row)[k] = s + Place(m0, 1, k)
                          /\ ~(k < P) => PackedR(row)[k] = NoRank
      OBVIOUS
    <3>2. k < P => /\ Place(m0, 1, k) \in 0 .. Half - 1 /\ Place(m0, 1, k) # None
                   /\ Place(m0, 1, k) \in 0 .. w - 1
      BY <1>1, <1>4, <1>6
    <3> QED BY <2>2, <3>2
  <2>4. RightPacked(PackedR(row), s, w)
    <3>1. SUFFICES ASSUME NEW p \in 0 .. Half - 1, SplitBit(s + p) = 1
                   PROVE  PackedR(row)[RightsIn(s, p)] = s + p
      BY <1>6 DEF RightPacked
    <3>2. RightsIn(s, p) \in 0 .. Half - 1 /\ RightsIn(s, p) < P /\ Place(m0, 1, RightsIn(s, p)) = p
      BY <1>1, <1>2, <1>5, <3>1
    <3> QED BY <2>3, <3>2
  <2>5. FromRow(PackedR(row), s, w)
    <3>1. SUFFICES ASSUME NEW k \in 0 .. Half - 1
                   PROVE  PackedR(row)[k] = NoRank \/ PackedR(row)[k] \in s .. s + Half - 1
      BY <1>6 DEF FromRow
    <3>2. CASE k < P
      <4>1. PICK x \in 0 .. Half - 1 : PackedR(row)[k] = s + x
        BY <2>3, <3>2
      <4> QED BY <1>1, <4>1
    <3> QED BY <2>3, <3>2
  <2> QED BY <2>4, <2>5
<1>7. CASE backend # "neon"
  <2> DEFINE pre == PreR(P, m1)
             idx == [k \in 0 .. Lanes - 1 |-> Lower(CtabR(m0)[k], pre[k])]
  <2>1. /\ t \in Nat /\ Shows(m1, t, Half) /\ Q = RightsIn(t, Half) /\ Q \in Nat /\ Q <= Half
        /\ w = Lanes
    <3>1. Half + Half <= w /\ w = Lanes /\ Half \in 0 .. Half /\ s + Half \in Nat
      BY <1>1, <1>7
    <3>2. Shows(MaskOf(row, Half), s + Half, Half)
      BY <1>1, <3>1, MaskShows
    <3> HIDE DEF m1, t
    <3>3. Pop(m1) = RightsIn(t, Half)
      BY <1>1, <3>1, <3>2, ShownCounts DEF m1, t
    <3>4. RightsIn(t, Half) \in Nat /\ RightsIn(t, Half) <= Half
      BY <1>1, <3>1, RightsBounds DEF t
    <3> QED BY <3>1, <3>2, <3>3, <3>4 DEF m1, t
  <2>2. \A k \in 0 .. Lanes - 1 : pre[k] = IF k \in P .. P + Q - 1 THEN Half + Place(m1, 1, k - P) ELSE None
    BY DEF PreR
  <2>3. \A k \in Nat : k < Q => Place(m1, 1, k) \in 0 .. Half - 1
    BY <1>1, <2>1, ShownThere
  <2>4. \A q \in 0 .. Half - 1 : SplitBit(t + q) = 1 =>
          RightsIn(t, q) \in Nat /\ RightsIn(t, q) < Q /\ Place(m1, 1, RightsIn(t, q)) = q
    <3> HIDE DEF m1, t, Q
    <3>1. SUFFICES ASSUME NEW q \in 0 .. Half - 1, SplitBit(t + q) = 1
                   PROVE  RightsIn(t, q) \in Nat /\ RightsIn(t, q) < Q /\ Place(m1, 1, RightsIn(t, q)) = q
      OBVIOUS
    <3>2. RightsIn(t, q) \in Nat /\ RightsIn(t, q) < Q
      BY <1>1, <2>1, <3>1, RankBelow
    <3>3. Place(m1, 1, RightsIn(t, q)) = q
      BY <1>1, <2>1, <3>1, ShownPlaces
    <3> QED BY <3>2, <3>3
  <2>5. PackedR(row) = Shuffled(row, idx, Lanes)
    BY <1>7 DEF PackedR, m0, P
  <2> HIDE DEF m1, Q, t, pre
  <2>6. \A k \in 0 .. Lanes - 1 :
          /\ k < P => idx[k] = Place(m0, 1, k) /\ idx[k] \in 0 .. Half - 1
          /\ k \in P .. P + Q - 1 => idx[k] = Half + Place(m1, 1, k - P) /\ idx[k] \in Half .. Lanes - 1
          /\ k >= P + Q => idx[k] = None
    <3>1. SUFFICES ASSUME NEW k \in 0 .. Lanes - 1
                   PROVE  /\ k < P => idx[k] = Place(m0, 1, k) /\ idx[k] \in 0 .. Half - 1
                          /\ k \in P .. P + Q - 1 => idx[k] = Half + Place(m1, 1, k - P) /\ idx[k] \in Half .. Lanes - 1
                          /\ k >= P + Q => idx[k] = None
      OBVIOUS
    <3>2. idx[k] = IF CtabR(m0)[k] < pre[k] THEN CtabR(m0)[k] ELSE pre[k]
      BY DEF Lower
    <3> HIDE DEF idx
    <3>3. CASE k < P
      <4>1. CtabR(m0)[k] = Place(m0, 1, k) /\ Place(m0, 1, k) \in 0 .. Half - 1 /\ pre[k] = None /\ ~(k >= P + Q)
        BY <1>1, <1>2, <1>3, <1>4, <2>1, <2>2, <3>3
      <4> DEFINE x == CtabR(m0)[k]
      <4>2. x \in 0 .. Half - 1 /\ idx[k] = IF x < pre[k] THEN x ELSE pre[k]
        BY <3>2, <4>1
      <4> HIDE DEF x
      <4>3. x < pre[k]
        BY <1>1, <4>1, <4>2
      <4>4. ~(k \in P .. P + Q - 1)
        BY <1>2, <2>1, <3>3
      <4>5. idx[k] = x
        BY <4>2, <4>3
      <4> QED BY <4>1, <4>2, <4>4, <4>5 DEF x
    <3>4. CASE k \in P .. P + Q - 1
      <4>1. k - P \in Nat /\ k - P < Q /\ ~(k < P) /\ ~(k >= P + Q)
        BY <1>2, <2>1, <3>4
      <4>2. CtabR(m0)[k] = None /\ pre[k] = Half + Place(m1, 1, k - P) /\ Place(m1, 1, k - P) \in 0 .. Half - 1
        BY <1>3, <2>2, <2>3, <3>4, <4>1
      <4> DEFINE x == pre[k]
      <4>3. x \in Half .. Lanes - 1
        BY <1>1, <4>2
      <4>4. idx[k] = IF None < x THEN None ELSE x
        BY <3>2, <4>2
      <4>5. ~(None < x)
        <5> HIDE DEF x
        <5> QED BY <1>1, <4>3
      <4> QED BY <4>1, <4>2, <4>3, <4>4, <4>5
    <3>5. CASE k >= P + Q
      <4>1. ~(k < P) /\ k \notin P .. P + Q - 1
        BY <1>2, <2>1, <3>5
      <4>2. CtabR(m0)[k] = None /\ pre[k] = None
        BY <1>3, <2>2, <4>1
      <4> QED BY <1>1, <3>2, <4>1, <4>2
    <3> QED BY <1>2, <2>1, <3>3, <3>4, <3>5
  <2>7. \A k \in 0 .. Lanes - 1 : PackedR(row)[k] = IF idx[k] = None THEN NoRank ELSE row[idx[k]]
    <3> HIDE DEF idx
    <3> QED BY <2>5 DEF Shuffled
  <2> HIDE DEF idx
  <2>8. \A k \in 0 .. Lanes - 1 :
          /\ k < P + Q => idx[k] \in 0 .. Lanes - 1 /\ PackedR(row)[k] = s + idx[k]
          /\ k >= P + Q => PackedR(row)[k] = NoRank
    <3>1. SUFFICES ASSUME NEW k \in 0 .. Lanes - 1
                   PROVE  /\ k < P + Q => idx[k] \in 0 .. Lanes - 1 /\ PackedR(row)[k] = s + idx[k]
                          /\ k >= P + Q => PackedR(row)[k] = NoRank
      OBVIOUS
    <3>2. k < P + Q => idx[k] \in 0 .. Lanes - 1 /\ idx[k] # None
      <4>1. ASSUME k < P + Q PROVE idx[k] \in 0 .. Lanes - 1
        <5>1. CASE k < P
          BY <1>1, <2>6, <5>1
        <5>2. CASE k \in P .. P + Q - 1
          BY <1>1, <2>6, <5>2
        <5> QED BY <1>2, <2>1, <4>1, <5>1, <5>2
      <4>2. None \notin 0 .. Lanes - 1
        BY <1>1
      <4> QED BY <4>1, <4>2
    <3> QED BY <2>1, <2>6, <2>7, <3>2
  <2>9. RightPacked(PackedR(row), s, w)
    <3>1. SUFFICES ASSUME NEW p \in 0 .. Lanes - 1, SplitBit(s + p) = 1
                   PROVE  PackedR(row)[RightsIn(s, p)] = s + p
      BY <2>1 DEF RightPacked
    <3>2. CASE p < Half
      <4>1. p \in 0 .. Half - 1
        BY <1>1, <3>2
      <4>2. /\ RightsIn(s, p) \in 0 .. Lanes - 1 /\ RightsIn(s, p) < P /\ RightsIn(s, p) < P + Q
            /\ Place(m0, 1, RightsIn(s, p)) = p
        BY <1>1, <1>2, <1>5, <2>1, <3>1, <4>1
      <4> QED BY <2>6, <2>8, <4>2
    <3>3. CASE p >= Half
      <4> DEFINE q == p - Half
      <4>1. q \in 0 .. Half - 1 /\ Half + q = p /\ t + q = s + p
        BY <1>1, <3>3 DEF t
      <4> HIDE DEF q
      <4>2. RightsIn(s, Half + q) = RightsIn(s, Half) + RightsIn(t, q)
        BY <1>1, <4>1, RightsJoin DEF t
      <4>3. RightsIn(t, q) \in Nat /\ RightsIn(t, q) < Q /\ Place(m1, 1, RightsIn(t, q)) = q
        BY <2>4, <3>1, <4>1
      <4> DEFINE k == RightsIn(s, p)
      <4>4. k = P + RightsIn(t, q)
        BY <1>2, <4>1, <4>2
      <4> HIDE DEF k
      <4> DEFINE z == RightsIn(t, q)
      <4>5. k \in 0 .. Lanes - 1 /\ k \in P .. P + Q - 1 /\ k < P + Q /\ k - P = RightsIn(t, q)
        <5>1. z \in Nat /\ z < Q /\ k = P + z
          BY <4>3, <4>4
        <5> HIDE DEF z
        <5>2. k \in 0 .. Lanes - 1 /\ k \in P .. P + Q - 1 /\ k < P + Q /\ k - P = z
          <6>1. P \in Nat /\ P <= Half /\ Q \in Nat /\ Q <= Half /\ Half \in Nat
            BY <1>1, <1>2, <2>1
          <6>2. k \in Nat /\ k >= P /\ k < P + Q /\ k - P = z /\ P + Q <= 2 * Half
            BY <5>1, <6>1
          <6> QED BY <1>1, <5>1, <6>1, <6>2
        <5> QED BY <5>2 DEF z
      <4>6. idx[k] = Half + q
        BY <2>6, <4>3, <4>5
      <4>7. PackedR(row)[k] = s + p
        BY <2>8, <4>1, <4>5, <4>6
      <4> QED BY <4>7 DEF k
    <3> QED BY <1>1, <3>2, <3>3
  <2>10. FromRow(PackedR(row), s, w)
    <3>1. SUFFICES ASSUME NEW k \in 0 .. Lanes - 1
                   PROVE  PackedR(row)[k] = NoRank \/ PackedR(row)[k] \in s .. s + Lanes - 1
      BY <2>1 DEF FromRow
    <3>2. CASE k < P + Q
      <4>1. PICK x \in 0 .. Lanes - 1 : PackedR(row)[k] = s + x
        BY <2>8, <3>2
      <4> QED BY <1>1, <4>1
    <3>3. CASE k >= P + Q
      BY <2>8, <3>3
    <3> QED BY <1>1, <1>2, <2>1, <3>2, <3>3
  <2> QED BY <2>9, <2>10
<1> QED BY <1>6, <1>7
\* The compressing store of AVX-512.
LEMMA CompressedPacks ==
  ASSUME NEW s \in Nat, NEW row, row = [k \in 0 .. Set - 1 |-> s + k]
  PROVE  /\ LeftPacked(Compressed(row, 0), s, Set) /\ FromRow(Compressed(row, 0), s, Set)
         /\ RightPacked(Compressed(row, 1), s, Set) /\ FromRow(Compressed(row, 1), s, Set)
<1> DEFINE m == [k \in 0 .. Set - 1 |-> SplitBit(row[k])]
<1>1. Set \in Nat /\ Set \in 0 .. Set
  BY SplitShapes
<1>2. Shows(m, s, Set)
  BY DEF Shows
<1>3. \A b \in {0, 1} : \A k \in 0 .. Set - 1 :
        Compressed(row, b)[k] = IF k < CountOf(m, b, Set) THEN row[Place(m, b, k)] ELSE row[k]
  <2>1. SUFFICES ASSUME NEW b \in {0, 1}, NEW k \in 0 .. Set - 1
                 PROVE  Compressed(row, b)[k] = IF k < CountOf(m, b, Set) THEN row[Place(m, b, k)] ELSE row[k]
    OBVIOUS
  <2>2. {p \in DOMAIN m : m[p] = b} = {q \in 0 .. Set - 1 : m[q] = b}
    OBVIOUS
  <2>3. Compressed(row, b)[k] =
          IF k < Cardinality({p \in DOMAIN m : m[p] = b}) THEN row[Place(m, b, k)] ELSE row[k]
    BY DEF Compressed
  <2> QED BY <2>2, <2>3 DEF CountOf
<1> HIDE DEF m
<1>4. \A b \in {0, 1} : \A k \in Nat : k < CountOf(m, b, Set) => Place(m, b, k) \in 0 .. Set - 1
  BY <1>1, <1>2, PlaceThere DEF Shows
<1>5. ASSUME NEW b \in {0, 1} PROVE FromRow(Compressed(row, b), s, Set)
  <2>1. SUFFICES ASSUME NEW k \in 0 .. Set - 1 PROVE Compressed(row, b)[k] \in s .. s + Set - 1
    BY DEF FromRow
  <2>2. PICK x \in 0 .. Set - 1 : Compressed(row, b)[k] = row[x]
    <3>1. CASE k < CountOf(m, b, Set)
      <4>1. Place(m, b, k) \in 0 .. Set - 1 /\ Compressed(row, b)[k] = row[Place(m, b, k)]
        <5>1. k \in Nat
          BY <1>1
        <5>2. Place(m, b, k) \in 0 .. Set - 1
          BY <1>4, <3>1, <5>1
        <5> QED BY <1>3, <3>1, <5>2
      <4> QED BY <4>1
    <3>2. CASE ~(k < CountOf(m, b, Set))
      BY <1>3, <3>2
    <3> QED BY <3>1, <3>2
  <2>3. Compressed(row, b)[k] = s + x
    BY <2>2
  <2> QED BY <1>1, <2>3
<1>6. CountOf(m, 0, Set) = Set - RightsIn(s, Set) /\ CountOf(m, 1, Set) = RightsIn(s, Set)
  BY <1>1, <1>2, ShownCounts
<1>7. LeftPacked(Compressed(row, 0), s, Set)
  <2>1. SUFFICES ASSUME NEW p \in 0 .. Set - 1, SplitBit(s + p) = 0
                 PROVE  Compressed(row, 0)[p - RightsIn(s, p)] = s + p
    BY DEF LeftPacked
  <2> DEFINE k == p - RightsIn(s, p)
  <2>2. k \in 0 .. Set - 1 /\ k < CountOf(m, 0, Set)
    <3>1. RightsIn(s, p) \in Nat /\ RightsIn(s, p) <= p /\ k < Set - RightsIn(s, Set)
      BY <1>1, <2>1, RankBelow
    <3> QED BY <1>1, <1>6, <3>1
  <2>3. Place(m, 0, k) = p
    BY <1>1, <1>2, <2>1, ShownPlaces
  <2> HIDE DEF k
  <2>4. Compressed(row, 0)[k] = s + p
    BY <1>3, <2>2, <2>3
  <2> QED BY <2>4 DEF k
<1>8. RightPacked(Compressed(row, 1), s, Set)
  <2>1. SUFFICES ASSUME NEW p \in 0 .. Set - 1, SplitBit(s + p) = 1
                 PROVE  Compressed(row, 1)[RightsIn(s, p)] = s + p
    BY DEF RightPacked
  <2> DEFINE k == RightsIn(s, p)
  <2>2. k \in 0 .. Set - 1 /\ k < CountOf(m, 1, Set)
    <3>1. RightsIn(s, p) \in Nat /\ RightsIn(s, p) <= p /\ k < RightsIn(s, Set)
      BY <1>1, <2>1, RankBelow
    <3> QED BY <1>1, <1>6, <3>1
  <2>3. Place(m, 1, k) = p
    BY <1>1, <1>2, <2>1, ShownPlaces
  <2> HIDE DEF k
  <2>4. Compressed(row, 1)[k] = s + p
    BY <1>3, <2>2, <2>3
  <2> QED BY <2>4 DEF k
<1> QED BY <1>5, <1>7, <1>8

\* How many of the p ranks from s on go to side b, and a row that has side b packed.
Nth(s, p, b) == IF b = 1 THEN RightsIn(s, p) ELSE p - RightsIn(s, p)
PacksSide(r, s, w, b) == \A p \in 0 .. w - 1 : SplitBit(s + p) = b => r[Nth(s, p, b)] = s + p

\* Nth is within its run, joins over runs, and grows past a rank of its side.
LEMMA NthBounds ==
  ASSUME NEW b \in {0, 1}, NEW s \in Nat, NEW p \in Nat
  PROVE  Nth(s, p, b) \in Nat /\ Nth(s, p, b) <= p
<1>1. RightsIn(s, p) \in Nat /\ RightsIn(s, p) <= p
  BY RightsBounds
<1> QED BY <1>1 DEF Nth

LEMMA NthJoins ==
  ASSUME NEW b \in {0, 1}, NEW s \in Nat, NEW v \in Nat, NEW w \in Nat
  PROVE  Nth(s, v + w, b) = Nth(s, v, b) + Nth(s + v, w, b)
<1>1. RightsIn(s, v + w) = RightsIn(s, v) + RightsIn(s + v, w)
  BY RightsJoin
<1>2. RightsIn(s, v) \in Nat /\ RightsIn(s + v, w) \in Nat
  BY RightsBounds, s + v \in Nat
<1> QED BY <1>1, <1>2 DEF Nth

LEMMA NthBelow ==
  ASSUME NEW b \in {0, 1}, NEW s \in Nat, NEW w \in Nat, NEW p \in 0 .. w - 1, SplitBit(s + p) = b
  PROVE  Nth(s, p, b) < Nth(s, w, b)
BY RankBelow DEF Nth

\* Every row of every kernel.
LEMMA RowsPack ==
  ASSUME backend \in Backends, form \in Forms,
         NEW s \in Nat, NEW row, row = [k \in 0 .. ChunkLanes - 1 |-> s + k]
  PROVE  /\ form = "full" => PacksSide(LeftRow(row), s, ChunkLanes, 0) /\ FromRow(LeftRow(row), s, ChunkLanes)
         /\ PacksSide(RightRow(row), s, ChunkLanes, 1) /\ FromRow(RightRow(row), s, ChunkLanes)
<1>1. \A r, w : /\ LeftPacked(r, s, w) => PacksSide(r, s, w, 0)
                /\ RightPacked(r, s, w) => PacksSide(r, s, w, 1)
  BY DEF LeftPacked, RightPacked, PacksSide, Nth
<1>2. CASE backend = "avx512"
  <2>1. ChunkLanes = Set /\ LeftRow(row) = Compressed(row, 0) /\ RightRow(row) = Compressed(row, 1)
    BY <1>2 DEF ChunkLanes, LeftRow, RightRow
  <2> QED BY <1>1, <2>1, CompressedPacks
<1>3. CASE backend # "avx512" /\ form = "full"
  <2>1. ChunkLanes = Lanes /\ LeftRow(row) = Comb(row) /\ RightRow(row) = Reversed(Comb(row))
    BY <1>3 DEF ChunkLanes, LeftRow, RightRow
  <2> QED BY <1>1, <2>1, CombPacks
<1>4. CASE backend # "avx512" /\ form # "full"
  <2>1. ChunkLanes = (IF backend = "neon" THEN Half ELSE Lanes) /\ RightRow(row) = PackedR(row)
    BY <1>4 DEF ChunkLanes, RightRow
  <2>2. ChunkLanes \in Nat
    BY <2>1, SplitShapes
  <2>3. RightPacked(PackedR(row), s, ChunkLanes) /\ FromRow(PackedR(row), s, ChunkLanes)
    BY <2>1, <2>2, PackedRPacks
  <2> QED BY <1>1, <1>4, <2>1, <2>3
<1> QED BY <1>2, <1>3, <1>4
-----------------------------------------------------------------------------
(* Stores in turn.                                                          *)

\* Chunks follow one another, each of W cells, and every cell is in one.
LEMMA ChunksInTurn ==
  ASSUME NEW W \in Nat, NEW g \in Nat, NEW h \in Nat, g < h
  PROVE  g * W \in Nat /\ h * W \in Nat /\ g * W + W <= h * W
<1>1. PICK apart \in Nat : h = g + 1 + apart
  <2>1. h - g - 1 \in Nat /\ h = g + 1 + (h - g - 1)
    OBVIOUS
  <2> QED BY <2>1
<1>2. apart * W \in Nat /\ g * W \in Nat
  OBVIOUS
<1>3. h * W = g * W + W + apart * W
  BY <1>1
<1> QED BY <1>2, <1>3

LEMMA ChunkOf ==
  ASSUME NEW W \in Nat \ {0}, NEW C \in Nat, NEW x \in 0 .. C * W - 1
  PROVE  \E g \in 0 .. C - 1, p \in 0 .. W - 1 : x = g * W + p
<1> DEFINE g == x \div W
           p == x % W
<1>1. C * W \in Nat /\ x \in Nat
  OBVIOUS
<1>2. g \in Nat /\ p \in 0 .. W - 1 /\ x = g * W + p
  BY <1>1
<1> HIDE DEF g, p
<1>3. g < C
  <2>1. SUFFICES ASSUME C <= g PROVE FALSE
    BY <1>2
  <2>2. C * W <= g * W
    <3>1. CASE C = g
      BY <1>2, <3>1
    <3>2. CASE C < g
      <4>1. C * W + W <= g * W /\ g * W \in Nat
        BY <1>2, <3>2, ChunksInTurn
      <4> QED BY <1>1, <4>1
    <3> QED BY <1>2, <2>1, <3>1, <3>2
  <2>3. g * W \in Nat
    BY <1>2
  <2> QED BY <1>1, <1>2, <2>2, <2>3
<1>4. g \in 0 .. C - 1
  BY <1>2, <1>3
<1> QED BY <1>2, <1>4

\* A set of chunks that is not empty has a last one.
LEMMA LastChunk ==
  ASSUME NEW C \in Nat, NEW S, S \subseteq 0 .. C - 1, S # {}
  PROVE  \E g \in S : \A h \in S : h <= g
<1> DEFINE T == {x \in Nat : C - 1 - x \in S}
<1>1. PICK e \in S : TRUE
  OBVIOUS
<1>2. C - 1 - e \in Nat /\ C - 1 - (C - 1 - e) = e
  BY <1>1
<1>3. T \subseteq Nat /\ T # {}
  BY <1>2
<1>4. PICK x \in T : \A y \in Nat : <<y, x>> \in OpToRel(<, Nat) => y \notin T
  BY <1>3, NatLessThanWellFounded, WFMin
<1>5. C - 1 - x \in S /\ x \in Nat
  OBVIOUS
<1>6. ASSUME NEW h \in S PROVE h <= C - 1 - x
  <2>1. C - 1 - h \in Nat /\ C - 1 - (C - 1 - h) = h
    OBVIOUS
  <2>2. C - 1 - h \in T
    BY <2>1
  <2>3. ~(C - 1 - h < x)
    BY <1>4, <1>5, <2>1, <2>2 DEF OpToRel
  <2> QED BY <1>5, <2>1, <2>3
<1> QED BY <1>5, <1>6

\* The chunks of C that write cell a.
Over(C, ats, a) == {g \in 0 .. C - 1 : a - ats[g] \in 0 .. ChunkLanes - 1}

\* What cell a holds: the last of them decides.
LastStays(C, buf, rows, ats, new, a) ==
  /\ Over(C, ats, a) = {} => new[a] = buf[a]
  /\ Over(C, ats, a) # {} => \E g \in Over(C, ats, a) : new[a] = rows[g][a - ats[g]]
  /\ \A g \in Over(C, ats, a) : (\A h \in Over(C, ats, a) : h <= g) => new[a] = rows[g][a - ats[g]]

\* A cell that no store covers keeps its value; else the last store has it.
LEMMA ScatteredCells ==
  ASSUME NEW C \in Nat, NEW buf, NEW rows, NEW ats, DOMAIN ats = 0 .. C - 1,
         NEW a \in DOMAIN buf
  PROVE  LastStays(C, buf, rows, ats, Scattered(buf, rows, ats), a)
<1> DEFINE over == Over(C, ats, a)
           last == CHOOSE g \in over : \A h \in over : h <= g
           new == Scattered(buf, rows, ats)
<1>1. new[a] = IF over = {} THEN buf[a] ELSE rows[last][a - ats[last]]
  BY DEF Scattered, Over
<1>2. over \subseteq 0 .. C - 1
  BY DEF Over
<1> HIDE DEF over, new
<1>3. over # {} => last \in over /\ \A h \in over : h <= last
  BY <1>2, LastChunk
<1>4. ASSUME NEW g \in over, \A h \in over : h <= g PROVE last = g
  <2>1. last \in over /\ last <= g /\ g <= last
    BY <1>3, <1>4
  <2> HIDE DEF last
  <2> QED BY <1>2, <2>1
<1> HIDE DEF last
<1> QED BY <1>1, <1>3, <1>4 DEF over, new, LastStays

\* The counts of the ranks before a step and of its own.
LEMMA NthFromStart ==
  ASSUME NEW b \in {0, 1}, NEW s \in Nat, NEW v \in Nat
  PROVE  /\ Nth(0, s + v, b) = Nth(0, s, b) + Nth(s, v, b)
         /\ Nth(0, s, b) \in Nat /\ Nth(0, s, b) <= s
         /\ Nth(s, v, b) \in Nat /\ Nth(s, v, b) <= v
<1>1. 0 + s = s /\ 0 \in Nat
  OBVIOUS
<1>2. Nth(0, s + v, b) = Nth(0, s, b) + Nth(0 + s, v, b)
  BY <1>1, NthJoins, ZenonT(40)
<1> QED BY <1>1, <1>2, NthBounds

LEMMA RightsFromStart ==
  ASSUME NEW s \in Nat, NEW v \in Nat
  PROVE  /\ RightsIn(0, s + v) = RightsIn(0, s) + RightsIn(s, v)
         /\ RightsIn(0, s) \in Nat /\ RightsIn(s, v) \in Nat
<1>1. 0 + s = s /\ 0 \in Nat
  OBVIOUS
<1>2. RightsIn(0, s + v) = RightsIn(0, s) + RightsIn(0 + s, v)
  BY <1>1, RightsJoin
<1> QED BY <1>1, <1>2, RightsBounds

\* Where chunk g of the step at J puts side b.
ChunkAt(g, J, W, b) == Nth(0, J + g * W, b)

\* A chunk starts behind what the steps before it placed and ends within the step.
LEMMA ChunkPlaces ==
  ASSUME NEW b \in {0, 1}, NEW J \in Nat, NEW C \in Nat, NEW W \in Nat \ {0}, NEW g \in 0 .. C - 1
  PROVE  /\ g * W \in Nat /\ J + g * W \in Nat /\ C * W \in Nat /\ g * W + W <= C * W
         /\ ChunkAt(g, J, W, b) \in Nat
         /\ Nth(0, J, b) \in Nat /\ Nth(0, J, b) <= ChunkAt(g, J, W, b)
         /\ ChunkAt(g, J, W, b) + W <= J + C * W
<1>1. g \in Nat /\ g < C
  OBVIOUS
<1>2. g * W \in Nat /\ C * W \in Nat /\ g * W + W <= C * W
  BY <1>1, ChunksInTurn
<1>3. PICK v \in Nat : v = g * W
  BY <1>2
<1>4. PICK y \in Nat : y = C * W
  BY <1>2
<1>5. J + v \in Nat /\ v + W <= y
  BY <1>2, <1>3, <1>4
<1>6. /\ Nth(0, J + v, b) = Nth(0, J, b) + Nth(J, v, b)
      /\ Nth(0, J, b) \in Nat /\ Nth(J, v, b) \in Nat /\ Nth(0, J, b) <= J /\ Nth(J, v, b) <= v
  BY NthFromStart
<1>7. Nth(0, J + v, b) \in Nat /\ Nth(0, J, b) <= Nth(0, J + v, b) /\ Nth(0, J + v, b) + W <= J + y
  BY <1>5, <1>6
<1> QED BY <1>2, <1>3, <1>4, <1>5, <1>6, <1>7 DEF ChunkAt

\* A later chunk starts behind the ranks of an earlier one.
LEMMA ChunkLater ==
  ASSUME NEW b \in {0, 1}, NEW J \in Nat, NEW W \in Nat \ {0},
         NEW g \in Nat, NEW h \in Nat, g < h, NEW p \in 0 .. W - 1, SplitBit(J + g * W + p) = b
  PROVE  Nth(0, J + g * W + p, b) < ChunkAt(h, J, W, b)
<1>1. g * W \in Nat /\ h * W \in Nat /\ g * W + W <= h * W
  BY ChunksInTurn
<1>2. PICK s \in Nat : s = J + g * W
  BY <1>1
<1>3. PICK apart \in Nat : h * W = g * W + W + apart
  <2>1. h * W - (g * W + W) \in Nat /\ h * W = g * W + W + (h * W - (g * W + W))
    BY <1>1
  <2> QED BY <2>1
<1>4. J + h * W = s + (W + apart) /\ W + apart \in Nat /\ p \in 0 .. (W + apart) - 1 /\ p \in Nat
  BY <1>1, <1>2, <1>3
<1>5. Nth(s, p, b) < Nth(s, W + apart, b)
  BY <1>2, <1>4, NthBelow
<1>6. /\ Nth(0, s + p, b) = Nth(0, s, b) + Nth(s, p, b)
      /\ Nth(0, s + (W + apart), b) = Nth(0, s, b) + Nth(s, W + apart, b)
      /\ Nth(0, s, b) \in Nat /\ Nth(s, p, b) \in Nat /\ Nth(s, W + apart, b) \in Nat
  BY <1>4, NthFromStart
<1>7. Nth(0, s + p, b) < Nth(0, s + (W + apart), b)
  BY <1>5, <1>6
<1> QED BY <1>2, <1>4, <1>7 DEF ChunkAt

\* Rows for the chunks of a step, and a buffer with side b of the step's ranks behind what
\* is there of it already.
RowsFit(rows, J, C, W, b) ==
  \A g \in 0 .. C - 1 : PacksSide(rows[g], J + g * W, W, b) /\ FromRow(rows[g], J + g * W, W)
Extended(buf, new, b, J, upto) ==
  /\ DOMAIN new = DOMAIN buf
  /\ \A a \in DOMAIN buf : a < Nth(0, J, b) \/ a >= upto => new[a] = buf[a]
  /\ \A a \in DOMAIN buf : new[a] = buf[a] \/ new[a] = NoRank \/ new[a] \in J .. upto - 1
  /\ \A i \in J .. upto - 1 : SplitBit(i) = b => new[Nth(0, i, b)] = i

\* The chunks of a step put side b behind what is there of it, in order.  Each leaves junk
\* behind its own ranks, which the next covers, and none reaches past the step's ranks.
LEMMA ChunksPack ==
  ASSUME NEW b \in {0, 1}, NEW J \in Nat, NEW C \in Nat, NEW buf, NEW rows, NEW ats,
         NEW W \in Nat \ {0}, W = ChunkLanes,
         ats = [g \in 0 .. C - 1 |-> ChunkAt(g, J, W, b)],
         RowsFit(rows, J, C, W, b),
         DOMAIN buf \subseteq Nat, 0 .. J + C * W - 1 \subseteq DOMAIN buf,
         NEW new, new = Scattered(buf, rows, ats)
  PROVE  Extended(buf, new, b, J, J + C * W)
<1>1. W \in Nat /\ W > 0 /\ DOMAIN ats = 0 .. C - 1
  OBVIOUS
<1>2. ASSUME NEW a \in DOMAIN buf
      PROVE  /\ Over(C, ats, a) = {} => new[a] = buf[a]
             /\ Over(C, ats, a) # {} => \E g \in Over(C, ats, a) : new[a] = rows[g][a - ats[g]]
             /\ \A g \in Over(C, ats, a) : (\A h \in Over(C, ats, a) : h <= g) => new[a] = rows[g][a - ats[g]]
  <2>1. LastStays(C, buf, rows, ats, new, a)
    BY <1>1, ScatteredCells
  <2> QED BY <2>1 DEF LastStays
<1>3. DOMAIN new = DOMAIN buf
  BY DEF Scattered
<1>4. \A g \in 0 .. C - 1 :
        /\ ats[g] \in Nat /\ Nth(0, J, b) <= ats[g] /\ ats[g] + W <= J + C * W
        /\ Nth(0, J, b) \in Nat /\ C * W \in Nat
  BY ChunkPlaces
<1>5. \A a \in DOMAIN buf : \A g \in Over(C, ats, a) : g \in 0 .. C - 1 /\ a - ats[g] \in 0 .. W - 1
  BY DEF Over
<1>6. ASSUME NEW a \in DOMAIN buf, a < Nth(0, J, b) \/ a >= J + C * W
      PROVE  new[a] = buf[a]
  <2>1. ASSUME NEW g \in Over(C, ats, a) PROVE FALSE
    <3>1. a - ats[g] \in 0 .. W - 1 /\ g \in 0 .. C - 1 /\ a \in Nat
      BY <1>5
    <3>2. ats[g] \in Nat /\ Nth(0, J, b) <= ats[g] /\ ats[g] + W <= J + C * W /\ Nth(0, J, b) \in Nat
          /\ C * W \in Nat
      BY <1>4, <3>1
    <3> DEFINE nth == Nth(0, J, b)
               y == C * W
               e == ats[g]
    <3>3. e \in Nat /\ nth <= e /\ e + W <= J + y /\ nth \in Nat /\ y \in Nat /\ a - e \in 0 .. W - 1
          /\ (a < nth \/ a >= J + y)
      BY <1>6, <3>1, <3>2
    <3> HIDE DEF nth, y, e
    <3> QED BY <1>1, <3>1, <3>3
  <2>2. Over(C, ats, a) = {}
    BY <2>1
  <2> QED BY <1>2, <2>2
<1>7. ASSUME NEW a \in DOMAIN buf
      PROVE  new[a] = buf[a] \/ new[a] = NoRank \/ new[a] \in J .. J + C * W - 1
  <2>1. SUFFICES ASSUME Over(C, ats, a) # {}
                 PROVE  new[a] = NoRank \/ new[a] \in J .. J + C * W - 1
    BY <1>2
  <2>2. PICK g \in Over(C, ats, a) : new[a] = rows[g][a - ats[g]]
    BY <1>2, <2>1
  <2>3. g \in 0 .. C - 1 /\ a - ats[g] \in 0 .. W - 1
    BY <1>5
  <2>4. new[a] = NoRank \/ new[a] \in J + g * W .. J + g * W + W - 1
    <3>1. FromRow(rows[g], J + g * W, W)
      BY <2>3 DEF RowsFit
    <3> QED BY <2>2, <2>3, <3>1 DEF FromRow
  <2>5. g * W \in Nat /\ C * W \in Nat /\ g * W + W <= C * W
    BY <2>3, ChunkPlaces
  <2> DEFINE x == g * W
             y == C * W
  <2>6. x \in Nat /\ y \in Nat /\ x + W <= y
    BY <2>5
  <2>7. ASSUME NEW z \in J + x .. J + x + W - 1 PROVE z \in J .. J + y - 1
    <3> HIDE DEF x, y
    <3> QED BY <1>1, <2>6
  <2> QED BY <2>4, <2>7
<1>8. ASSUME NEW i \in J .. J + C * W - 1, SplitBit(i) = b
      PROVE  new[Nth(0, i, b)] = i
  <2>1. C * W \in Nat
    OBVIOUS
  <2>2. PICK y \in Nat : y = C * W
    BY <2>1
  <2>3. i \in Nat /\ i - J \in 0 .. y - 1
    BY <2>2
  <2>4. i - J \in 0 .. C * W - 1
    BY <2>2, <2>3
  <2>5. PICK g \in 0 .. C - 1, p \in 0 .. W - 1 : i - J = g * W + p
    BY <2>4, ChunkOf
  <2>6. g * W \in Nat /\ J + g * W \in Nat
    BY ChunkPlaces
  <2>7. PICK s \in Nat : s = J + g * W
    BY <2>6
  <2>8. i = s + p /\ p \in Nat
    <3>1. PICK x \in Nat : x = g * W
      BY <2>6
    <3>2. i - J = x + p /\ s = J + x
      BY <2>5, <2>7, <3>1
    <3> QED BY <1>1, <2>3, <3>2
  <2>9. PICK a \in Nat : a = Nth(0, i, b) /\ a <= i
    BY <2>3, NthBounds
  <2>10. PICK nth \in 0 .. W - 1 : nth = Nth(s, p, b)
    <3>1. Nth(s, p, b) <= p /\ Nth(s, p, b) \in Nat
      BY <2>8, NthBounds
    <3>2. Nth(s, p, b) \in 0 .. W - 1
      BY <1>1, <2>8, <3>1
    <3> QED BY <3>2
  <2>11. a = ats[g] + nth /\ ats[g] \in Nat
    <3>1. Nth(0, s + p, b) = Nth(0, s, b) + Nth(s, p, b)
      BY <2>8, NthFromStart
    <3>2. ats[g] = Nth(0, s, b)
      BY <2>7 DEF ChunkAt
    <3> QED BY <1>4, <2>8, <2>9, <2>10, <3>1, <3>2
  <2>12. a \in DOMAIN buf
    <3>1. a \in 0 .. J + y - 1
      BY <2>2, <2>9
    <3> QED BY <2>2, <3>1
  <2>13. a - ats[g] = nth
    BY <2>10, <2>11
  <2>14. g \in Over(C, ats, a)
    BY <2>10, <2>13 DEF Over
  <2>15. ASSUME NEW h \in Over(C, ats, a) PROVE h <= g
    <3>1. h \in 0 .. C - 1 /\ a - ats[h] \in 0 .. W - 1
      BY <1>5, <2>12
    <3>2. SUFFICES ASSUME g < h PROVE FALSE
      BY <3>1
    <3>3. SplitBit(J + g * W + p) = b /\ J + g * W + p = i /\ g \in Nat /\ h \in Nat
      BY <1>8, <2>7, <2>8, <3>1
    <3>4. Nth(0, J + g * W + p, b) < ChunkAt(h, J, W, b)
      BY <3>2, <3>3, ChunkLater
    <3>5. a < ats[h] /\ ats[h] \in Nat
      BY <1>4, <2>9, <3>1, <3>3, <3>4
    <3> QED BY <1>1, <2>9, <3>1, <3>5
  <2>16. new[a] = rows[g][nth]
    <3>1. new[a] = rows[g][a - ats[g]]
      BY <1>2, <2>12, <2>14, <2>15
    <3> QED BY <2>13, <3>1
  <2>17. PacksSide(rows[g], s, W, b)
    BY <2>7 DEF RowsFit
  <2>18. rows[g][nth] = s + p
    BY <1>8, <2>8, <2>10, <2>17 DEF PacksSide
  <2> QED BY <2>8, <2>9, <2>16, <2>18
<1> QED BY <1>3, <1>6, <1>7, <1>8 DEF Extended
-----------------------------------------------------------------------------
(* The partition of the encode walk.                                        *)

\* A buffer as large as the node and a set, whose cells behind the node are untouched.
Whole(buf) ==
  /\ DOMAIN buf = 0 .. nRanks - 1 + SplitRoom
  /\ \A a \in DOMAIN buf : /\ buf[a] \in {NoRank} \cup (0 .. nRanks - 1)
                           /\ a >= nRanks => buf[a] = NoRank
\* Of the first ranks those on side b are at the front of buf.
SideFirst(buf, b, upto) == \A i \in 0 .. upto - 1 : SplitBit(i) = b => buf[Nth(0, i, b)] = i
\* From upto on nothing was written.
Beyond(buf, new, upto) == \A a \in DOMAIN buf : a >= upto => new[a] = buf[a]
Ahead == \A i \in j .. nRanks - 1 : ranks[i] = i
SetAhead == regs # <<>> => Pipelined /\ j + Set <= nRanks /\ regs = [k \in 0 .. Set - 1 |-> j + k]
\* The bits of the byte in progress, or of the whole bitmap, not yet given are clear.
Cleared(i) == (\A q \in j .. i : q % Half # 0) \/ (backend = "scalar" /\ j > 0)
BitsSoFar ==
  /\ DOMAIN bm = 0 .. BitmapBytes * Half - 1
  /\ \A i \in 0 .. j - 1 : bm[i] = SplitBit(i)
  /\ \A i \in DOMAIN bm : j <= i /\ Cleared(i) => bm[i] = 0
  /\ (\E w \in SplitWidths : SplitFits(w)) => j % Half = 0

SplitInv ==
  /\ sides \in Seq({0, 1}) /\ backend \in Backends /\ form \in Forms /\ thr \in 0 .. RankMod - 2
  /\ j \in 0 .. nRanks /\ nr = RightsIn(0, j) /\ nl = j - nr
  /\ Whole(ranks) /\ Whole(tmp)
  /\ form # "none" => SideFirst(tmp, 1, j)
  /\ form = "full" => SideFirst(ranks, 0, j)
  /\ Ahead /\ SetAhead /\ BitsSoFar

\* What the routing depends on is fixed once the partition begins.
LEMMA SplitStays ==
  ASSUME UNCHANGED <<backend, sides, thr>>
  PROVE  /\ nRanks' = nRanks /\ BitmapBytes' = BitmapBytes /\ Rights' = Rights
         /\ \A i : SplitBit(i)' = SplitBit(i)
<1>1. nRanks' = nRanks /\ BitmapBytes' = BitmapBytes
  BY DEF nRanks, BitmapBytes
<1>2. \A i : SplitBit(i)' = SplitBit(i)
  BY <1>1 DEF SplitBit, GoesRight, RankOf
<1>3. Rights' = Rights
  BY <1>2 DEF Rights
<1> QED BY <1>1, <1>2, <1>3

\* The number of ranks is a natural number.
LEMMA RanksCount == sides \in Seq({0, 1}) => nRanks \in Nat
BY DEF nRanks

\* The cells of a buffer, those of the first ranks among them.
LEMMA WholeCells ==
  ASSUME nRanks \in Nat, NEW buf, Whole(buf)
  PROVE  /\ DOMAIN buf \subseteq Nat /\ DOMAIN buf = 0 .. nRanks - 1 + SplitRoom
         /\ \A m \in 0 .. nRanks : 0 .. m - 1 \subseteq DOMAIN buf
<1>1. SplitRoom \in Nat
  BY SplitShapes DEF SplitRoom
<1> QED BY <1>1 DEF Whole

\* What the vector stores of a step leave.
LEMMA ChunksFill ==
  ASSUME nRanks \in Nat, NEW b \in {0, 1}, NEW J \in Nat, NEW C \in Nat,
         NEW W \in Nat \ {0}, W = ChunkLanes, NEW buf, NEW rows, NEW ats,
         J + C * W <= nRanks, Whole(buf), SideFirst(buf, b, J),
         ats = [g \in 0 .. C - 1 |-> ChunkAt(g, J, W, b)],
         RowsFit(rows, J, C, W, b),
         NEW new, new = Scattered(buf, rows, ats)
  PROVE  Whole(new) /\ SideFirst(new, b, J + C * W) /\ Beyond(buf, new, J + C * W)
<1>1. PICK m \in Nat : m = J + C * W
  OBVIOUS
<1>2. m \in 0 .. nRanks /\ J <= m
  BY <1>1
<1>3. DOMAIN buf \subseteq Nat /\ DOMAIN buf = 0 .. nRanks - 1 + SplitRoom /\ 0 .. m - 1 \subseteq DOMAIN buf
  BY <1>2, WholeCells
<1>4. /\ DOMAIN new = DOMAIN buf
      /\ \A a \in DOMAIN buf : a < Nth(0, J, b) \/ a >= m => new[a] = buf[a]
      /\ \A a \in DOMAIN buf : new[a] = buf[a] \/ new[a] = NoRank \/ new[a] \in J .. m - 1
      /\ \A i \in J .. m - 1 : SplitBit(i) = b => new[Nth(0, i, b)] = i
  <2>1. 0 .. J + C * W - 1 \subseteq DOMAIN buf
    BY <1>1, <1>3
  <2>2. Extended(buf, new, b, J, J + C * W)
    BY <1>3, <2>1, ChunksPack
  <2> QED BY <1>1, <2>2 DEF Extended
<1>5. Whole(new)
  <2>1. SUFFICES ASSUME NEW a \in DOMAIN buf
                 PROVE  /\ new[a] \in {NoRank} \cup (0 .. nRanks - 1)
                        /\ a >= nRanks => new[a] = NoRank
    BY <1>3, <1>4 DEF Whole
  <2>2. /\ buf[a] \in {NoRank} \cup (0 .. nRanks - 1)
        /\ a >= nRanks => buf[a] = NoRank
    BY DEF Whole
  <2>3. a >= nRanks => a >= m
    BY <1>2, <1>3
  <2>4. \A x \in J .. m - 1 : x \in 0 .. nRanks - 1
    BY <1>2
  <2> QED BY <1>4, <2>2, <2>3, <2>4
<1>6. SideFirst(new, b, m)
  <2>1. SUFFICES ASSUME NEW i \in 0 .. m - 1, SplitBit(i) = b PROVE new[Nth(0, i, b)] = i
    BY DEF SideFirst
  <2>2. CASE i < J
    <3>1. i \in 0 .. J - 1 /\ i \in Nat /\ J \in Nat /\ 0 + i = i
      BY <2>2
    <3>2. buf[Nth(0, i, b)] = i
      BY <2>1, <3>1 DEF SideFirst
    <3>3. SplitBit(0 + i) = b
      BY <2>1, <3>1
    <3>4. Nth(0, i, b) < Nth(0, J, b)
      BY <3>1, <3>3, NthBelow
    <3>5. Nth(0, i, b) \in Nat /\ Nth(0, i, b) <= i
      BY <3>1, NthBounds
    <3>6. Nth(0, i, b) \in DOMAIN buf
      BY <1>2, <1>3, <3>1, <3>5
    <3> QED BY <1>4, <3>2, <3>4, <3>6
  <2>3. CASE i >= J
    BY <1>4, <2>1, <2>3
  <2> QED BY <2>2, <2>3
<1> QED BY <1>1, <1>4, <1>5, <1>6 DEF Beyond

\* What a single store leaves, and what none does.
LEMMA OneFills ==
  ASSUME nRanks \in Nat, NEW b \in {0, 1}, NEW J \in 0 .. nRanks - 1, NEW buf,
         Whole(buf), SideFirst(buf, b, J), SplitBit(J) = b,
         NEW new, new = [buf EXCEPT ![Nth(0, J, b)] = J]
  PROVE  Whole(new) /\ SideFirst(new, b, J + 1) /\ Beyond(buf, new, J + 1)
<1>1. J \in Nat /\ J \in 0 .. nRanks
  OBVIOUS
<1>2. DOMAIN buf \subseteq Nat /\ DOMAIN buf = 0 .. nRanks - 1 + SplitRoom /\ SplitRoom \in Nat
  BY WholeCells, SplitShapes DEF SplitRoom
<1>3. PICK x \in Nat : x = Nth(0, J, b) /\ x <= J
  BY <1>1, NthBounds
<1>4. x \in DOMAIN buf
  BY <1>2, <1>3
<1>5. new[x] = J /\ \A a \in DOMAIN buf : a # x => new[a] = buf[a]
  BY <1>3, <1>4
<1>6. DOMAIN new = DOMAIN buf
  OBVIOUS
<1>7. Whole(new)
  <2>1. SUFFICES ASSUME NEW a \in DOMAIN buf
                 PROVE  /\ new[a] \in {NoRank} \cup (0 .. nRanks - 1)
                        /\ a >= nRanks => new[a] = NoRank
    BY <1>2, <1>6 DEF Whole
  <2>2. /\ buf[a] \in {NoRank} \cup (0 .. nRanks - 1)
        /\ a >= nRanks => buf[a] = NoRank
    BY DEF Whole
  <2>3. CASE a = x
    BY <1>3, <1>5, <2>3
  <2> QED BY <1>5, <2>2, <2>3
<1>8. SideFirst(new, b, J + 1)
  <2>1. SUFFICES ASSUME NEW i \in 0 .. J, SplitBit(i) = b PROVE new[Nth(0, i, b)] = i
    BY DEF SideFirst
  <2>2. CASE i = J
    BY <1>3, <1>5, <2>2
  <2>3. CASE i # J
    <3>1. i \in 0 .. J - 1 /\ i \in Nat /\ 0 + i = i
      BY <2>3
    <3>2. buf[Nth(0, i, b)] = i
      BY <2>1, <3>1 DEF SideFirst
    <3>3. SplitBit(0 + i) = b
      BY <2>1, <3>1
    <3>4. Nth(0, i, b) < x
      BY <1>1, <1>3, <3>1, <3>3, NthBelow
    <3>5. Nth(0, i, b) \in Nat /\ Nth(0, i, b) <= i
      BY <3>1, NthBounds
    <3>6. Nth(0, i, b) \in DOMAIN buf /\ Nth(0, i, b) # x
      BY <1>2, <3>1, <3>4, <3>5
    <3> QED BY <1>5, <3>2, <3>6
  <2> QED BY <2>2, <2>3
<1>9. \A a \in DOMAIN buf : a >= J + 1 => new[a] = buf[a]
  BY <1>2, <1>3, <1>5
<1> QED BY <1>7, <1>8, <1>9 DEF Beyond

\* A rank of the other side leaves the order of this one.
LEMMA NoneFills ==
  ASSUME NEW b, NEW J \in Nat, NEW buf, SideFirst(buf, b, J), SplitBit(J) # b
  PROVE  SideFirst(buf, b, J + 1)
<1>1. \A i \in 0 .. J + 1 - 1 : i \in 0 .. J - 1 \/ i = J
  OBVIOUS
<1> QED BY <1>1 DEF SideFirst

\* A step is made of whole chunks and of whole bytes of the bitmap.
LEMMA DivMod ==
  ASSUME NEW W \in Nat \ {0}, NEW x \in Nat
  PROVE  x \div W \in Nat /\ x % W \in 0 .. W - 1 /\ x = (x \div W) * W + (x % W)
<1> DEFINE e == x \div W
           p == x % W
<1>1. W \in Nat /\ W > 0
  OBVIOUS
<1>2. e \in Nat /\ p \in 0 .. W - 1 /\ x = e * W + p
  BY <1>1
<1> QED BY <1>2

\* A product of a width is divided by it exactly.
LEMMA WholeChunks ==
  ASSUME NEW W \in Nat \ {0}, NEW C \in Nat
  PROVE  (C * W) \div W = C
<1>1. PICK x \in Nat : x = C * W
  OBVIOUS
<1>2. x \div W \in Nat /\ x = (x \div W) * W + (x % W) /\ x % W \in 0 .. W - 1
  BY DivMod
<1>3. PICK e \in Nat : e = x \div W
  BY <1>2
<1>4. ~(e < C)
  <2>1. SUFFICES ASSUME e < C PROVE FALSE
    OBVIOUS
  <2>2. e * W + W <= C * W /\ e * W \in Nat
    BY <2>1, ChunksInTurn
  <2> QED BY <1>1, <1>2, <1>3, <2>2
<1>5. ~(C < e)
  <2>1. SUFFICES ASSUME C < e PROVE FALSE
    OBVIOUS
  <2>2. C * W + W <= e * W /\ e * W \in Nat
    BY <2>1, ChunksInTurn
  <2> QED BY <1>1, <1>2, <1>3, <2>2
<1> QED BY <1>1, <1>3, <1>4, <1>5

\* Every width is whole chunks and whole bytes.
LEMMA StepWidths ==
  ASSUME backend \in Backends, form \in Forms, NEW w \in SplitWidths
  PROVE  /\ w \in Nat \ {0} /\ ChunkLanes \in Nat \ {0}
         /\ w \div ChunkLanes \in Nat /\ w = (w \div ChunkLanes) * ChunkLanes
         /\ \E c \in Nat : w = c * Half
<1>1. /\ Half \in Nat /\ Half > 0 /\ Lanes \in Nat /\ Lanes = 2 * Half
      /\ SetGroups \in Nat /\ SetGroups >= 2 /\ Set \in Nat /\ Set = SetGroups * Lanes /\ Set > Lanes
  BY SplitShapes
<1>2. \E W \in Nat \ {0}, C \in Nat : W = ChunkLanes /\ w = C * W /\ C > 0
  <2>1. CASE backend = "avx512"
    <3>1. ChunkLanes = Set /\ w = Set /\ w = 1 * Set
      BY <1>1, <2>1 DEF ChunkLanes, SplitWidths
    <3> QED BY <1>1, <3>1
  <2>2. CASE backend = "neon" /\ form = "full"
    <3>1. ChunkLanes = Lanes /\ w = SetGroups * Lanes
      BY <1>1, <2>2 DEF ChunkLanes, SplitWidths
    <3>2. Lanes \in Nat \ {0} /\ SetGroups \in Nat /\ SetGroups > 0
      BY <1>1
    <3>3. \E C \in Nat : Lanes = ChunkLanes /\ w = C * Lanes /\ C > 0
      BY <3>1, <3>2
    <3> QED BY <3>2, <3>3
  <2>3. CASE backend = "neon" /\ form # "full"
    <3>1. ChunkLanes = Half /\ (w = Set \/ w = Half)
      BY <1>1, <2>3 DEF ChunkLanes, SplitWidths
    <3>2. Set = (2 * SetGroups) * Half /\ Half = 1 * Half /\ 2 * SetGroups \in Nat
          /\ 2 * SetGroups > 0
      BY <1>1
    <3>3. \E C \in Nat : Half = ChunkLanes /\ w = C * Half /\ C > 0
      <4>1. CASE w = Set
        <5>1. PICK C \in Nat : C = 2 * SetGroups
          BY <3>2
        <5>2. w = C * Half /\ C > 0
          BY <3>2, <4>1, <5>1
        <5> QED BY <3>1, <5>2
      <4>2. CASE w = Half
        <5>1. PICK C \in Nat : C = 1
          OBVIOUS
        <5>2. w = C * Half /\ C > 0
          BY <3>2, <4>2, <5>1
        <5> QED BY <3>1, <5>2
      <4> QED BY <3>1, <4>1, <4>2
    <3> QED BY <1>1, <3>3
  <2>4. CASE backend = "x86"
    <3>1. ChunkLanes = Lanes /\ (w = 2 * Lanes \/ w = Lanes)
      BY <1>1, <2>4 DEF ChunkLanes, SplitWidths
    <3>2. Lanes = 1 * Lanes
      BY <1>1
    <3> QED BY <1>1, <3>1, <3>2
  <2>5. backend # "scalar"
    BY DEF SplitWidths
  <2> QED BY <2>1, <2>2, <2>3, <2>4, <2>5 DEF Backends
<1>3. PICK W \in Nat \ {0}, C \in Nat : W = ChunkLanes /\ w = C * W /\ C > 0
  BY <1>2
<1>4. w \div W = C
  BY <1>3, WholeChunks
<1>5. w \in Nat \ {0}
  <2>1. PICK c \in Nat : C = c + 1
    <3>1. C - 1 \in Nat /\ C = C - 1 + 1
      BY <1>3
    <3> QED BY <3>1
  <2>2. C * W = c * W + W /\ c * W \in Nat
    BY <2>1
  <2> QED BY <1>3, <2>2
<1>6. \E c \in Nat : w = c * Half
  <2>1. w \in {Set, Half, 2 * Lanes, Lanes}
    <3>1. backend \in {"scalar", "neon", "x86", "avx512"}
      BY DEF Backends
    <3> QED BY <3>1 DEF SplitWidths
  <2>2. Set = (2 * SetGroups) * Half /\ Half = 1 * Half /\ 2 * Lanes = 4 * Half /\ Lanes = 2 * Half
    BY <1>1
  <2>3. 2 * SetGroups \in Nat /\ 1 \in Nat /\ 4 \in Nat /\ 2 \in Nat
    BY <1>1
  <2> QED BY <2>1, <2>2, <2>3
<1> QED BY <1>3, <1>4, <1>5, <1>6

\* The count of a step, and of the chunks before one of its chunks.
RightsAmong(cells, v) == Cardinality({k \in 0 .. v - 1 : SplitBit(cells[k]) = 1})

\* The kernel counts in the ranks it loaded what the node counts.
LEMMA LoadedCount ==
  ASSUME NEW s \in Nat, NEW w \in Nat, NEW cells, cells = [k \in 0 .. w - 1 |-> s + k],
         NEW v \in 0 .. w
  PROVE  RightsAmong(cells, v) = RightsIn(s, v) /\ Count(cells) = RightsIn(s, w)
<1> DEFINE m == [k \in 0 .. w - 1 |-> SplitBit(s + k)]
<1>1. Shows(m, s, w)
  BY DEF Shows
<1>2. \A k \in 0 .. w - 1 : m[k] = SplitBit(cells[k])
  OBVIOUS
<1> HIDE DEF m
<1>3. ASSUME NEW x \in 0 .. w
      PROVE  Cardinality({k \in 0 .. x - 1 : SplitBit(cells[k]) = 1}) = RightsIn(s, x)
  <2>1. {k \in 0 .. x - 1 : SplitBit(cells[k]) = 1} = {q \in 0 .. x - 1 : m[q] = 1}
    BY <1>2
  <2>2. CountOf(m, 1, x) = RightsIn(s, x)
    BY <1>1, ShownCounts
  <2> QED BY <2>1, <2>2 DEF CountOf
<1>4. w \in 0 .. w /\ DOMAIN cells = 0 .. w - 1
  OBVIOUS
<1> QED BY <1>3, <1>4 DEF Count, RightsAmong

\* What the chunks of a loaded row are, and where they are stored.
LEMMA ChunkRows ==
  ASSUME backend \in Backends, form \in Forms, NEW J \in Nat, NEW C \in Nat,
         NEW W \in Nat \ {0}, W = ChunkLanes,
         NEW cells, cells = [k \in 0 .. C * W - 1 |-> J + k]
  PROVE  /\ form = "full" => RowsFit([g \in 0 .. C - 1 |-> LeftRow(Part(cells, g))], J, C, W, 0)
         /\ RowsFit([g \in 0 .. C - 1 |-> RightRow(Part(cells, g))], J, C, W, 1)
<1>1. ASSUME NEW g \in 0 .. C - 1
      PROVE  /\ form = "full" => /\ PacksSide(LeftRow(Part(cells, g)), J + g * W, W, 0)
                                 /\ FromRow(LeftRow(Part(cells, g)), J + g * W, W)
             /\ PacksSide(RightRow(Part(cells, g)), J + g * W, W, 1)
             /\ FromRow(RightRow(Part(cells, g)), J + g * W, W)
  <2>1. g * W \in Nat /\ C * W \in Nat /\ g * W + W <= C * W
    BY ChunkPlaces
  <2>2. PICK x \in Nat : x = g * W
    BY <2>1
  <2>3. PICK y \in Nat : y = C * W
    BY <2>1
  <2>4. x + W <= y /\ J + x \in Nat
    BY <2>1, <2>2, <2>3
  <2>5. \A k \in 0 .. W - 1 : x + k \in 0 .. y - 1 /\ J + (x + k) = (J + x) + k
    BY <2>4
  <2>6. \A k \in 0 .. W - 1 : cells[x + k] = (J + x) + k
    BY <2>3, <2>5
  <2>7. Part(cells, g) = [k \in 0 .. ChunkLanes - 1 |-> (J + x) + k]
    BY <2>2, <2>6 DEF Part
  <2>8. /\ form = "full" => /\ PacksSide(LeftRow(Part(cells, g)), J + x, ChunkLanes, 0)
                            /\ FromRow(LeftRow(Part(cells, g)), J + x, ChunkLanes)
        /\ PacksSide(RightRow(Part(cells, g)), J + x, ChunkLanes, 1)
        /\ FromRow(RightRow(Part(cells, g)), J + x, ChunkLanes)
    BY <2>4, <2>7, RowsPack
  <2> QED BY <2>2, <2>8
<1> QED BY <1>1 DEF RowsFit

\* Loaded(cells, s, w): the w ranks from s on.
Loaded(cells, s, w) == cells = [k \in 0 .. w - 1 |-> s + k]

\* Nth spelled out for each side.
LEMMA NthSides ==
  ASSUME NEW s \in Nat, NEW v \in Nat
  PROVE  Nth(s, v, 1) = RightsIn(s, v) /\ Nth(s, v, 0) = v - RightsIn(s, v)
BY DEF Nth

\* The same with the loaded row given by Loaded.
LEMMA LoadedRights ==
  ASSUME NEW s \in Nat, NEW w \in Nat, NEW cells, Loaded(cells, s, w), NEW v \in 0 .. w
  PROVE  RightsAmong(cells, v) = RightsIn(s, v) /\ Count(cells) = RightsIn(s, w)
BY LoadedCount DEF Loaded

\* The cursors and the count so far put a chunk where its side continues.
LEMMA ChunkStarts ==
  ASSUME nl = j - nr, nr = RightsIn(0, j), j \in Nat, NEW C \in Nat,
         NEW W \in Nat \ {0}, W = ChunkLanes,
         NEW cells, Loaded(cells, j, C * W), NEW g \in 0 .. C - 1,
         NEW cr, cr = RightsAmong(cells, g * W)
  PROVE  LeftAt(g, cr) = ChunkAt(g, j, W, 0) /\ RightAt(cr) = ChunkAt(g, j, W, 1)
<1>1. g * W \in Nat /\ C * W \in Nat /\ g * W + W <= C * W
  BY ChunkPlaces
<1>2. PICK x \in Nat : x = g * W
  BY <1>1
<1>3. PICK y \in Nat : y = C * W
  BY <1>1
<1>4. x \in 0 .. y
  BY <1>1, <1>2, <1>3
<1>5. cr = RightsIn(j, x)
  <2>1. Loaded(cells, j, y)
    BY <1>3
  <2>2. RightsAmong(cells, x) = RightsIn(j, x)
    BY <1>4, <2>1, LoadedRights
  <2> QED BY <1>2, <2>2
<1>6. /\ RightsIn(0, j + x) = RightsIn(0, j) + RightsIn(j, x)
      /\ RightsIn(0, j) \in Nat /\ RightsIn(j, x) \in Nat
  BY RightsFromStart
<1>7. LeftAt(g, cr) = (j - nr) + x - cr /\ RightAt(cr) = nr + cr
  BY <1>2 DEF LeftAt, RightAt
<1>8. PICK z \in Nat : z = j + x
  OBVIOUS
<1>9. ChunkAt(g, j, W, 1) = Nth(0, z, 1) /\ ChunkAt(g, j, W, 0) = Nth(0, z, 0)
  BY <1>2, <1>8 DEF ChunkAt
<1>10. Nth(0, z, 1) = RightsIn(0, z) /\ Nth(0, z, 0) = z - RightsIn(0, z)
  BY NthSides
<1>11. PICK r \in Nat, s \in Nat : r = RightsIn(0, j) /\ s = RightsIn(j, x) /\ RightsIn(0, z) = r + s
  BY <1>6, <1>8
<1>12. RightAt(cr) = r + s /\ ChunkAt(g, j, W, 1) = r + s
  BY <1>5, <1>7, <1>9, <1>10, <1>11
<1>13. LeftAt(g, cr) = (j - r) + x - s
  BY <1>5, <1>7, <1>11
<1>14. ChunkAt(g, j, W, 0) = z - (r + s)
  BY <1>9, <1>10, <1>11
<1>15. (j - r) + x - s = z - (r + s)
  BY <1>8, j \in Nat
<1> QED BY <1>12, <1>13, <1>14, <1>15

\* What a step works on, loaded now or a step ahead, is the next ranks.
LEMMA StepLoads ==
  ASSUME SplitInv, NEW w \in SplitWidths, SplitFits(w), Pipelined => regs # <<>>
  PROVE  (IF Pipelined THEN regs ELSE Read(j, w)) = [k \in 0 .. w - 1 |-> j + k]
<1>1. w \in Nat \ {0} /\ nRanks \in Nat /\ j \in Nat /\ j + w <= nRanks
  <2>1. backend \in Backends /\ form \in Forms /\ nRanks \in Nat /\ j \in Nat
    BY RanksCount DEF SplitInv
  <2>2. w \in Nat \ {0}
    BY <2>1, StepWidths
  <2> QED BY <2>1, <2>2 DEF SplitFits
<1>2. CASE Pipelined
  <2>1. w = Set
    BY <1>2 DEF Pipelined, SplitWidths
  <2> QED BY <1>2, <2>1 DEF SplitInv, SetAhead
<1>3. CASE ~Pipelined
  <2>1. \A k \in 0 .. w - 1 : j + k \in j .. nRanks - 1
    BY <1>1
  <2>2. \A k \in 0 .. w - 1 : ranks[j + k] = j + k
    BY <2>1 DEF SplitInv, Ahead
  <2> QED BY <1>3, <2>2 DEF Read
<1> QED BY <1>2, <1>3

\* A vector step on the buffers and the counts.
LEMMA VectorFills ==
  ASSUME SplitInv, NEW w, VectorStep(w)
  PROVE  /\ w \in SplitWidths /\ w \in Nat \ {0} /\ j + w <= nRanks
         /\ form # "none" => Whole(tmp') /\ SideFirst(tmp', 1, j + w)
         /\ form = "none" => tmp' = tmp
         /\ form = "full" => Whole(ranks') /\ SideFirst(ranks', 0, j + w)
         /\ \A i \in j + w .. nRanks - 1 : ranks'[i] = i
         /\ form # "full" => ranks' = ranks
         /\ nr' = RightsIn(0, j + w) /\ nl' = j + w - nr'
         /\ bm' = [i \in DOMAIN bm |-> IF i \in j .. j + w - 1 THEN SplitBit(i) ELSE bm[i]]
         /\ regs' = IF Pipelined /\ j + 2 * Set <= nRanks THEN Read(j + Set, Set) ELSE <<>>
<1> DEFINE cells == IF Pipelined THEN regs ELSE Read(j, w)
           W == ChunkLanes
           C == w \div ChunkLanes
           CrOf(g) == Cardinality({k \in 0 .. g * ChunkLanes - 1 : SplitBit(cells[k]) = 1})
           rowsL == [g \in 0 .. C - 1 |-> LeftRow(Part(cells, g))]
           rowsR == [g \in 0 .. C - 1 |-> RightRow(Part(cells, g))]
           atsL == [g \in 0 .. C - 1 |-> LeftAt(g, CrOf(g))]
           atsR == [g \in 0 .. C - 1 |-> RightAt(CrOf(g))]
<1>1. /\ w \in SplitWidths /\ SplitFits(w) /\ (Pipelined => regs # <<>>)
      /\ regs' = IF Pipelined /\ j + 2 * Set <= nRanks THEN Read(j + Set, Set) ELSE <<>>
      /\ ranks' = IF form # "full" THEN ranks ELSE Scattered(ranks, rowsL, atsL)
      /\ tmp' = IF form = "none" THEN tmp ELSE Scattered(tmp, rowsR, atsR)
      /\ bm' = [i \in DOMAIN bm |-> IF i \in j .. j + w - 1 THEN SplitBit(cells[i - j]) ELSE bm[i]]
      /\ nr' = nr + Count(cells) /\ nl' = nl + w - Count(cells)
  BY DEF VectorStep
<1>2. /\ backend \in Backends /\ form \in Forms /\ nRanks \in Nat /\ j \in Nat
      /\ nr = RightsIn(0, j) /\ nl = j - nr /\ Whole(ranks) /\ Whole(tmp)
      /\ (form # "none" => SideFirst(tmp, 1, j)) /\ (form = "full" => SideFirst(ranks, 0, j))
      /\ Ahead
  BY RanksCount DEF SplitInv
<1>3. /\ w \in Nat \ {0} /\ W \in Nat \ {0} /\ C \in Nat /\ w = C * W /\ j + w <= nRanks
      /\ W = ChunkLanes
  BY <1>1, <1>2, StepWidths DEF SplitFits
<1>4. cells = [k \in 0 .. w - 1 |-> j + k]
  BY <1>1, StepLoads
<1> HIDE DEF W, C
<1>5. /\ form = "full" => RowsFit(rowsL, j, C, W, 0)
      /\ RowsFit(rowsR, j, C, W, 1)
  <2>1. cells = [k \in 0 .. C * W - 1 |-> j + k]
    BY <1>3, <1>4
  <2> HIDE DEF cells
  <2> QED BY <1>2, <1>3, <2>1, ChunkRows
<1>6. \A g \in 0 .. C - 1 : LeftAt(g, CrOf(g)) = ChunkAt(g, j, W, 0) /\ RightAt(CrOf(g)) = ChunkAt(g, j, W, 1)
  <2>1. Loaded(cells, j, C * W)
    BY <1>3, <1>4 DEF Loaded
  <2>2. SUFFICES ASSUME NEW g \in 0 .. C - 1
                 PROVE  LeftAt(g, CrOf(g)) = ChunkAt(g, j, W, 0) /\ RightAt(CrOf(g)) = ChunkAt(g, j, W, 1)
    OBVIOUS
  <2>3. CrOf(g) = RightsAmong(cells, g * W)
    BY <1>3 DEF RightsAmong
  <2> HIDE DEF cells, CrOf
  <2> QED BY <1>2, <1>3, <2>1, <2>3, ChunkStarts
<1>7. /\ atsL = [g \in 0 .. C - 1 |-> ChunkAt(g, j, W, 0)]
      /\ atsR = [g \in 0 .. C - 1 |-> ChunkAt(g, j, W, 1)]
  BY <1>6
<1>8. Count(cells) = RightsIn(j, w)
  <2>1. w \in 0 .. w /\ w \in Nat
    BY <1>3
  <2> HIDE DEF cells
  <2> QED BY <1>2, <1>4, <2>1, LoadedCount
<1>9. \A i \in j .. j + w - 1 : cells[i - j] = i
  <2>1. \A i \in j .. j + w - 1 : i - j \in 0 .. w - 1 /\ j + (i - j) = i
    BY <1>2, <1>3
  <2> QED BY <1>4, <2>1
<1> HIDE DEF cells, CrOf, rowsL, rowsR, atsL, atsR
<1>10. ASSUME form # "none" PROVE Whole(tmp') /\ SideFirst(tmp', 1, j + w)
  <2>1. tmp' = Scattered(tmp, rowsR, atsR) /\ SideFirst(tmp, 1, j) /\ j + C * W <= nRanks
    BY <1>1, <1>2, <1>3, <1>10
  <2>2. Whole(tmp') /\ SideFirst(tmp', 1, j + C * W)
    BY <1>2, <1>3, <1>5, <1>7, <2>1, ChunksFill
  <2> QED BY <1>3, <2>2
<1>11. ASSUME form = "full"
       PROVE  /\ Whole(ranks') /\ SideFirst(ranks', 0, j + w)
              /\ \A a \in DOMAIN ranks : a >= j + w => ranks'[a] = ranks[a]
  <2>1. ranks' = Scattered(ranks, rowsL, atsL) /\ SideFirst(ranks, 0, j) /\ j + C * W <= nRanks
    BY <1>1, <1>2, <1>3, <1>11
  <2>2. Whole(ranks') /\ SideFirst(ranks', 0, j + C * W) /\ Beyond(ranks, ranks', j + C * W)
    BY <1>2, <1>3, <1>5, <1>7, <1>11, <2>1, ChunksFill
  <2> QED BY <1>3, <2>2 DEF Beyond
<1>12. ASSUME NEW i \in j + w .. nRanks - 1 PROVE ranks'[i] = i
  <2>1. i \in j .. nRanks - 1 /\ i >= j + w /\ i \in 0 .. nRanks - 1
    BY <1>2, <1>3
  <2>2. i \in DOMAIN ranks
    BY <1>2, <2>1, SplitShapes DEF Whole, SplitRoom
  <2>3. ranks[i] = i
    BY <1>2, <2>1 DEF Ahead
  <2> QED BY <1>1, <1>11, <2>1, <2>2, <2>3
<1>13. nr' = RightsIn(0, j + w) /\ nl' = j + w - nr'
  <2>3. /\ RightsIn(0, j + w) = RightsIn(0, j) + RightsIn(j, w)
        /\ RightsIn(0, j) \in Nat /\ RightsIn(j, w) \in Nat
    BY <1>2, <1>3, RightsFromStart
  <2>4. nr' = RightsIn(0, j) + RightsIn(j, w) /\ nl' = j - RightsIn(0, j) + w - RightsIn(j, w)
    BY <1>1, <1>2, <1>8
  <2> QED BY <1>2, <1>3, <2>3, <2>4
<1>14. bm' = [i \in DOMAIN bm |-> IF i \in j .. j + w - 1 THEN SplitBit(i) ELSE bm[i]]
  BY <1>1, <1>9
<1> QED BY <1>1, <1>3, <1>10, <1>11, <1>12, <1>13, <1>14

\* What a step owes, the clauses of the bitmap apart.
Moved(u) ==
  /\ j' = j + u /\ nr' = RightsIn(0, j + u) /\ nl' = j + u - nr'
  /\ form # "none" => Whole(tmp') /\ SideFirst(tmp', 1, j + u)
  /\ form = "none" => tmp' = tmp
  /\ form = "full" => Whole(ranks') /\ SideFirst(ranks', 0, j + u)
  /\ form # "full" => ranks' = ranks
  /\ \A i \in j + u .. nRanks - 1 : ranks'[i] = i

\* The tail on the buffers and the counts: one rank, to its side.
LEMMA ScalarFills ==
  ASSUME SplitInv, ScalarStep
  PROVE  Moved(1) /\ j + 1 <= nRanks /\ bm' = TailBits(SplitBit(j) = 1) /\ regs' = regs
<1>1. /\ nRanks \in Nat /\ j \in Nat /\ j < nRanks /\ nr = RightsIn(0, j) /\ nl = j - nr
      /\ Whole(ranks) /\ Whole(tmp)
      /\ (form # "none" => SideFirst(tmp, 1, j)) /\ (form = "full" => SideFirst(ranks, 0, j))
      /\ Ahead
  BY RanksCount DEF SplitInv, ScalarStep
<1>2. j \in j .. nRanks - 1 /\ j \in 0 .. nRanks - 1
  BY <1>1
<1>3. ranks[j] = j
  BY <1>1, <1>2 DEF Ahead
<1>4. /\ bm' = TailBits(SplitBit(j) = 1)
      /\ tmp' = IF SplitBit(j) = 1 /\ form # "none" THEN [tmp EXCEPT ![nr] = j] ELSE tmp
      /\ ranks' = IF ~(SplitBit(j) = 1) /\ form = "full" THEN [ranks EXCEPT ![nl] = j] ELSE ranks
      /\ nr' = nr + (IF SplitBit(j) = 1 THEN 1 ELSE 0)
      /\ nl' = nl + (IF SplitBit(j) = 1 THEN 0 ELSE 1)
      /\ j' = j + 1 /\ regs' = regs
  BY <1>3 DEF ScalarStep
<1>5. SplitBit(j) \in {0, 1}
  BY DEF SplitBit
<1>6. nr = Nth(0, j, 1) /\ nl = Nth(0, j, 0)
  BY <1>1, NthSides
<1>7. 1 \in {0, 1} /\ 0 \in {0, 1}
  OBVIOUS
<1>8. ASSUME form # "none" PROVE Whole(tmp') /\ SideFirst(tmp', 1, j + 1)
  <2>1. CASE SplitBit(j) = 1
    <3>1. tmp' = [tmp EXCEPT ![Nth(0, j, 1)] = j]
      BY <1>4, <1>6, <1>8, <2>1
    <3> QED BY <1>1, <1>2, <1>7, <1>8, <2>1, <3>1, OneFills
  <2>2. CASE SplitBit(j) # 1
    <3>1. tmp' = tmp
      BY <1>4, <2>2
    <3>2. SideFirst(tmp, 1, j + 1)
      BY <1>1, <1>8, <2>2, NoneFills
    <3> QED BY <1>1, <3>1, <3>2
  <2> QED BY <2>1, <2>2
<1>9. ASSUME form = "full"
      PROVE  Whole(ranks') /\ SideFirst(ranks', 0, j + 1) /\ Beyond(ranks, ranks', j + 1)
  <2>1. CASE SplitBit(j) = 0
    <3>1. ranks' = [ranks EXCEPT ![Nth(0, j, 0)] = j]
      BY <1>4, <1>6, <1>9, <2>1
    <3> QED BY <1>1, <1>2, <1>7, <1>9, <2>1, <3>1, OneFills
  <2>2. CASE SplitBit(j) # 0
    <3>1. ranks' = ranks
      BY <1>4, <1>5, <2>2
    <3>2. SideFirst(ranks, 0, j + 1)
      BY <1>1, <1>9, <2>2, NoneFills
    <3> QED BY <1>1, <3>1, <3>2 DEF Beyond
  <2> QED BY <2>1, <2>2
<1>10. form # "full" => ranks' = ranks
  BY <1>4
<1>11. ASSUME NEW i \in j + 1 .. nRanks - 1 PROVE ranks'[i] = i
  <2>1. i \in j .. nRanks - 1 /\ i >= j + 1 /\ i \in 0 .. nRanks - 1
    BY <1>1
  <2>2. i \in DOMAIN ranks
    BY <1>1, <2>1, SplitShapes DEF Whole, SplitRoom
  <2>3. ranks[i] = i
    BY <1>1, <2>1 DEF Ahead
  <2> QED BY <1>9, <1>10, <2>1, <2>2, <2>3 DEF Beyond
<1>12. nr' = RightsIn(0, j + 1) /\ nl' = j + 1 - nr'
  <2>1. /\ RightsIn(0, j) \in Nat /\ RightsIn(0, j + 1) = RightsIn(0, j) + RightsIn(j, 1)
        /\ RightsIn(j, 1) = IF SplitBit(j) = 1 THEN 1 ELSE 0
    BY <1>1, RightsFromStart, RightsOne
  <2> QED BY <1>1, <1>4, <1>5, <2>1
<1>13. form = "none" => tmp' = tmp
  BY <1>4
<1> QED BY <1>1, <1>4, <1>8, <1>9, <1>10, <1>11, <1>12, <1>13 DEF Moved

\* A vector step moves the partition by its width.
LEMMA VectorMoves ==
  ASSUME SplitInv, NEW w, VectorStep(w)
  PROVE  Moved(w)
<1>1. j' = j + w
  BY DEF VectorStep
<1> QED BY <1>1, VectorFills DEF Moved

\* The bitmap is whole bytes, the last one begun by the node's ranks.
LEMMA BitmapRoom ==
  ASSUME nRanks \in Nat
  PROVE  /\ BitmapBytes \in Nat /\ BitmapBytes * Half \in Nat
         /\ nRanks <= BitmapBytes * Half /\ BitmapBytes * Half < nRanks + Half
<1>1. Half \in Nat \ {0} /\ Half \in Nat /\ Half > 0
  BY HalfAssumption
<1>2. PICK x \in Nat : x = nRanks + Half - 1
  BY <1>1
<1>3. x \div Half \in Nat /\ x = (x \div Half) * Half + (x % Half) /\ x % Half \in 0 .. Half - 1
  BY <1>1, DivMod
<1>4. BitmapBytes = x \div Half
  BY <1>2 DEF BitmapBytes
<1>5. PICK e \in Nat : e = x \div Half
  BY <1>3
<1>6. PICK p \in Nat : p = (x % Half) /\ p <= Half - 1
  BY <1>1, <1>3
<1>7. PICK y \in Nat : y = e * Half
  BY <1>1
<1>8. x = y + p
  BY <1>3, <1>5, <1>6, <1>7
<1>9. nRanks <= y /\ y < nRanks + Half
  BY <1>1, <1>2, <1>6, <1>8
<1> QED BY <1>4, <1>5, <1>7, <1>9

\* Multiples of Half are Half apart.
LEMMA WholeBytes ==
  ASSUME NEW q \in Nat
  PROVE  /\ q % Half = 0 <=> \E e \in Nat : q = e * Half
         /\ q % Half = 0 => (q + Half) % Half = 0
         /\ \A c \in Nat : q % Half = 0 => (q + c * Half) % Half = 0
<1>1. Half \in Nat \ {0} /\ Half \in Nat /\ Half > 0
  BY HalfAssumption
<1>2. ASSUME NEW v \in Nat, v % Half = 0 PROVE \E e \in Nat : v = e * Half
  <2>1. v \div Half \in Nat /\ v = (v \div Half) * Half + (v % Half)
    BY <1>1, DivMod
  <2>2. PICK e \in Nat : e = v \div Half
    BY <2>1
  <2>3. PICK y \in Nat : y = e * Half
    BY <1>1
  <2>4. v = y + 0
    BY <1>2, <2>1, <2>2, <2>3
  <2> QED BY <2>3, <2>4
<1>3. ASSUME NEW v \in Nat, NEW e \in Nat, v = e * Half PROVE v % Half = 0
  <2>1. v \div Half = e
    BY <1>1, <1>3, WholeChunks
  <2>2. v = (v \div Half) * Half + (v % Half) /\ v % Half \in 0 .. Half - 1
    BY <1>1, DivMod
  <2>3. PICK r \in Nat : r = (v % Half)
    BY <1>1, <2>2
  <2>4. PICK y \in Nat : y = e * Half
    BY <1>1
  <2>5. v = y + r /\ v = y
    BY <1>3, <2>1, <2>2, <2>3, <2>4
  <2>6. r = 0
    BY <2>5
  <2> QED BY <2>3, <2>6
<1>4. ASSUME NEW c \in Nat, q % Half = 0 PROVE (q + c * Half) % Half = 0
  <2>1. PICK e \in Nat : q = e * Half
    BY <1>2, <1>4
  <2>2. q + c * Half = (e + c) * Half /\ e + c \in Nat /\ q + c * Half \in Nat
    BY <1>1, <2>1
  <2> QED BY <1>3, <2>2
<1>5. q % Half = 0 => (q + Half) % Half = 0
  <2>1. PICK c \in Nat : c = 1
    OBVIOUS
  <2>2. c * Half = Half
    BY <1>1, <2>1
  <2> QED BY <1>4, <2>2
<1> QED BY <1>2, <1>3, <1>4, <1>5

\* A vector step adds whole bytes to the bitmap.
LEMMA VectorBits ==
  ASSUME SplitInv, NEW w, VectorStep(w)
  PROVE  BitsSoFar'
<1>1. UNCHANGED <<backend, sides, thr>> /\ j' = j + w
  BY DEF VectorStep
<1>2. nRanks' = nRanks /\ BitmapBytes' = BitmapBytes /\ \A i : SplitBit(i)' = SplitBit(i)
  BY <1>1, SplitStays
<1>3. /\ w \in SplitWidths /\ w \in Nat \ {0} /\ j + w <= nRanks
      /\ bm' = [i \in DOMAIN bm |-> IF i \in j .. j + w - 1 THEN SplitBit(i) ELSE bm[i]]
  BY VectorFills
<1>4. nRanks \in Nat /\ j \in Nat /\ BitsSoFar /\ backend \in Backends /\ form \in Forms
  BY RanksCount DEF SplitInv
<1>5. BitmapBytes * Half \in Nat /\ nRanks <= BitmapBytes * Half
  BY <1>4, BitmapRoom
<1>6. DOMAIN bm = 0 .. BitmapBytes * Half - 1 /\ DOMAIN bm' = DOMAIN bm
  BY <1>3, <1>4 DEF BitsSoFar
<1>7. \A i \in 0 .. j + w - 1 : i \in DOMAIN bm
  <2>1. PICK y \in Nat : y = BitmapBytes * Half
    BY <1>5
  <2>2. \A i \in 0 .. j + w - 1 : i \in 0 .. y - 1
    BY <1>3, <1>4, <1>5, <2>1
  <2> QED BY <1>6, <2>1, <2>2
<1>8. ASSUME NEW i \in 0 .. j + w - 1 PROVE bm'[i] = SplitBit(i)
  <2>1. CASE i \in j .. j + w - 1
    BY <1>3, <1>7, <2>1
  <2>2. CASE ~(i \in j .. j + w - 1)
    <3>1. i \in 0 .. j - 1
      BY <1>3, <1>4, <2>2
    <3> QED BY <1>3, <1>4, <1>7, <2>2, <3>1 DEF BitsSoFar
  <2> QED BY <2>1, <2>2
<1>9. (j + w) % Half = 0
  <2>1. j % Half = 0
    BY <1>3, <1>4 DEF BitsSoFar, SplitFits
  <2>2. PICK c \in Nat : w = c * Half
    BY <1>3, <1>4, StepWidths
  <2> QED BY <1>4, <2>1, <2>2, WholeBytes
<1>10. ASSUME NEW i \in DOMAIN bm, j + w <= i PROVE ~(\A q \in j + w .. i : q % Half # 0)
  <2>1. j + w \in j + w .. i
    BY <1>3, <1>4, <1>6, <1>10
  <2> QED BY <1>9, <2>1
<1>11. backend # "scalar"
  BY <1>3 DEF SplitWidths
<1>12. (DOMAIN bm = 0 .. BitmapBytes * Half - 1)'
  BY <1>2, <1>6
<1>13. (\A i \in 0 .. j - 1 : bm[i] = SplitBit(i))'
  <2>1. SUFFICES ASSUME NEW i \in 0 .. j' - 1 PROVE bm'[i] = SplitBit(i)'
    OBVIOUS
  <2>2. i \in 0 .. j + w - 1
    BY <1>1, <1>3, <1>4
  <2> QED BY <1>2, <1>8, <2>2
<1>14. (\A i \in DOMAIN bm : j <= i /\ Cleared(i) => bm[i] = 0)'
  BY <1>1, <1>6, <1>10, <1>11 DEF Cleared
<1>15. (j % Half = 0)'
  BY <1>1, <1>9
<1> QED BY <1>12, <1>13, <1>14, <1>15 DEF BitsSoFar

\* The tail adds one bit, to a byte it has cleared.
LEMMA ScalarBits ==
  ASSUME SplitInv, ScalarStep
  PROVE  BitsSoFar'
<1>1. UNCHANGED <<backend, sides, thr, form>> /\ j' = j + 1 /\ \A v \in SplitWidths : ~SplitFits(v)
  BY DEF ScalarStep
<1>2. nRanks' = nRanks /\ BitmapBytes' = BitmapBytes /\ \A i : SplitBit(i)' = SplitBit(i)
  BY <1>1, SplitStays
<1>3. j + 1 <= nRanks /\ bm' = TailBits(SplitBit(j) = 1)
  BY ScalarFills
<1>4. nRanks \in Nat /\ j \in Nat /\ BitsSoFar /\ backend \in Backends /\ form \in Forms
  BY RanksCount DEF SplitInv
<1>5. BitmapBytes * Half \in Nat /\ nRanks <= BitmapBytes * Half /\ Half \in Nat /\ Half > 0
  BY <1>4, BitmapRoom, HalfAssumption
<1>6. DOMAIN bm = 0 .. BitmapBytes * Half - 1 /\ DOMAIN bm' = DOMAIN bm
  BY <1>3, <1>4 DEF BitsSoFar, TailBits
<1>7. \A i \in 0 .. j : i \in DOMAIN bm
  <2>1. PICK y \in Nat : y = BitmapBytes * Half
    BY <1>5
  <2>2. \A i \in 0 .. j : i \in 0 .. y - 1
    BY <1>3, <1>4, <1>5, <2>1
  <2> QED BY <1>6, <2>1, <2>2
<1> DEFINE cleared == IF backend = "scalar" THEN IF j = 0 THEN DOMAIN bm ELSE {}
                      ELSE IF j % Half = 0 THEN j .. j + Half - 1 ELSE {}
           clean == [i \in DOMAIN bm |-> IF i \in cleared THEN 0 ELSE bm[i]]
<1>8. bm' = [clean EXCEPT ![j] = IF SplitBit(j) = 1 THEN 1 ELSE clean[j]]
  BY <1>3 DEF TailBits
<1>9. ASSUME NEW i \in DOMAIN bm, i # j PROVE bm'[i] = IF i \in cleared THEN 0 ELSE bm[i]
  <2>1. bm'[i] = clean[i]
    BY <1>8, <1>9
  <2> QED BY <2>1
<1>10. SplitBit(j) \in {0, 1}
  BY DEF SplitBit
<1>11. bm'[j] = SplitBit(j)
  <2>1. j \in DOMAIN bm
    BY <1>4, <1>7
  <2>2. bm'[j] = IF SplitBit(j) = 1 THEN 1 ELSE IF j \in cleared THEN 0 ELSE bm[j]
    BY <1>8, <2>1
  <2>3. j \in cleared \/ bm[j] = 0
    <3>1. CASE backend = "scalar" /\ j = 0
      BY <2>1, <3>1
    <3>2. CASE backend = "scalar" /\ j # 0
      <4>1. Cleared(j) /\ j <= j
        BY <1>4, <3>2 DEF Cleared
      <4> QED BY <1>4, <2>1, <4>1 DEF BitsSoFar
    <3>3. CASE backend # "scalar" /\ j % Half = 0
      BY <1>4, <1>5, <3>3
    <3>4. CASE backend # "scalar" /\ j % Half # 0
      <4>1. \A q \in j .. j : q = j
        BY <1>4
      <4>2. Cleared(j) /\ j <= j
        BY <1>4, <3>4, <4>1 DEF Cleared
      <4> QED BY <1>4, <2>1, <4>2 DEF BitsSoFar
    <3> QED BY <3>1, <3>2, <3>3, <3>4
  <2> HIDE DEF cleared
  <2> QED BY <1>10, <2>2, <2>3
<1>12. ASSUME NEW i \in 0 .. j - 1 PROVE bm'[i] = SplitBit(i)
  <2>1. i # j /\ i \in 0 .. j /\ j # 0
    BY <1>4
  <2>2. i \notin cleared
    BY <1>4, <1>5, <2>1
  <2>3. bm'[i] = bm[i]
    BY <1>7, <1>9, <2>1, <2>2
  <2> QED BY <1>4, <2>3 DEF BitsSoFar
<1>13. ASSUME NEW i \in DOMAIN bm, j + 1 <= i, (\A q \in j + 1 .. i : q % Half # 0) \/ backend = "scalar"
       PROVE  bm'[i] = 0
  <2>1. i \in Nat /\ i # j /\ j <= i
    BY <1>4, <1>6, <1>13
  <2>2. i \in cleared \/ bm[i] = 0
    <3>1. CASE backend = "scalar" /\ j = 0
      BY <3>1
    <3>2. CASE backend = "scalar" /\ j # 0
      <4>1. Cleared(i)
        BY <1>4, <3>2 DEF Cleared
      <4> QED BY <1>4, <2>1, <4>1 DEF BitsSoFar
    <3>3. CASE backend # "scalar" /\ j % Half = 0
      <4>1. (j + Half) % Half = 0
        BY <1>4, <3>3, WholeBytes
      <4>2. ~(j + Half \in j + 1 .. i)
        BY <1>13, <3>3, <4>1
      <4>3. i \in j .. j + Half - 1
        BY <1>4, <1>5, <2>1, <4>2
      <4> QED BY <3>3, <4>3
    <3>4. CASE backend # "scalar" /\ j % Half # 0
      <4>1. \A q \in j .. i : q = j \/ q \in j + 1 .. i
        BY <1>4, <2>1
      <4>2. Cleared(i)
        BY <1>13, <3>4, <4>1 DEF Cleared
      <4> QED BY <1>4, <2>1, <4>2 DEF BitsSoFar
    <3> QED BY <3>1, <3>2, <3>3, <3>4
  <2> HIDE DEF cleared
  <2> QED BY <1>9, <2>1, <2>2
<1>14. \A i \in 0 .. j + 1 - 1 : bm'[i] = SplitBit(i)
  <2>1. \A i \in 0 .. j + 1 - 1 : i \in 0 .. j - 1 \/ i = j
    BY <1>4
  <2> QED BY <1>11, <1>12, <2>1
<1>15. SplitWidths' = SplitWidths
  BY <1>1 DEF SplitWidths
<1>16. \A v \in SplitWidths : ~(j + 1 + v <= nRanks)
  <2>1. SUFFICES ASSUME NEW v \in SplitWidths PROVE ~(j + 1 + v <= nRanks)
    OBVIOUS
  <2>2. v \in Nat \ {0}
    BY <1>4, StepWidths
  <2>3. ~(j + v <= nRanks)
    BY <1>1 DEF SplitFits
  <2> QED BY <1>4, <2>2, <2>3
<1>17. \A i \in DOMAIN bm' : j' <= i /\ Cleared(i)' => bm'[i] = 0
  BY <1>1, <1>6, <1>13 DEF Cleared
<1>18. ~ \E v \in SplitWidths' : SplitFits(v)'
  BY <1>1, <1>2, <1>15, <1>16 DEF SplitFits
<1>19. (DOMAIN bm = 0 .. BitmapBytes * Half - 1)'
  BY <1>2, <1>6
<1>20. (\A i \in 0 .. j - 1 : bm[i] = SplitBit(i))'
  <2>1. SUFFICES ASSUME NEW i \in 0 .. j' - 1 PROVE bm'[i] = SplitBit(i)'
    OBVIOUS
  <2>2. i \in 0 .. j + 1 - 1
    BY <1>1, <1>4
  <2> QED BY <1>2, <1>14, <2>2
<1> QED BY <1>17, <1>18, <1>19, <1>20 DEF BitsSoFar

\* The set loaded ahead.
LEMMA VectorAhead ==
  ASSUME SplitInv, NEW w, VectorStep(w)
  PROVE  SetAhead'
<1>1. /\ UNCHANGED <<backend, sides, thr, form>> /\ j' = j + w /\ w \in SplitWidths
      /\ regs' = IF Pipelined /\ j + 2 * Set <= nRanks THEN Read(j + Set, Set) ELSE <<>>
  BY DEF VectorStep
<1>2. nRanks' = nRanks /\ Pipelined' = Pipelined
  BY <1>1, SplitStays DEF Pipelined
<1>3. nRanks \in Nat /\ j \in Nat /\ Ahead /\ Set \in Nat
  BY RanksCount, SplitShapes DEF SplitInv
<1>4. CASE Pipelined /\ j + 2 * Set <= nRanks
  <2>1. w = Set
    BY <1>1, <1>4 DEF Pipelined, SplitWidths
  <2>2. \A k \in 0 .. Set - 1 : ranks[j + Set + k] = j + Set + k
    <3>1. \A k \in 0 .. Set - 1 : j + Set + k \in j .. nRanks - 1
      BY <1>3, <1>4
    <3> QED BY <3>1, <1>3 DEF Ahead
  <2>3. regs' = [k \in 0 .. Set - 1 |-> j + Set + k]
    BY <1>1, <1>4, <2>2 DEF Read
  <2>4. j' + Set <= nRanks /\ j' = j + Set
    BY <1>1, <1>3, <1>4, <2>1
  <2> QED BY <1>2, <1>4, <2>3, <2>4 DEF SetAhead, Set, Lanes
<1>5. CASE ~(Pipelined /\ j + 2 * Set <= nRanks)
  BY <1>1, <1>5 DEF SetAhead
<1> QED BY <1>4, <1>5

\* No set is loaded ahead of the tail.
LEMMA ScalarAhead ==
  ASSUME SplitInv, ScalarStep
  PROVE  SetAhead'
<1>1. regs' = regs /\ \A v \in SplitWidths : ~SplitFits(v)
  BY DEF ScalarStep
<1>2. regs = <<>>
  <2>1. SUFFICES ASSUME regs # <<>> PROVE FALSE
    OBVIOUS
  <2>2. Pipelined /\ j + Set <= nRanks
    BY <2>1 DEF SplitInv, SetAhead
  <2>3. Set \in SplitWidths
    BY <2>2 DEF Pipelined, SplitWidths
  <2> QED BY <1>1, <2>2, <2>3 DEF SplitFits
<1> QED BY <1>1, <1>2 DEF SetAhead

\* The other clauses follow from what a step moved.
LEMMA MovedHolds ==
  ASSUME SplitInv, NEW u, Moved(u), j + u <= nRanks, u \in Nat,
         UNCHANGED <<backend, form, sides, thr>>, SetAhead', BitsSoFar'
  PROVE  SplitInv'
<1>1. nRanks' = nRanks /\ Rights' = Rights /\ \A i : SplitBit(i)' = SplitBit(i)
  BY SplitStays
<1>2. nRanks \in Nat /\ j \in Nat /\ Whole(ranks) /\ Whole(tmp)
  BY RanksCount DEF SplitInv
<1>3. j' = j + u /\ j' \in 0 .. nRanks
  BY <1>2 DEF Moved
<1>4. Whole(ranks') /\ Whole(tmp')
  BY <1>2 DEF Moved, SplitInv
<1>5. Whole(ranks)' /\ Whole(tmp)'
  BY <1>1, <1>4 DEF Whole, SplitRoom, Set, Lanes, NoRank
<1>6. nr' = RightsIn(0, j)' /\ nl' = j' - nr'
  <2>1. PICK z \in Nat : z = j + u
    BY <1>2 DEF SplitInv
  <2>2. nr' = RightsIn(0, z) /\ nl' = z - nr' /\ j' = z
    <3>1. j \in Nat /\ u \in Nat /\ RightsIn(0, z) \in Nat
      BY <1>2, RightsBounds DEF SplitInv
    <3>2. j' = z
      BY <2>1 DEF Moved
    <3>3. nr' = RightsIn(0, z)
      BY <2>1 DEF Moved
    <3>4. nl' = j + u - nr'
      BY DEF Moved
    <3> QED BY <2>1, <3>1, <3>2, <3>3, <3>4
  <2>3. RightsIn(0, j)' = RightsIn(0, z)
    BY <1>1, <2>2 DEF RightsIn
  <2> QED BY <2>2, <2>3
<1>7. ASSUME form' # "none" PROVE SideFirst(tmp, 1, j)'
  <2>1. SideFirst(tmp', 1, j + u)
    BY <1>7 DEF Moved
  <2> QED BY <1>1, <1>3, <2>1 DEF SideFirst, Nth, RightsIn
<1>8. ASSUME form' = "full" PROVE SideFirst(ranks, 0, j)'
  <2>1. SideFirst(ranks', 0, j + u)
    BY <1>8 DEF Moved
  <2> QED BY <1>1, <1>3, <2>1 DEF SideFirst, Nth, RightsIn
<1>9. Ahead'
  BY <1>1, <1>3 DEF Moved, Ahead
<1> QED BY <1>1, <1>3, <1>5, <1>6, <1>7, <1>8, <1>9 DEF SplitInv

\* The invariant holds before the first step.
LEMMA StartSplit == SplitInit => SplitInv
<1> SUFFICES ASSUME SplitInit PROVE SplitInv
  OBVIOUS
<1>1. sides \in Seq({0, 1}) /\ sides # <<>> /\ backend \in Backends /\ form \in Forms
  BY SidesAssumption DEF SplitInit
<1>2. nRanks \in Nat /\ SplitRoom \in Nat
  BY <1>1, RanksCount, SplitShapes DEF SplitRoom
<1>3. thr \in 0 .. RankMod - 2
  BY SplitAssumption DEF SplitInit
<1>4. j = 0 /\ nr = 0 /\ nl = 0 /\ regs = <<>>
  BY DEF SplitInit
<1>5. nr = RightsIn(0, j) /\ nl = j - nr /\ j \in 0 .. nRanks
  <2>1. RightsIn(0, 0) = 0
    BY RightsOne
  <2> QED BY <1>2, <1>4, <2>1
<1>6. Whole(ranks)
  <2>1. ranks = [i \in 0 .. nRanks - 1 + SplitRoom |-> IF i < nRanks THEN i ELSE NoRank]
    BY DEF SplitInit
  <2> QED BY <1>2, <2>1 DEF Whole
<1>7. Whole(tmp)
  <2>1. tmp = [i \in 0 .. nRanks - 1 + SplitRoom |-> NoRank]
    BY DEF SplitInit
  <2> QED BY <1>2, <2>1 DEF Whole
<1>8. \A buf, b : SideFirst(buf, b, j)
  BY <1>4 DEF SideFirst
<1>9. Ahead
  <2>1. ranks = [i \in 0 .. nRanks - 1 + SplitRoom |-> IF i < nRanks THEN i ELSE NoRank]
    BY DEF SplitInit
  <2>2. \A i \in 0 .. nRanks - 1 : i \in 0 .. nRanks - 1 + SplitRoom /\ i < nRanks
    BY <1>2
  <2> QED BY <1>4, <2>1, <2>2 DEF Ahead
<1>10. SetAhead
  BY <1>4 DEF SetAhead
<1>11. BitsSoFar
  <2>1. bm = [i \in 0 .. BitmapBytes * Half - 1 |-> 1]
    BY DEF SplitInit
  <2>2. DOMAIN bm = 0 .. BitmapBytes * Half - 1
    BY <2>1
  <2>3. j % Half = 0 /\ 0 % Half = 0
    BY <1>4, HalfAssumption
  <2>4. ASSUME NEW i \in DOMAIN bm, j <= i PROVE ~Cleared(i)
    <3>1. 0 \in j .. i
      BY <1>4, <2>2, <2>4
    <3> QED BY <1>4, <2>3, <3>1 DEF Cleared
  <2>5. 0 .. j - 1 = {}
    BY <1>4
  <2> QED BY <2>2, <2>3, <2>4, <2>5 DEF BitsSoFar
<1> QED BY <1>1, <1>3, <1>5, <1>6, <1>7, <1>8, <1>9, <1>10, <1>11 DEF SplitInv

\* Every step keeps the invariant.
LEMMA StepSplit == SplitInv /\ [SplitNext]_splitVars => SplitInv'
<1> SUFFICES ASSUME SplitInv, [SplitNext]_splitVars PROVE SplitInv'
  OBVIOUS
<1>1. CASE Prime
  <2>1. /\ Pipelined /\ j = 0 /\ SplitFits(Set) /\ regs' = Read(0, Set)
        /\ UNCHANGED <<backend, form, sides, thr, ranks, tmp, bm, j, nl, nr>>
    BY <1>1 DEF Prime
  <2>2. nRanks' = nRanks /\ BitmapBytes' = BitmapBytes /\ Rights' = Rights /\ \A i : SplitBit(i)' = SplitBit(i)
    BY <2>1, SplitStays
  <2>3. nRanks \in Nat /\ Ahead /\ Set \in Nat /\ j + Set <= nRanks
    BY <2>1, RanksCount, SplitShapes DEF SplitInv, SplitFits
  <2>4. \A k \in 0 .. Set - 1 : 0 + k \in j .. nRanks - 1 /\ 0 + k = j + k
    BY <2>1, <2>3
  <2>5. regs' = [k \in 0 .. Set - 1 |-> j + k]
    BY <2>1, <2>3, <2>4 DEF Read, Ahead
  <2>6. SetAhead'
    BY <2>1, <2>2, <2>3, <2>5 DEF SetAhead, Pipelined, Set, Lanes
  <2>7. Whole(ranks)' /\ Whole(tmp)' /\ Ahead'
    BY <2>1, <2>2 DEF SplitInv, Whole, Ahead, SplitRoom, Set, Lanes, NoRank
  <2>8. /\ nr' = RightsIn(0, j)' /\ nl' = j' - nr'
        /\ form' # "none" => SideFirst(tmp, 1, j)'
        /\ form' = "full" => SideFirst(ranks, 0, j)'
    BY <2>1, <2>2 DEF SplitInv, SideFirst, Nth, RightsIn
  <2>9. BitsSoFar'
    <3>1. SplitWidths' = SplitWidths
      BY <2>1 DEF SplitWidths
    <3>2. BitsSoFar
      BY DEF SplitInv
    <3> QED BY <2>1, <2>2, <3>1, <3>2 DEF BitsSoFar, Cleared, SplitFits
  <2> QED BY <2>1, <2>2, <2>6, <2>7, <2>8, <2>9 DEF SplitInv
<1>2. ASSUME NEW w, VectorStep(w) PROVE SplitInv'
  <2>1. Moved(w) /\ SetAhead' /\ BitsSoFar'
    BY <1>2, VectorMoves, VectorAhead, VectorBits
  <2>2. w \in Nat /\ j + w <= nRanks
    BY <1>2, VectorFills
  <2>3. UNCHANGED <<backend, form, sides, thr>>
    BY <1>2 DEF VectorStep
  <2> QED BY <2>1, <2>2, <2>3, MovedHolds
<1>3. CASE ScalarStep
  <2>1. Moved(1) /\ SetAhead' /\ BitsSoFar' /\ j + 1 <= nRanks
    BY <1>3, ScalarFills, ScalarAhead, ScalarBits
  <2>2. UNCHANGED <<backend, form, sides, thr>> /\ 1 \in Nat
    BY <1>3 DEF ScalarStep
  <2> QED BY <2>1, <2>2, MovedHolds
<1>4. CASE UNCHANGED splitVars
  <2>1. UNCHANGED <<j, nl, nr, backend, form, sides, thr, ranks, tmp, bm, regs>>
    BY <1>4 DEF splitVars
  <2>2. nRanks' = nRanks /\ BitmapBytes' = BitmapBytes /\ Rights' = Rights /\ \A i : SplitBit(i)' = SplitBit(i)
    BY <2>1, SplitStays
  <2>3. SetAhead' /\ Ahead' /\ Whole(ranks)' /\ Whole(tmp)'
    BY <2>1, <2>2 DEF SplitInv, SetAhead, Ahead, Pipelined, Whole, SplitRoom, Set, Lanes, NoRank
  <2>4. /\ nr' = RightsIn(0, j)' /\ nl' = j' - nr'
        /\ form' # "none" => SideFirst(tmp, 1, j)'
        /\ form' = "full" => SideFirst(ranks, 0, j)'
    BY <2>1, <2>2 DEF SplitInv, SideFirst, Nth, RightsIn
  <2>5. BitsSoFar'
    <3>1. SplitWidths' = SplitWidths
      BY <2>1 DEF SplitWidths
    <3>2. BitsSoFar
      BY DEF SplitInv
    <3> QED BY <2>1, <2>2, <3>1, <3>2 DEF BitsSoFar, Cleared, SplitFits
  <2> QED BY <2>1, <2>2, <2>3, <2>4, <2>5 DEF SplitInv
<1> QED BY <1>1, <1>2, <1>3, <1>4 DEF SplitNext

\* The comparisons of every backend tell a rank's side.
LEMMA RankSide ==
  ASSUME sides \in Seq({0, 1}), thr \in 0 .. RankMod - 2, NEW i \in 0 .. nRanks - 1
  PROVE  SplitBit(i) = sides[i + 1]
<1>1. nRanks \in Nat /\ RankMod \in Nat /\ RankMod > 2 /\ thr \in Nat /\ thr <= RankMod - 2
  BY RanksCount, SplitAssumption
<1>2. sides[i + 1] \in {0, 1}
  <2>1. i + 1 \in 1 .. Len(sides)
    BY <1>1 DEF nRanks
  <2> QED BY <2>1
<1>3. (thr + 1) % RankMod = thr + 1
  BY <1>1
<1>4. /\ sides[i + 1] = 1 => RankOf(i) \in {thr + 1, RankMod - 1}
      /\ sides[i + 1] # 1 => RankOf(i) \in {thr, 0}
  BY DEF RankOf
<1>5. GoesRight(i) <=> sides[i + 1] = 1
  <2>1. CASE sides[i + 1] = 1
    <3>1. RankOf(i) >= thr + 1 /\ RankOf(i) > thr
      BY <1>1, <1>4, <2>1
    <3> QED BY <1>1, <1>3, <1>4, <2>1, <3>1 DEF GoesRight
  <2>2. CASE sides[i + 1] # 1
    <3>1. RankOf(i) <= thr /\ RankOf(i) < thr + 1 /\ RankOf(i) # thr + 1
      BY <1>1, <1>4, <2>2
    <3> QED BY <1>1, <1>3, <1>4, <2>2, <3>1 DEF GoesRight
  <2> QED BY <2>1, <2>2
<1> QED BY <1>2, <1>5 DEF SplitBit

\* The counts of the property are those of the proof.
LEMMA BeforeIs ==
  ASSUME sides \in Seq({0, 1}), thr \in 0 .. RankMod - 2, NEW v \in 0 .. nRanks, NEW b \in {0, 1}
  PROVE  Before(v, b) = Nth(0, v, b)
<1>1. nRanks \in Nat /\ v \in Nat
  BY RanksCount
<1> DEFINE m == [k \in 0 .. v - 1 |-> SplitBit(0 + k)]
<1>2. Shows(m, 0, v)
  BY DEF Shows
<1>3. \A k \in 0 .. v - 1 : m[k] = sides[k + 1]
  <2>1. \A k \in 0 .. v - 1 : k \in 0 .. nRanks - 1 /\ 0 + k = k
    BY <1>1
  <2> QED BY <2>1, RankSide
<1> HIDE DEF m
<1>4. Before(v, b) = CountOf(m, b, v)
  <2>1. {k \in 0 .. v - 1 : sides[k + 1] = b} = {k \in 0 .. v - 1 : m[k] = b}
    BY <1>3
  <2> QED BY <2>1 DEF Before, CountOf
<1>5. v \in 0 .. v
  BY <1>1
<1>6. CountOf(m, 1, v) = RightsIn(0, v) /\ CountOf(m, 0, v) = v - RightsIn(0, v)
  BY <1>1, <1>2, <1>5, ShownCounts
<1>7. Nth(0, v, 1) = RightsIn(0, v) /\ Nth(0, v, 0) = v - RightsIn(0, v)
  BY <1>1, NthSides
<1> QED BY <1>4, <1>6, <1>7

\* The invariant gives the property.
LEMMA InvSplit == SplitInv => SplitSound
<1> SUFFICES ASSUME SplitInv PROVE SplitSound
  OBVIOUS
<1>1. /\ sides \in Seq({0, 1}) /\ backend \in Backends /\ form \in Forms /\ thr \in 0 .. RankMod - 2
      /\ j \in 0 .. nRanks /\ nr = RightsIn(0, j) /\ nl = j - nr
      /\ Whole(ranks) /\ Whole(tmp)
      /\ (form # "none" => SideFirst(tmp, 1, j)) /\ (form = "full" => SideFirst(ranks, 0, j))
      /\ Ahead /\ SetAhead /\ BitsSoFar
  BY DEF SplitInv
<1>2. nRanks \in Nat /\ j \in Nat /\ j <= nRanks /\ Set \in Nat /\ SplitRoom \in Nat
  BY <1>1, RanksCount, SplitShapes DEF SplitRoom
<1>3. nr \in Nat /\ nr <= j
  BY <1>1, <1>2, RightsBounds
<1>4. SplitTypeOK
  <2>1. nl \in 0 .. nRanks /\ nr \in 0 .. nRanks /\ nl + nr = j
    BY <1>1, <1>2, <1>3
  <2>2. regs # <<>> => DOMAIN regs = 0 .. Set - 1
    BY <1>1 DEF SetAhead
  <2> QED BY <1>1, <2>1, <2>2 DEF SplitTypeOK, Whole
<1>5. Partitioned
  <2>1. nr = Before(j, 1)
    <3>1. Before(j, 1) = Nth(0, j, 1)
      BY <1>1, BeforeIs
    <3> QED BY <1>1, <1>2, <3>1, NthSides
  <2>2. ASSUME NEW i \in 0 .. j - 1
        PROVE  IF sides[i + 1] = 1 THEN form # "none" => tmp[Before(i, 1)] = i
               ELSE form = "full" => ranks[Before(i, 0)] = i
    <3>1. i \in 0 .. nRanks - 1 /\ i \in 0 .. nRanks
      BY <1>2
    <3>2. SplitBit(i) = sides[i + 1] /\ SplitBit(i) \in {0, 1}
      BY <1>1, <3>1, RankSide DEF SplitBit
    <3>3. Before(i, 1) = Nth(0, i, 1) /\ Before(i, 0) = Nth(0, i, 0)
      BY <1>1, <3>1, BeforeIs
    <3> QED BY <1>1, <3>2, <3>3 DEF SideFirst
  <2> QED BY <2>1, <2>2 DEF Partitioned
<1>6. RanksIntact
  <2>1. ASSUME NEW i \in j + (IF regs # <<>> THEN Set ELSE 0) .. nRanks - 1 PROVE ranks[i] = i
    <3>1. i \in j .. nRanks - 1
      BY <1>2
    <3> QED BY <1>1, <3>1 DEF Ahead
  <2>2. regs # <<>> => \A k \in 0 .. Set - 1 : regs[k] = j + k
    BY <1>1 DEF SetAhead
  <2> QED BY <2>1, <2>2 DEF RanksIntact
<1>7. StaysInside
  <2>1. \A a \in nRanks .. nRanks - 1 + SplitRoom : a \in 0 .. nRanks - 1 + SplitRoom /\ a >= nRanks
    BY <1>2
  <2> QED BY <1>1, <2>1 DEF StaysInside, Whole
<1>8. BitmapClean
  <2>1. ASSUME NEW i \in 0 .. j - 1 PROVE bm[i] = sides[i + 1]
    <3>1. i \in 0 .. nRanks - 1
      BY <1>2
    <3> QED BY <1>1, <3>1, RankSide DEF BitsSoFar
  <2>2. ASSUME j = nRanks, NEW i \in nRanks .. BitmapBytes * Half - 1 PROVE bm[i] = 0
    <3>1. /\ BitmapBytes \in Nat /\ BitmapBytes * Half \in Nat
          /\ BitmapBytes * Half < nRanks + Half /\ Half \in Nat \ {0}
      BY <1>2, BitmapRoom, HalfAssumption
    <3>2. PICK y \in Nat : y = BitmapBytes * Half
      BY <3>1
    <3>3. y < nRanks + Half /\ i \in nRanks .. y - 1
      BY <3>1, <3>2
    <3>4. ASSUME NEW q \in j .. i, q % Half = 0 PROVE FALSE
      <4>1. q \in Nat /\ q >= nRanks /\ q < y
        BY <1>2, <2>2, <3>3
      <4>2. PICK e \in Nat : q = e * Half
        BY <3>4, <4>1, WholeBytes
      <4>3. ~(e < BitmapBytes)
        <5>1. e < BitmapBytes => e * Half + Half <= BitmapBytes * Half
          BY <3>1, ChunksInTurn
        <5>2. e < BitmapBytes => q + Half <= y
          BY <3>2, <4>2, <5>1
        <5> QED BY <1>2, <3>1, <3>3, <4>1, <5>2
      <4>4. PICK c \in Nat : e = BitmapBytes + c
        <5>1. e - BitmapBytes \in Nat /\ e = BitmapBytes + (e - BitmapBytes)
          BY <3>1, <4>3
        <5> QED BY <5>1
      <4>5. q = y + c * Half /\ c * Half \in Nat
        BY <3>1, <3>2, <4>2, <4>4
      <4> QED BY <4>1, <4>5
    <3>5. Cleared(i)
      BY <3>4 DEF Cleared
    <3>6. i \in DOMAIN bm /\ j <= i
      <4>1. DOMAIN bm = 0 .. y - 1
        BY <1>1, <3>2 DEF BitsSoFar
      <4>2. i \in 0 .. y - 1 /\ j <= i
        BY <1>2, <2>2, <3>3
      <4> QED BY <4>1, <4>2
    <3> QED BY <1>1, <3>5, <3>6 DEF BitsSoFar
  <2> QED BY <2>1, <2>2 DEF BitmapClean
<1> QED BY <1>4, <1>5, <1>6, <1>7, <1>8 DEF SplitSound

\* Whatever the node's size and routing, the backend and the form: the vector stores and
\* the tail leave the stable partition by side, the ranks not yet read intact, nothing
\* past the node, and the routing bits with clean padding.
THEOREM SplitCorrect == SplitSpec => []SplitSound
<1>1. SplitInv => SplitSound
  BY InvSplit
<1> QED BY <1>1, StartSplit, StepSplit, PTL DEF SplitSpec
-----------------------------------------------------------------------------
(* The histogram: the adders.                                               *)

\* The cells of a plane that belong to a morsel.
On(plane, m) == {x \in plane : x[2] = m}

\* A half adder: the cells in one of two planes, and those in both.
OneOf(A, B) == (A \ B) \cup (B \ A)

\* A half adder: the bits in either plane alone, and those in both.
LEMMA HalfAdds ==
  ASSUME NEW A, NEW B, IsFiniteSet(A), IsFiniteSet(B)
  PROVE  /\ IsFiniteSet(OneOf(A, B)) /\ IsFiniteSet(A \cap B)
         /\ Cardinality(OneOf(A, B)) + 2 * Cardinality(A \cap B) = Cardinality(A) + Cardinality(B)
<1>1. /\ IsFiniteSet(A \ B) /\ Cardinality(A \ B) = Cardinality(A) - Cardinality(A \cap B)
      /\ IsFiniteSet(B \ A) /\ Cardinality(B \ A) = Cardinality(B) - Cardinality(B \cap A)
  BY FS_Difference
<1>2. B \cap A = A \cap B /\ (A \ B) \cap (B \ A) = {}
  OBVIOUS
<1>3. /\ IsFiniteSet(OneOf(A, B))
      /\ Cardinality(OneOf(A, B)) = Cardinality(A \ B) + Cardinality(B \ A) - Cardinality((A \ B) \cap (B \ A))
  BY <1>1, FS_Union DEF OneOf
<1>4. Cardinality((A \ B) \cap (B \ A)) = 0
  BY <1>2, FS_EmptySet
<1>5. IsFiniteSet(A \cap B)
  BY FS_Intersection
<1>6. Cardinality(A) \in Nat /\ Cardinality(B) \in Nat /\ Cardinality(A \cap B) \in Nat
  BY <1>5, FS_CardinalityType
<1>7. Cardinality(B \cap A) = Cardinality(A \cap B)
  BY <1>2
<1> QED BY <1>1, <1>3, <1>4, <1>5, <1>6, <1>7

\* What Sum3 keeps is what is in one or in all of its planes.
LEMMA SumIsOdd ==
  ASSUME NEW A, NEW B, NEW C
  PROVE  Sum3(A, B, C) = OneOf(OneOf(A, B), C)
<1> DEFINE N(x) == {k \in 1 .. 3 : x \in <<A, B, C>>[k]}
<1>0. 1 .. 3 = {1, 2, 3}
  OBVIOUS
<1>1. ASSUME NEW x PROVE N(x) = (IF x \in A THEN {1} ELSE {}) \cup (IF x \in B THEN {2} ELSE {}) \cup (IF x \in C THEN {3} ELSE {})
  <2>1. ASSUME NEW k
        PROVE  k \in N(x) <=> (k = 1 /\ x \in A) \/ (k = 2 /\ x \in B) \/ (k = 3 /\ x \in C)
    <3>1. k \in N(x) <=> k \in {1, 2, 3} /\ x \in <<A, B, C>>[k]
      BY <1>0
    <3>2. <<A, B, C>>[1] = A /\ <<A, B, C>>[2] = B /\ <<A, B, C>>[3] = C
      OBVIOUS
    <3> HIDE DEF N
    <3>3. CASE k = 1
      BY <3>1, <3>2, <3>3
    <3>4. CASE k = 2
      BY <3>1, <3>2, <3>4
    <3>5. CASE k = 3
      BY <3>1, <3>2, <3>5
    <3> QED BY <3>1, <3>3, <3>4, <3>5
  <2> HIDE DEF N
  <2> QED BY <2>1
<1>2. /\ Cardinality({}) = 0
      /\ Cardinality({1}) = 1 /\ Cardinality({2}) = 1 /\ Cardinality({3}) = 1
      /\ Cardinality({1, 2}) = 2 /\ Cardinality({1, 3}) = 2 /\ Cardinality({2, 3}) = 2
      /\ Cardinality({1, 2, 3}) = 3
  <2>1. Cardinality({}) = 0 /\ \A k : IsFiniteSet({k}) /\ Cardinality({k}) = 1
    BY FS_EmptySet, FS_Singleton
  <2>2. ASSUME NEW S, IsFiniteSet(S), NEW k, k \notin S
        PROVE  IsFiniteSet(S \cup {k}) /\ Cardinality(S \cup {k}) = Cardinality(S) + 1
    BY <2>2, FS_AddElement
  <2>3. /\ IsFiniteSet({1, 2}) /\ Cardinality({1, 2}) = 2
        /\ Cardinality({1, 3}) = 2 /\ Cardinality({2, 3}) = 2
    <3>1. {1, 2} = {1} \cup {2} /\ {1, 3} = {1} \cup {3} /\ {2, 3} = {2} \cup {3}
      OBVIOUS
    <3>2. 2 \notin {1} /\ 3 \notin {1} /\ 3 \notin {2}
      OBVIOUS
    <3>3. /\ IsFiniteSet({1} \cup {2}) /\ Cardinality({1} \cup {2}) = Cardinality({1}) + 1
          /\ Cardinality({1} \cup {3}) = Cardinality({1}) + 1
          /\ Cardinality({2} \cup {3}) = Cardinality({2}) + 1
      BY <2>1, <2>2, <3>2
    <3>4. Cardinality({1}) = 1 /\ Cardinality({2}) = 1
      BY <2>1
    <3> QED BY <3>1, <3>3, <3>4
  <2>4. Cardinality({1, 2, 3}) = 3
    <3>1. {1, 2, 3} = {1, 2} \cup {3} /\ 3 \notin {1, 2}
      OBVIOUS
    <3>2. Cardinality({1, 2} \cup {3}) = Cardinality({1, 2}) + 1
      BY <2>2, <2>3, <3>1
    <3> QED BY <2>3, <3>1, <3>2
  <2> QED BY <2>1, <2>3, <2>4
<1>3. ASSUME NEW x PROVE Cardinality(N(x)) % 2 = 1 <=> x \in OneOf(OneOf(A, B), C)
  <2> HIDE DEF N
  <2>1. CASE x \in A /\ x \in B /\ x \in C
    <3>1. N(x) = {1, 2, 3}
      BY <1>1, <2>1
    <3> QED BY <1>2, <2>1, <3>1 DEF OneOf
  <2>2. CASE x \in A /\ x \in B /\ x \notin C
    <3>1. N(x) = {1, 2}
      BY <1>1, <2>2
    <3> QED BY <1>2, <2>2, <3>1 DEF OneOf
  <2>3. CASE x \in A /\ x \notin B /\ x \in C
    <3>1. N(x) = {1, 3}
      BY <1>1, <2>3
    <3> QED BY <1>2, <2>3, <3>1 DEF OneOf
  <2>4. CASE x \in A /\ x \notin B /\ x \notin C
    <3>1. N(x) = {1}
      BY <1>1, <2>4
    <3> QED BY <1>2, <2>4, <3>1 DEF OneOf
  <2>5. CASE x \notin A /\ x \in B /\ x \in C
    <3>1. N(x) = {2, 3}
      BY <1>1, <2>5
    <3> QED BY <1>2, <2>5, <3>1 DEF OneOf
  <2>6. CASE x \notin A /\ x \in B /\ x \notin C
    <3>1. N(x) = {2}
      BY <1>1, <2>6
    <3> QED BY <1>2, <2>6, <3>1 DEF OneOf
  <2>7. CASE x \notin A /\ x \notin B /\ x \in C
    <3>1. N(x) = {3}
      BY <1>1, <2>7
    <3> QED BY <1>2, <2>7, <3>1 DEF OneOf
  <2>8. CASE x \notin A /\ x \notin B /\ x \notin C
    <3>1. N(x) = {}
      BY <1>1, <2>8
    <3> QED BY <1>2, <2>8, <3>1 DEF OneOf
  <2> QED BY <2>1, <2>2, <2>3, <2>4, <2>5, <2>6, <2>7, <2>8
<1>4. Sum3(A, B, C) = {x \in A \cup B \cup C : Cardinality(N(x)) % 2 = 1}
  BY DEF Sum3
<1>5. OneOf(OneOf(A, B), C) \subseteq A \cup B \cup C
  BY DEF OneOf
<1> HIDE DEF N
<1> QED BY <1>3, <1>4, <1>5

\* A full adder keeps what its planes count.
LEMMA Adds ==
  ASSUME NEW A, NEW B, NEW C, IsFiniteSet(A), IsFiniteSet(B), IsFiniteSet(C)
  PROVE  /\ IsFiniteSet(Sum3(A, B, C)) /\ IsFiniteSet(Carry(A, B, C))
         /\ Cardinality(Sum3(A, B, C)) + 2 * Cardinality(Carry(A, B, C))
              = Cardinality(A) + Cardinality(B) + Cardinality(C)
<1> DEFINE D == OneOf(A, B)
           G == A \cap B
           H == D \cap C
<1>1. /\ IsFiniteSet(D) /\ IsFiniteSet(G)
      /\ Cardinality(D) + 2 * Cardinality(G) = Cardinality(A) + Cardinality(B)
  BY HalfAdds
<1>2. G \cap H = {} /\ Carry(A, B, C) = G \cup H
  BY DEF Carry, OneOf
<1>3. Sum3(A, B, C) = OneOf(D, C)
  BY SumIsOdd
<1> HIDE DEF D, G
<1>4. /\ IsFiniteSet(OneOf(D, C)) /\ IsFiniteSet(H)
      /\ Cardinality(OneOf(D, C)) + 2 * Cardinality(H) = Cardinality(D) + Cardinality(C)
  BY <1>1, HalfAdds
<1> HIDE DEF H
<1>5. /\ IsFiniteSet(G \cup H)
      /\ Cardinality(G \cup H) = Cardinality(G) + Cardinality(H) - Cardinality(G \cap H)
  BY <1>1, <1>4, FS_Union
<1>6. Cardinality(G \cap H) = 0
  BY <1>2, FS_EmptySet
<1>7. /\ Cardinality(A) \in Nat /\ Cardinality(B) \in Nat /\ Cardinality(C) \in Nat
      /\ Cardinality(D) \in Nat /\ Cardinality(G) \in Nat /\ Cardinality(H) \in Nat
      /\ Cardinality(OneOf(D, C)) \in Nat
  BY <1>1, <1>4, FS_CardinalityType
<1> QED BY <1>1, <1>2, <1>3, <1>4, <1>5, <1>6, <1>7

\* The places of a plane; what a plane counts for a morsel.
Grid == (0 .. LoadLanes - 1) \X (0 .. Morsels - 1)
Planes == SUBSET Grid
Held(plane, m) == Cardinality(On(plane, m))

\* What a plane holds is a number.
LEMMA HeldBounds ==
  ASSUME NEW plane \in Planes, NEW m \in 0 .. Morsels - 1
  PROVE  IsFiniteSet(On(plane, m)) /\ Held(plane, m) \in 0 .. LoadLanes
<1> DEFINE A == On(plane, m)
           B == 0 .. LoadLanes - 1
           f == [x \in A |-> x[1]]
<1>1. LoadLanes \in Nat /\ LoadLanes > 0
  BY CountAssumption
<1>2. \A x \in A : x[1] \in B /\ x = <<x[1], m>>
  BY DEF On, Planes, Grid
<1>3. IsFiniteSet(B) /\ Cardinality(B) = LoadLanes
  BY <1>1, FS_Interval
<1> HIDE DEF A, B
<1>4. f \in Injection(A, B)
  <2>1. f \in [A -> B]
    BY <1>2
  <2>2. \A x, y \in A : f[x] = f[y] => x = y
    BY <1>2
  <2> HIDE DEF f
  <2> QED BY <2>1, <2>2, Zenon DEF Injection, IsInjective
<1> HIDE DEF f
<1>5. IsFiniteSet(A) /\ Cardinality(A) <= Cardinality(B)
  BY <1>3, <1>4, FS_Injection
<1>6. Cardinality(A) \in Nat
  BY <1>5, FS_CardinalityType
<1> QED BY <1>1, <1>3, <1>5, <1>6 DEF A, Held

\* A full adder, morsel by morsel.
LEMMA PlanesAdd ==
  ASSUME NEW a \in Planes, NEW b \in Planes, NEW c \in Planes, NEW m \in 0 .. Morsels - 1
  PROVE  /\ Sum3(a, b, c) \in Planes /\ Carry(a, b, c) \in Planes
         /\ Held(Sum3(a, b, c), m) + 2 * Held(Carry(a, b, c), m) = Held(a, m) + Held(b, m) + Held(c, m)
<1>1. Sum3(a, b, c) \in Planes /\ Carry(a, b, c) \in Planes
  BY DEF Sum3, Carry, Planes
<1>2. On(Sum3(a, b, c), m) = Sum3(On(a, m), On(b, m), On(c, m))
  <2>1. /\ Sum3(a, b, c) = OneOf(OneOf(a, b), c)
        /\ Sum3(On(a, m), On(b, m), On(c, m)) = OneOf(OneOf(On(a, m), On(b, m)), On(c, m))
    BY SumIsOdd
  <2> QED BY <2>1 DEF On, OneOf
<1>3. On(Carry(a, b, c), m) = Carry(On(a, m), On(b, m), On(c, m))
  BY DEF On, Carry
<1>4. IsFiniteSet(On(a, m)) /\ IsFiniteSet(On(b, m)) /\ IsFiniteSet(On(c, m))
  BY HeldBounds
<1>5. PICK A, B, C : A = On(a, m) /\ B = On(b, m) /\ C = On(c, m)
  OBVIOUS
<1>6. Cardinality(Sum3(A, B, C)) + 2 * Cardinality(Carry(A, B, C))
        = Cardinality(A) + Cardinality(B) + Cardinality(C)
  BY <1>4, <1>5, Adds
<1> QED BY <1>1, <1>2, <1>3, <1>5, <1>6 DEF Held

\* The tree loses nothing: what its eight loads and its planes count is in the planes
\* and in the carry of weight eight.
LEMMA TreeAdds ==
  ASSUME NEW x \in [0 .. 7 -> Planes], NEW w0 \in Planes, NEW w1 \in Planes, NEW w2 \in Planes,
         NEW m \in 0 .. Morsels - 1, NEW a, a = Added(x, w0, w1, w2)
  PROVE  /\ a.w0 \in Planes /\ a.w1 \in Planes /\ a.w2 \in Planes /\ a.e \in Planes
         /\ Held(a.w0, m) + 2 * Held(a.w1, m) + 4 * Held(a.w2, m) + 8 * Held(a.e, m)
              = Held(w0, m) + 2 * Held(w1, m) + 4 * Held(w2, m)
                  + Held(x[0], m) + Held(x[1], m) + Held(x[2], m) + Held(x[3], m)
                  + Held(x[4], m) + Held(x[5], m) + Held(x[6], m) + Held(x[7], m)
<1> DEFINE s1 == Sum3(x[0], x[1], x[2])  c1 == Carry(x[0], x[1], x[2])
           s2 == Sum3(x[3], x[4], x[5])  c2 == Carry(x[3], x[4], x[5])
           s3 == Sum3(x[6], x[7], w0)    c3 == Carry(x[6], x[7], w0)
           s4 == Sum3(s1, s2, s3)        c4 == Carry(s1, s2, s3)
           t1 == Sum3(c1, c2, c3)        d1 == Carry(c1, c2, c3)
           t2 == Sum3(t1, c4, w1)        d2 == Carry(t1, c4, w1)
           t3 == Sum3(d2, d1, w2)        e3 == Carry(d2, d1, w2)
<1>0. a.w0 = s4 /\ a.w1 = t2 /\ a.w2 = t3 /\ a.e = e3
  BY DEF Added
<1>1. /\ x[0] \in Planes /\ x[1] \in Planes /\ x[2] \in Planes /\ x[3] \in Planes
      /\ x[4] \in Planes /\ x[5] \in Planes /\ x[6] \in Planes /\ x[7] \in Planes
  OBVIOUS
<1>2. s1 \in Planes /\ c1 \in Planes
      /\ Held(s1, m) + 2 * Held(c1, m) = Held(x[0], m) + Held(x[1], m) + Held(x[2], m)
  BY <1>1, PlanesAdd
<1>3. s2 \in Planes /\ c2 \in Planes
      /\ Held(s2, m) + 2 * Held(c2, m) = Held(x[3], m) + Held(x[4], m) + Held(x[5], m)
  BY <1>1, PlanesAdd
<1>4. s3 \in Planes /\ c3 \in Planes
      /\ Held(s3, m) + 2 * Held(c3, m) = Held(x[6], m) + Held(x[7], m) + Held(w0, m)
  BY <1>1, PlanesAdd
<1> HIDE DEF s1, c1, s2, c2, s3, c3
<1>5. s4 \in Planes /\ c4 \in Planes
      /\ Held(s4, m) + 2 * Held(c4, m) = Held(s1, m) + Held(s2, m) + Held(s3, m)
  BY <1>2, <1>3, <1>4, PlanesAdd
<1>6. t1 \in Planes /\ d1 \in Planes
      /\ Held(t1, m) + 2 * Held(d1, m) = Held(c1, m) + Held(c2, m) + Held(c3, m)
  BY <1>2, <1>3, <1>4, PlanesAdd
<1> HIDE DEF s4, c4, t1, d1
<1>7. t2 \in Planes /\ d2 \in Planes
      /\ Held(t2, m) + 2 * Held(d2, m) = Held(t1, m) + Held(c4, m) + Held(w1, m)
  BY <1>5, <1>6, PlanesAdd
<1> HIDE DEF t2, d2
<1>8. t3 \in Planes /\ e3 \in Planes
      /\ Held(t3, m) + 2 * Held(e3, m) = Held(d2, m) + Held(d1, m) + Held(w2, m)
  BY <1>6, <1>7, PlanesAdd
<1> HIDE DEF t3, e3
<1>9. ASSUME NEW p \in Planes PROVE Held(p, m) \in Int
  BY HeldBounds
<1>10. /\ Held(x[0], m) \in Int /\ Held(x[1], m) \in Int /\ Held(x[2], m) \in Int /\ Held(x[3], m) \in Int
       /\ Held(x[4], m) \in Int /\ Held(x[5], m) \in Int /\ Held(x[6], m) \in Int /\ Held(x[7], m) \in Int
       /\ Held(w0, m) \in Int /\ Held(w1, m) \in Int /\ Held(w2, m) \in Int
  BY <1>1, <1>9
<1>11. /\ Held(s1, m) \in Int /\ Held(s2, m) \in Int /\ Held(s3, m) \in Int /\ Held(s4, m) \in Int
       /\ Held(c1, m) \in Int /\ Held(c2, m) \in Int /\ Held(c3, m) \in Int /\ Held(c4, m) \in Int
       /\ Held(t1, m) \in Int /\ Held(t2, m) \in Int /\ Held(t3, m) \in Int
       /\ Held(d1, m) \in Int /\ Held(d2, m) \in Int /\ Held(e3, m) \in Int
  BY <1>2, <1>3, <1>4, <1>5, <1>6, <1>7, <1>8, <1>9
<1>12. Held(s4, m) + 2 * Held(t2, m) + 4 * Held(t3, m) + 8 * Held(e3, m)
         = Held(w0, m) + 2 * Held(w1, m) + 4 * Held(w2, m)
             + Held(x[0], m) + Held(x[1], m) + Held(x[2], m) + Held(x[3], m)
             + Held(x[4], m) + Held(x[5], m) + Held(x[6], m) + Held(x[7], m)
  BY <1>2, <1>3, <1>4, <1>5, <1>6, <1>7, <1>8, <1>10, <1>11
<1> QED BY <1>0, <1>5, <1>7, <1>8, <1>12

-----------------------------------------------------------------------------
(* The histogram: vectors, bytes and bins.                                  *)

\* The sizes of vectors, counters and buffers.
LEMMA CountShapes ==
  /\ Bins \in Nat \ {0} /\ Morsels \in Nat \ {0} /\ LoadLanes \in Nat \ {0} /\ Burst \in Nat \ {0}
  /\ CtrMod \in Nat \ {0} /\ WideMod \in Nat \ {0} /\ BufSize \in Nat \ {0} /\ MaxChunk \in Nat \ {0}
  /\ Vec = 8 * LoadLanes /\ Vec \in Nat \ {0}
  /\ Burst * LoadLanes < CtrMod /\ BufSize > Vec /\ WideMod > Vec
  /\ RoundMax \in Nat /\ RoundMax = WideMod - Vec
<1>1. /\ Bins \in Nat \ {0} /\ Morsels \in Nat \ {0} /\ LoadLanes \in Nat \ {0} /\ Burst \in Nat \ {0}
      /\ CtrMod \in Nat \ {0} /\ WideMod \in Nat \ {0} /\ BufSize \in Nat \ {0} /\ MaxChunk \in Nat \ {0}
  BY CountAssumption
<1>2. Burst * LoadLanes < CtrMod /\ BufSize > Vec /\ WideMod > Vec
  BY CountAssumption
<1>3. Vec = 8 * LoadLanes
  BY DEF Vec
<1> QED BY <1>1, <1>2, <1>3 DEF RoundMax

\* A whole number of vectors.
WholeVectors(x) == \E k \in Nat : x = k * Vec

\* Sums, differences and roundings of whole vectors are whole vectors.
LEMMA WholeRules ==
  /\ WholeVectors(BufSize) /\ WholeVectors(RoundMax) /\ WholeVectors(0)
  /\ \A x \in Nat : WholeVectors(x - (x % Vec)) /\ x - (x % Vec) \in Nat /\ x - (x % Vec) <= x
  /\ \A x \in Nat : x >= Vec => x - (x % Vec) > 0
  /\ \A x \in Nat : WholeVectors(x) /\ x > 0 => x >= Vec /\ WholeVectors(x - Vec)
<1>0. PICK V \in Nat \ {0} : V = Vec
  BY CountShapes
<1> DEFINE W(x) == \E k \in Nat : x = k * V
<1>1. \A x : WholeVectors(x) <=> W(x)
  BY <1>0 DEF WholeVectors
<1>2. ASSUME NEW x \in Nat
      PROVE  /\ W(x - (x % V)) /\ x - (x % V) \in Nat /\ x - (x % V) <= x
             /\ x >= V => x - (x % V) > 0
  <2>1. x \div V \in Nat /\ x % V \in 0 .. V - 1 /\ x = (x \div V) * V + (x % V)
    BY DivMod
  <2>2. PICK e \in Nat, r \in 0 .. V - 1 : e = x \div V /\ r = x % V /\ x = e * V + r
    BY <2>1
  <2>3. x - r = e * V /\ x - r \in Nat /\ x - r <= x /\ (x >= V => x - r > 0)
    BY <2>2
  <2> QED BY <2>2, <2>3
<1>3. ASSUME NEW x \in Nat, W(x), x > 0 PROVE x >= V /\ W(x - V)
  <2>1. PICK k \in Nat : x = k * V
    BY <1>3
  <2>2. k # 0
    BY <1>3, <2>1
  <2>3. PICK h \in Nat : k = h + 1
    <3>1. k - 1 \in Nat /\ k = (k - 1) + 1
      BY <2>2
    <3> QED BY <3>1
  <2>4. k * V = h * V + V /\ h * V \in Nat
    BY <2>3
  <2>5. x >= V /\ x - V = h * V
    BY <2>1, <2>4
  <2> QED BY <2>5
<1>4. W(0)
  <2>1. 0 = 0 * V
    OBVIOUS
  <2> QED BY <2>1
<1>5. BufSize % V = 0 /\ WideMod % V = 0
  BY <1>0, CountAssumption
<1>6. BufSize \in Nat /\ WideMod \in Nat /\ WideMod > V /\ RoundMax = WideMod - V
  BY <1>0, CountShapes
<1> HIDE DEF W
<1>7. W(BufSize) /\ W(WideMod)
  <2>1. BufSize - (BufSize % V) = BufSize /\ WideMod - (WideMod % V) = WideMod
    BY <1>5, <1>6
  <2>2. W(BufSize - (BufSize % V)) /\ W(WideMod - (WideMod % V))
    BY <1>2, <1>6
  <2> QED BY <2>1, <2>2
<1>8. W(RoundMax)
  BY <1>3, <1>6, <1>7
<1> QED BY <1>0, <1>1, <1>2, <1>3, <1>4, <1>7, <1>8

\* The vectors that c cells take, and where each of them lies.
VectorsOf(c) == (c + Vec - 1) \div Vec

\* The vectors that cover a bin's bytes reach past them by less than a vector.
LEMMA VectorBounds ==
  ASSUME NEW c \in 0 .. BufSize
  PROVE  /\ VectorsOf(c) \in Nat /\ VectorsOf(c) * Vec \in Nat
         /\ c <= VectorsOf(c) * Vec /\ VectorsOf(c) * Vec <= BufSize
         /\ \A k \in Nat : k < VectorsOf(c) => k * Vec \in Nat /\ k * Vec + Vec <= VectorsOf(c) * Vec
<1>1. PICK V \in Nat \ {0} : V = Vec
  BY CountShapes
<1>2. BufSize \in Nat /\ c \in Nat
  BY CountShapes
<1>3. PICK u \in Nat : BufSize = u * V
  BY <1>1, WholeRules DEF WholeVectors
<1>4. PICK x \in Nat : x = c + V - 1
  BY <1>2
<1>5. x \div V \in Nat /\ x % V \in 0 .. V - 1 /\ x = (x \div V) * V + (x % V)
  BY DivMod
<1>6. PICK e \in Nat, r \in 0 .. V - 1 : e = x \div V /\ x = e * V + r
  BY <1>5
<1>7. VectorsOf(c) = e
  BY <1>1, <1>4, <1>6 DEF VectorsOf
<1>8. PICK y \in Nat : y = e * V
  BY <1>6
<1>9. c <= y
  BY <1>2, <1>4, <1>6, <1>8
<1>10. y <= BufSize
  <2>1. SUFFICES ASSUME u < e PROVE FALSE
    <3>1. SUFFICES ASSUME ~(u < e) PROVE y <= BufSize
      OBVIOUS
    <3>2. e = u \/ e < u
      BY <1>6, <3>1
    <3>3. CASE e = u
      BY <1>3, <1>8, <3>3
    <3>4. CASE e < u
      <4>1. e * V \in Nat /\ u * V \in Nat /\ e * V + V <= u * V
        BY <3>4, ChunksInTurn
      <4> QED BY <1>3, <1>8, <4>1
    <3> QED BY <3>2, <3>3, <3>4
  <2>2. u * V \in Nat /\ u * V + V <= e * V
    BY <2>1, ChunksInTurn
  <2> QED BY <1>2, <1>3, <1>4, <1>6, <1>8, <2>2
<1>11. ASSUME NEW k \in Nat, k < e PROVE k * V \in Nat /\ k * V + V <= y
  BY <1>8, <1>11, ChunksInTurn
<1> QED BY <1>1, <1>7, <1>8, <1>9, <1>10, <1>11

\* A byte is its bin and its morsel.
LEMMA ByteParts ==
  /\ \A v \in Bytes : BinOf(v) \in 0 .. Bins - 1 /\ MorselOf(v) \in 0 .. Morsels - 1
                        /\ v = BinOf(v) * Morsels + MorselOf(v)
  /\ \A b \in 0 .. Bins - 1, m \in 0 .. Morsels - 1 :
        b * Morsels + m \in Bytes /\ BinOf(b * Morsels + m) = b /\ MorselOf(b * Morsels + m) = m
<1>1. PICK M \in Nat \ {0} : M = Morsels
  BY CountShapes
<1>2. PICK B \in Nat \ {0} : B = Bins
  BY CountShapes
<1>3. B * M \in Nat
  BY <1>1, <1>2
<1>4. ASSUME NEW v \in 0 .. (B * M) - 1
      PROVE  v \div M \in 0 .. B - 1 /\ v % M \in 0 .. M - 1 /\ v = (v \div M) * M + (v % M)
  <2>1. v \in Nat /\ v < B * M
    BY <1>3
  <2>2. v \div M \in Nat /\ v % M \in 0 .. M - 1 /\ v = (v \div M) * M + (v % M)
    BY <2>1, DivMod
  <2>3. PICK e \in Nat, r \in 0 .. M - 1 : e = v \div M /\ r = v % M /\ v = e * M + r
    BY <2>2
  <2>4. e < B
    <3>1. SUFFICES ASSUME B = e \/ B < e PROVE FALSE
      BY <2>3
    <3>2. B * M <= e * M /\ e * M \in Nat
      <4>1. CASE B = e
        BY <2>3, <4>1
      <4>2. CASE B < e
        <5>1. B * M \in Nat /\ e * M \in Nat /\ B * M + M <= e * M
          BY <4>2, ChunksInTurn
        <5> QED BY <5>1
      <4> QED BY <3>1, <4>1, <4>2
    <3> QED BY <1>3, <2>1, <2>3, <3>2
  <2> QED BY <2>2, <2>3, <2>4
<1>5. ASSUME NEW b \in 0 .. B - 1, NEW m \in 0 .. M - 1
      PROVE  b * M + m \in 0 .. (B * M) - 1 /\ (b * M + m) \div M = b /\ (b * M + m) % M = m
  <2>1. b \in Nat /\ b < B /\ m \in Nat /\ m < M
    OBVIOUS
  <2>2. b * M \in Nat /\ b * M + M <= B * M
    BY <2>1, ChunksInTurn
  <2>3. PICK x \in Nat : x = b * M + m
    BY <2>1, <2>2
  <2>4. x \in 0 .. (B * M) - 1
    BY <1>3, <2>1, <2>2, <2>3
  <2>5. x \div M \in Nat /\ x % M \in 0 .. M - 1 /\ x = (x \div M) * M + (x % M)
    BY DivMod
  <2>6. PICK e \in Nat, r \in 0 .. M - 1 : e = x \div M /\ r = x % M /\ x = e * M + r
    BY <2>5
  <2>7. ~(e < b) /\ ~(b < e)
    <3>1. e < b => e * M \in Nat /\ e * M + M <= b * M
      BY <2>1, ChunksInTurn
    <3>2. b < e => e * M \in Nat /\ b * M + M <= e * M
      BY <2>1, ChunksInTurn
    <3> QED BY <2>1, <2>2, <2>3, <2>6, <3>1, <3>2
  <2>8. e = b
    BY <2>1, <2>7
  <2>9. r = m
    BY <2>1, <2>2, <2>3, <2>6, <2>8
  <2> QED BY <2>3, <2>4, <2>6, <2>8, <2>9
<1> QED BY <1>1, <1>2, <1>4, <1>5 DEF Bytes, BinOf, MorselOf

\* The bins' buffers follow one another.
Room == (Bins * BufSize) + Vec

\* The buffers lie one behind the other, with a vector's room after the last.
LEMMA BinBases ==
  /\ Room \in Nat
  /\ \A b \in 0 .. Bins - 1 : BinBase(b) \in Nat /\ BinBase(b) + BufSize + Vec <= Room
  /\ \A b, c \in 0 .. Bins - 1 : b < c => BinBase(b) + BufSize <= BinBase(c)
<1>1. PICK S \in Nat : S = BufSize
  BY CountShapes
<1>2. Bins \in Nat /\ Vec \in Nat
  BY CountShapes
<1>3. Bins * S \in Nat
  BY <1>2
<1>4. ASSUME NEW b \in Nat, NEW c \in Nat, b < c PROVE b * S \in Nat /\ b * S + S <= c * S
  BY <1>4, ChunksInTurn
<1>5. ASSUME NEW b \in 0 .. Bins - 1 PROVE b * S \in Nat /\ b * S + S <= Bins * S
  <2>1. b \in Nat /\ b < Bins
    BY <1>2
  <2> QED BY <1>2, <1>4, <2>1
<1>6. ASSUME NEW b \in 0 .. Bins - 1, NEW c \in 0 .. Bins - 1, b < c PROVE b * S + S <= c * S
  <2>1. b \in Nat /\ c \in Nat
    BY <1>2
  <2> QED BY <1>4, <1>6, <2>1
<1>7. Room = Bins * S + Vec /\ \A b : BinBase(b) = b * S
  BY <1>1 DEF Room, BinBase
<1> QED BY <1>1, <1>2, <1>3, <1>5, <1>6, <1>7

-----------------------------------------------------------------------------
(* The histogram: what a vector's cells add to the counters.                *)

Cells == {Pad} \cup (0 .. Morsels - 1)
Buffers == [0 .. Room - 1 -> Cells]
Holding(s, m) == {a \in Int : s[a] = m}
LoadPlane(s, p) == {<<l, s[p + l]>> : l \in {l \in 0 .. LoadLanes - 1 : s[p + l] # Pad}}

\* A load counts the cells it covers.
LEMMA LoadHolds ==
  ASSUME NEW s \in Buffers, NEW p \in Nat, p + LoadLanes <= Room
  PROVE  /\ LoadPlane(s, p) \in Planes
         /\ \A m \in 0 .. Morsels - 1 : Held(LoadPlane(s, p), m) = Among(Holding(s, m), p, LoadLanes)
<1>1. LoadLanes \in Nat /\ Room \in Nat
  BY CountShapes, BinBases
<1>2. \A l \in 0 .. LoadLanes - 1 : s[p + l] \in Cells
  BY <1>1 DEF Buffers
<1>3. LoadPlane(s, p) \in Planes
  <2>1. SUFFICES ASSUME NEW x \in LoadPlane(s, p) PROVE x \in Grid
    BY DEF Planes
  <2>2. PICK l \in 0 .. LoadLanes - 1 : s[p + l] # Pad /\ x = <<l, s[p + l]>>
    BY <2>1 DEF LoadPlane
  <2> QED BY <1>2, <2>2 DEF Grid, Cells
<1>4. ASSUME NEW m \in 0 .. Morsels - 1
      PROVE  Held(LoadPlane(s, p), m) = Among(Holding(s, m), p, LoadLanes)
  <2> DEFINE A == Members(Holding(s, m), p, LoadLanes)
             B == On(LoadPlane(s, p), m)
             f == [a \in A |-> <<a - p, m>>]
  <2>1. m # Pad
    BY DEF Pad
  <2>2. \A a \in A : a - p \in 0 .. LoadLanes - 1 /\ s[p + (a - p)] = m
    BY <1>1 DEF Members, Holding
  <2>3. \A a \in A : <<a - p, m>> \in B
    <3>1. SUFFICES ASSUME NEW a \in A PROVE <<a - p, m>> \in B
      OBVIOUS
    <3>2. PICK l \in 0 .. LoadLanes - 1 : l = a - p /\ s[p + l] = m
      BY <2>2
    <3>3. <<l, s[p + l]>> \in LoadPlane(s, p)
      BY <2>1, <3>2 DEF LoadPlane
    <3> QED BY <3>2, <3>3 DEF On
  <2>4. \A x \in B : \E a \in A : x = <<a - p, m>>
    <3>1. SUFFICES ASSUME NEW x \in B PROVE \E a \in A : x = <<a - p, m>>
      OBVIOUS
    <3>2. PICK l \in 0 .. LoadLanes - 1 : x = <<l, s[p + l]>>
      BY DEF On, LoadPlane
    <3>3. s[p + l] = m /\ (p + l) - p = l
      BY <3>2 DEF On
    <3>4. p + l \in A
      BY <1>1, <3>3 DEF Members, Holding
    <3> QED BY <3>2, <3>3, <3>4
  <2>5. IsFiniteSet(A)
    BY <1>1, AmongBounds
  <2>6. A \in SUBSET Int
    BY DEF Members
  <2> HIDE DEF A, B
  <2>7. f \in Bijection(A, B)
    <3>1. f \in [A -> B]
      BY <2>3
    <3>2. \A x, y \in A : f[x] = f[y] => x = y
      BY <2>6
    <3>3. \A y \in B : \E x \in A : f[x] = y
      BY <2>4
    <3> HIDE DEF f
    <3> QED BY <3>1, <3>2, <3>3, Zenon DEF Bijection, Injection, Surjection, IsInjective
  <2>8. Cardinality(A) = Cardinality(B)
    BY <2>5, <2>7, FS_Bijection DEF ExistsBijection
  <2> QED BY <2>8 DEF A, B, Held, Among
<1> QED BY <1>3, <1>4

\* A vector's cells are those of its eight loads.
LEMMA EightLoads ==
  ASSUME NEW T, NEW p \in Int, NEW L \in Nat
  PROVE  Among(T, p, 8 * L) =
           Among(T, p, L) + Among(T, p + L, L) + Among(T, p + 2 * L, L) + Among(T, p + 3 * L, L)
             + Among(T, p + 4 * L, L) + Among(T, p + 5 * L, L) + Among(T, p + 6 * L, L) + Among(T, p + 7 * L, L)
<1>1. ASSUME NEW q \in Int, NEW w \in Nat PROVE Among(T, q, L + w) = Among(T, q, L) + Among(T, q + L, w)
  BY AmongJoins
<1>2. ASSUME NEW q \in Int, NEW w \in Nat PROVE Among(T, q, w) \in Int
  BY AmongBounds
<1>3. Among(T, p, 8 * L) = Among(T, p, L) + Among(T, p + L, 7 * L)
  BY <1>1, 8 * L = L + 7 * L
<1>4. Among(T, p + L, 7 * L) = Among(T, p + L, L) + Among(T, p + 2 * L, 6 * L)
  BY <1>1, 7 * L = L + 6 * L, (p + L) + L = p + 2 * L
<1>5. Among(T, p + 2 * L, 6 * L) = Among(T, p + 2 * L, L) + Among(T, p + 3 * L, 5 * L)
  BY <1>1, 6 * L = L + 5 * L, (p + 2 * L) + L = p + 3 * L
<1>6. Among(T, p + 3 * L, 5 * L) = Among(T, p + 3 * L, L) + Among(T, p + 4 * L, 4 * L)
  BY <1>1, 5 * L = L + 4 * L, (p + 3 * L) + L = p + 4 * L
<1>7. Among(T, p + 4 * L, 4 * L) = Among(T, p + 4 * L, L) + Among(T, p + 5 * L, 3 * L)
  BY <1>1, 4 * L = L + 3 * L, (p + 4 * L) + L = p + 5 * L
<1>8. Among(T, p + 5 * L, 3 * L) = Among(T, p + 5 * L, L) + Among(T, p + 6 * L, 2 * L)
  BY <1>1, 3 * L = L + 2 * L, (p + 5 * L) + L = p + 6 * L
<1>9. Among(T, p + 6 * L, 2 * L) = Among(T, p + 6 * L, L) + Among(T, p + 7 * L, L)
  BY <1>1, 2 * L = L + L, (p + 6 * L) + L = p + 7 * L
<1>10. /\ Among(T, p, L) \in Int /\ Among(T, p + L, L) \in Int /\ Among(T, p + 2 * L, L) \in Int
       /\ Among(T, p + 3 * L, L) \in Int /\ Among(T, p + 4 * L, L) \in Int /\ Among(T, p + 5 * L, L) \in Int
       /\ Among(T, p + 6 * L, L) \in Int /\ Among(T, p + 7 * L, L) \in Int
  BY <1>2
<1> QED BY <1>3, <1>4, <1>5, <1>6, <1>7, <1>8, <1>9, <1>10

\* What the planes count, weight by weight.
Weighed(w0, w1, w2, m) == Held(w0, m) + 2 * Held(w1, m) + 4 * Held(w2, m)
Loads(s, p) == [i \in 0 .. 7 |-> LoadPlane(s, p + i * LoadLanes)]

\* The tree adds a vector's cells, morsel by morsel, to what the planes weigh.
LEMMA VectorAdds ==
  ASSUME NEW s \in Buffers, NEW p \in Nat, p + Vec <= Room,
         NEW w0 \in Planes, NEW w1 \in Planes, NEW w2 \in Planes,
         NEW a, a = Added(Loads(s, p), w0, w1, w2)
  PROVE  /\ a.w0 \in Planes /\ a.w1 \in Planes /\ a.w2 \in Planes /\ a.e \in Planes
         /\ \A m \in 0 .. Morsels - 1 :
              Weighed(a.w0, a.w1, a.w2, m) + 8 * Held(a.e, m)
                = Weighed(w0, w1, w2, m) + Among(Holding(s, m), p, Vec)
<1> DEFINE x == Loads(s, p)
<1>1. PICK L \in Nat \ {0} : L = LoadLanes /\ Vec = 8 * L
  BY CountShapes
<1>2. ASSUME NEW i \in 0 .. 7
      PROVE  /\ p + i * L \in Nat /\ p + i * L + L <= Room
             /\ x[i] = LoadPlane(s, p + i * L)
  <2>1. x[i] = LoadPlane(s, p + i * L)
    BY <1>1 DEF Loads
  <2>2. i * L \in Nat /\ i * L + L <= 8 * L
    BY ChunksInTurn, i \in Nat, i < 8, 8 \in Nat
  <2>3. Room \in Nat
    BY BinBases
  <2> HIDE DEF x
  <2> QED BY <1>1, <2>1, <2>2, <2>3
<1>3. ASSUME NEW i \in 0 .. 7
      PROVE  /\ x[i] \in Planes
             /\ \A m \in 0 .. Morsels - 1 : Held(x[i], m) = Among(Holding(s, m), p + i * L, L)
  <2>1. p + i * L \in Nat /\ p + i * L + LoadLanes <= Room /\ x[i] = LoadPlane(s, p + i * L)
    BY <1>1, <1>2
  <2> HIDE DEF x
  <2>2. /\ LoadPlane(s, p + i * L) \in Planes
        /\ \A m \in 0 .. Morsels - 1 :
             Held(LoadPlane(s, p + i * L), m) = Among(Holding(s, m), p + i * L, LoadLanes)
    BY <2>1, LoadHolds
  <2> QED BY <1>1, <2>1, <2>2
<1>4. x \in [0 .. 7 -> Planes]
  <2>1. DOMAIN x = 0 .. 7 /\ x = [i \in 0 .. 7 |-> x[i]]
    BY DEF Loads
  <2> HIDE DEF x
  <2> QED BY <1>3, <2>1
<1> HIDE DEF x
<1>5. a = Added(x, w0, w1, w2)
  BY DEF x
<1>6. ASSUME NEW m \in 0 .. Morsels - 1
      PROVE  /\ a.w0 \in Planes /\ a.w1 \in Planes /\ a.w2 \in Planes /\ a.e \in Planes
             /\ Weighed(a.w0, a.w1, a.w2, m) + 8 * Held(a.e, m)
                  = Weighed(w0, w1, w2, m) + Among(Holding(s, m), p, Vec)
  <2>1. /\ a.w0 \in Planes /\ a.w1 \in Planes /\ a.w2 \in Planes /\ a.e \in Planes
        /\ Held(a.w0, m) + 2 * Held(a.w1, m) + 4 * Held(a.w2, m) + 8 * Held(a.e, m)
             = Held(w0, m) + 2 * Held(w1, m) + 4 * Held(w2, m)
                  + Held(x[0], m) + Held(x[1], m) + Held(x[2], m) + Held(x[3], m)
                  + Held(x[4], m) + Held(x[5], m) + Held(x[6], m) + Held(x[7], m)
    BY <1>4, <1>5, TreeAdds
  <2> DEFINE T == Holding(s, m)
  <2>2. /\ Held(x[0], m) = Among(T, p + 0 * L, L) /\ Held(x[1], m) = Among(T, p + 1 * L, L)
        /\ Held(x[2], m) = Among(T, p + 2 * L, L) /\ Held(x[3], m) = Among(T, p + 3 * L, L)
        /\ Held(x[4], m) = Among(T, p + 4 * L, L) /\ Held(x[5], m) = Among(T, p + 5 * L, L)
        /\ Held(x[6], m) = Among(T, p + 6 * L, L) /\ Held(x[7], m) = Among(T, p + 7 * L, L)
    BY <1>3
  <2> HIDE DEF T
  <2>3. Among(T, p, 8 * L) =
           Among(T, p, L) + Among(T, p + L, L) + Among(T, p + 2 * L, L) + Among(T, p + 3 * L, L)
             + Among(T, p + 4 * L, L) + Among(T, p + 5 * L, L) + Among(T, p + 6 * L, L) + Among(T, p + 7 * L, L)
    BY EightLoads
  <2>4. p + 0 * L = p /\ p + 1 * L = p + L
    OBVIOUS
  <2>5. ASSUME NEW q \in Int PROVE Among(T, q, L) \in Int
    BY AmongBounds
  <2>6. /\ Among(T, p, L) \in Int /\ Among(T, p + L, L) \in Int /\ Among(T, p + 2 * L, L) \in Int
        /\ Among(T, p + 3 * L, L) \in Int /\ Among(T, p + 4 * L, L) \in Int /\ Among(T, p + 5 * L, L) \in Int
        /\ Among(T, p + 6 * L, L) \in Int /\ Among(T, p + 7 * L, L) \in Int
    BY <2>5
  <2>7. \A q \in Planes : Held(q, m) \in Int
    BY HeldBounds
  <2>8. /\ Held(w0, m) \in Int /\ Held(w1, m) \in Int /\ Held(w2, m) \in Int
        /\ Held(a.w0, m) \in Int /\ Held(a.w1, m) \in Int /\ Held(a.w2, m) \in Int /\ Held(a.e, m) \in Int
    BY <2>1, <2>7
  <2>9. Held(x[0], m) = Among(T, p, L) /\ Held(x[1], m) = Among(T, p + L, L)
    BY <2>2, <2>4
  <2>10. Held(w0, m) + 2 * Held(w1, m) + 4 * Held(w2, m)
           + Held(x[0], m) + Held(x[1], m) + Held(x[2], m) + Held(x[3], m)
           + Held(x[4], m) + Held(x[5], m) + Held(x[6], m) + Held(x[7], m)
         = Held(w0, m) + 2 * Held(w1, m) + 4 * Held(w2, m) + Among(T, p, 8 * L)
    BY <2>2, <2>3, <2>6, <2>8, <2>9
  <2> QED BY <1>1, <2>1, <2>10 DEF Weighed, T
<1>7. 0 \in 0 .. Morsels - 1
  BY CountShapes
<1> QED BY <1>6, <1>7

-----------------------------------------------------------------------------
(* The histogram: a vector is compressed into the bins.                     *)

\* Where a byte lies in an input; how often it is among its first p bytes; and how often it
\* is in its bin's buffer.
Spots(i, v) == {q \in Int : i[q + 1] = v}
Seen(i, v, p) == Among(Spots(i, v), 0, p)
Waits(s, c, v) == Among(Holding(s, MorselOf(v)), BinBase(BinOf(v)), c[BinOf(v)])

\* The bytes counted singly are those of the input at those places.
LEMMA OccurrencesSeen ==
  ASSUME NEW v, NEW i \in Nat, NEW k \in Nat
  PROVE  Occurrences(v, i, i + k) = Among(Spots(in, v), i, k)
<1>1. {p \in i .. i + k - 1 : Byte(p) = v} = Members(Spots(in, v), i, k)
  BY DEF Members, Spots, Byte
<1>2. Occurrences(v, i, i + k) = Cardinality({p \in i .. i + k - 1 : Byte(p) = v})
  BY DEF Occurrences
<1> QED BY <1>1, <1>2 DEF Among

\* What is seen of an input grows by what lies between.
LEMMA SeenGrows ==
  ASSUME NEW i, NEW v, NEW p \in Nat, NEW w \in Nat
  PROVE  /\ Seen(i, v, p + w) = Seen(i, v, p) + Among(Spots(i, v), p, w)
         /\ Seen(i, v, p) \in 0 .. p /\ Among(Spots(i, v), p, w) \in 0 .. w
<1>1. Among(Spots(i, v), 0, p + w) = Among(Spots(i, v), 0, p) + Among(Spots(i, v), 0 + p, w)
  BY AmongJoins
<1>2. 0 + p = p
  OBVIOUS
<1> QED BY <1>1, <1>2, AmongBounds DEF Seen

\* The bytes of the next vector are bytes of the input.
VectorThere == in \in Seq(Bytes) /\ ptr \in Nat /\ ptr + Vec <= Len(in)

\* The next vector is of bytes.
LEMMA VectorBytes ==
  ASSUME VectorThere, NEW p \in 0 .. Vec - 1
  PROVE  Byte(ptr + p) = in[(ptr + p) + 1] /\ Byte(ptr + p) \in Bytes
<1>1. Vec \in Nat
  BY CountShapes
<1>2. PICK x \in Nat : x = ptr + p + 1
  BY <1>1 DEF VectorThere
<1>3. x \in 1 .. Len(in) /\ x = (ptr + p) + 1
  BY <1>1, <1>2 DEF VectorThere
<1>4. in[x] \in Bytes
  BY <1>3 DEF VectorThere
<1> QED BY <1>3, <1>4 DEF Byte

\* A compressed row holds a bin's bytes of the vector, each once: a lane's byte is found, its
\* lane is the number of those before it.
LEMMA HitRules ==
  ASSUME VectorThere, NEW b
  PROVE  /\ Cardinality(Hits(b, Vec)) \in 0 .. Vec
         /\ \A l \in 0 .. Cardinality(Hits(b, Vec)) - 1 :
              /\ Hit(b, l) \in 0 .. Vec - 1 /\ BinOf(Byte(ptr + Hit(b, l))) = b
              /\ Cardinality(Hits(b, Hit(b, l))) = l
         /\ \A p \in 0 .. Vec - 1 : BinOf(Byte(ptr + p)) = b =>
              /\ Cardinality(Hits(b, p)) \in 0 .. Cardinality(Hits(b, Vec)) - 1
              /\ Hit(b, Cardinality(Hits(b, p))) = p
<1> DEFINE M == [p \in 0 .. Vec - 1 |-> BinOf(Byte(ptr + p))]
           c == Cardinality(Hits(b, Vec))
<1>1. Vec \in Nat /\ Vec \in 0 .. Vec
  BY CountShapes
<1>2. ASSUME NEW p \in 0 .. Vec PROVE Hits(b, p) = {q \in 0 .. p - 1 : M[q] = b}
  <2>1. \A q \in 0 .. p - 1 : M[q] = BinOf(Byte(ptr + q))
    BY <1>1
  <2> HIDE DEF M
  <2> QED BY <2>1 DEF Hits
<1>3. \A p \in 0 .. Vec - 1 : M[p] = BinOf(Byte(ptr + p))
  OBVIOUS
<1>4. DOMAIN M = 0 .. Vec - 1
  OBVIOUS
<1> HIDE DEF M
<1>5. ASSUME NEW p \in 0 .. Vec PROVE Cardinality(Hits(b, p)) = CountOf(M, b, p)
  BY <1>2 DEF CountOf
<1>6. ASSUME NEW p \in 0 .. Vec PROVE IsFiniteSet(Hits(b, p)) /\ Cardinality(Hits(b, p)) \in 0 .. p
  <2>1. IsFiniteSet(0 .. p - 1) /\ Cardinality(0 .. p - 1) = p
    BY <1>1, FS_Interval
  <2>2. Hits(b, p) \in SUBSET (0 .. p - 1)
    BY DEF Hits
  <2>3. IsFiniteSet(Hits(b, p)) /\ Cardinality(Hits(b, p)) <= p
    BY <2>1, <2>2, FS_Subset
  <2> QED BY <2>3, FS_CardinalityType
<1>7. c \in 0 .. Vec /\ c = CountOf(M, b, Vec)
  BY <1>1, <1>5, <1>6
<1>8. ASSUME NEW l \in 0 .. c - 1
      PROVE  /\ Hit(b, l) \in 0 .. Vec - 1 /\ BinOf(Byte(ptr + Hit(b, l))) = b
             /\ Cardinality(Hits(b, Hit(b, l))) = l
  <2> DEFINE p == Place(M, b, l)
  <2>1. p \in 0 .. Vec - 1 /\ M[p] = b /\ CountOf(M, b, p) = l
    <3>1. l \in Nat /\ l < CountOf(M, b, Vec)
      <4> HIDE DEF c
      <4> QED BY <1>7
    <3> QED BY <1>1, <1>4, <3>1, PlaceThere
  <2> HIDE DEF p, c
  <2>2. p \in Hits(b, Vec) /\ Cardinality(Hits(b, p)) = l
    <3>1. p \in 0 .. Vec
      BY <1>1, <2>1
    <3>2. BinOf(Byte(ptr + p)) = b
      BY <1>3, <2>1
    <3> QED BY <1>5, <2>1, <3>1, <3>2 DEF Hits
  <2>3. Hit(b, l) \in Hits(b, Vec) /\ Cardinality(Hits(b, Hit(b, l))) = l
    BY <2>2 DEF Hit
  <2> QED BY <2>3 DEF Hits
<1>9. ASSUME NEW p \in 0 .. Vec - 1, BinOf(Byte(ptr + p)) = b
      PROVE  /\ Cardinality(Hits(b, p)) \in 0 .. c - 1
             /\ Hit(b, Cardinality(Hits(b, p))) = p
  <2> DEFINE l == Cardinality(Hits(b, p))
  <2>1. p \in 0 .. Vec /\ M[p] = b
    BY <1>1, <1>3, <1>9
  <2>2. l \in 0 .. c - 1
    <3>1. Hits(b, p) \in SUBSET Hits(b, Vec) /\ p \in Hits(b, Vec) /\ p \notin Hits(b, p)
      BY <1>1, <1>9 DEF Hits
    <3>2. IsFiniteSet(Hits(b, Vec)) /\ c \in Nat /\ l \in Nat
      BY <1>1, <1>6, <2>1
    <3>3. l <= c /\ (c = l => Hits(b, Vec) = Hits(b, p))
      BY <3>1, <3>2, FS_Subset
    <3> QED BY <3>1, <3>2, <3>3
  <2>3. CountOf(M, b, p) = l
    BY <1>5, <2>1
  <2>4. /\ Hit(b, l) \in 0 .. Vec - 1 /\ BinOf(Byte(ptr + Hit(b, l))) = b
        /\ Cardinality(Hits(b, Hit(b, l))) = l
    <3> HIDE DEF l, c
    <3> QED BY <1>8, <2>2
  <2> HIDE DEF l, c
  <2>5. PICK h \in 0 .. Vec - 1 : h = Hit(b, l)
    BY <2>4
  <2>6. M[h] = b /\ h \in 0 .. Vec
    BY <1>1, <1>3, <2>4, <2>5
  <2>7. CountOf(M, b, h) = l
    BY <1>5, <2>4, <2>5, <2>6
  <2>8. Place(M, b, CountOf(M, b, h)) = h
    BY <1>1, <1>4, <2>6, PlaceIs
  <2>9. Place(M, b, CountOf(M, b, p)) = p
    BY <1>1, <1>4, <2>1, PlaceIs
  <2>10. h = p
    BY <2>3, <2>7, <2>8, <2>9
  <2> QED BY <2>2, <2>5, <2>10 DEF l
<1> QED BY <1>7, <1>8, <1>9

\* So a row holds a morsel as often as its byte is in the vector.
LEMMA RowHolds ==
  ASSUME VectorThere, NEW v \in Bytes, NEW s, NEW base \in Int, NEW c, c = Cardinality(Hits(BinOf(v), Vec)),
         \A l \in 0 .. Vec - 1 : s[base + l] = Row(BinOf(v))[l]
  PROVE  Among(Holding(s, MorselOf(v)), base, c) = Among(Spots(in, v), ptr, Vec)
<1> DEFINE b == BinOf(v)
           m == MorselOf(v)
           A == Members(Holding(s, m), base, c)
           B == Members(Spots(in, v), ptr, Vec)
           f == [a \in A |-> ptr + Hit(b, a - base)]
<1>0. Vec \in Nat /\ c \in 0 .. Vec /\ ptr \in Nat
  BY CountShapes, HitRules DEF VectorThere
<1>1. ASSUME NEW l \in 0 .. c - 1
      PROVE  /\ Hit(b, l) \in 0 .. Vec - 1 /\ BinOf(Byte(ptr + Hit(b, l))) = b
             /\ Cardinality(Hits(b, Hit(b, l))) = l
             /\ s[base + l] = MorselOf(Byte(ptr + Hit(b, l)))
  <2>1. l \in 0 .. Vec - 1 /\ l < Cardinality(Hits(b, Vec))
    BY <1>0
  <2>2. Row(b)[l] = MorselOf(Byte(ptr + Hit(b, l)))
    BY <2>1 DEF Row
  <2>3. s[base + l] = Row(b)[l]
    BY <2>1
  <2> HIDE DEF b
  <2> QED BY <2>2, <2>3, HitRules DEF b
<1>2. ASSUME NEW p \in 0 .. Vec - 1
      PROVE  in[(ptr + p) + 1] = v <=> BinOf(Byte(ptr + p)) = b /\ MorselOf(Byte(ptr + p)) = m
  <2>1. Byte(ptr + p) = in[(ptr + p) + 1] /\ Byte(ptr + p) \in Bytes
    BY VectorBytes
  <2>2. PICK u \in Bytes : u = Byte(ptr + p)
    BY <2>1
  <2>3. u = BinOf(u) * Morsels + MorselOf(u) /\ v = BinOf(v) * Morsels + MorselOf(v)
    BY ByteParts
  <2> QED BY <2>1, <2>2, <2>3
<1>3. ASSUME NEW a \in A
      PROVE  /\ a - base \in 0 .. c - 1 /\ Hit(b, a - base) \in Int
             /\ ptr + Hit(b, a - base) \in B /\ Cardinality(Hits(b, Hit(b, a - base))) = a - base
  <2>1. a \in base .. base + c - 1 /\ s[a] = m
    BY DEF Members, Holding
  <2>2. PICK l \in 0 .. c - 1 : l = a - base /\ a = base + l
    <3>1. a - base \in 0 .. c - 1 /\ a = base + (a - base)
      BY <1>0, <2>1
    <3> QED BY <3>1
  <2> HIDE DEF b, m, B
  <2>3. PICK h \in 0 .. Vec - 1 : h = Hit(b, l)
    BY <1>1
  <2>4. in[(ptr + h) + 1] = v
    BY <1>1, <1>2, <2>1, <2>2, <2>3
  <2>5. ptr + h \in B
    BY <1>0, <2>4 DEF B, Members, Spots
  <2> QED BY <1>1, <2>2, <2>3, <2>5
<1>4. ASSUME NEW q \in B PROVE \E a \in A : ptr + Hit(b, a - base) = q
  <2>1. q \in ptr .. ptr + Vec - 1 /\ in[q + 1] = v
    BY DEF Members, Spots
  <2>2. PICK p \in 0 .. Vec - 1 : q = ptr + p
    <3>1. q - ptr \in 0 .. Vec - 1 /\ q = ptr + (q - ptr)
      BY <1>0, <2>1
    <3> QED BY <3>1
  <2> HIDE DEF b, m, A
  <2>3. BinOf(Byte(ptr + p)) = b /\ MorselOf(Byte(ptr + p)) = m
    BY <1>2, <2>1, <2>2
  <2>4. Cardinality(Hits(b, p)) \in 0 .. c - 1 /\ Hit(b, Cardinality(Hits(b, p))) = p
    BY <2>3, HitRules DEF b
  <2>5. PICK l \in 0 .. c - 1 : l = Cardinality(Hits(b, p))
    BY <2>4
  <2>6. s[base + l] = m
    BY <1>1, <2>3, <2>4, <2>5
  <2>7. base + l \in A /\ (base + l) - base = l
    BY <1>0, <2>6 DEF A, Members, Holding
  <2> QED BY <2>2, <2>4, <2>5, <2>7
<1>5. IsFiniteSet(A) /\ A \in SUBSET Int
  BY <1>0, AmongBounds DEF Members
<1> HIDE DEF A, B, b
<1>6. f \in Bijection(A, B)
  <2>1. f \in [A -> B]
    BY <1>3
  <2>2. \A x, y \in A : f[x] = f[y] => x = y
    <3>1. SUFFICES ASSUME NEW x \in A, NEW y \in A, f[x] = f[y] PROVE x = y
      OBVIOUS
    <3>2. Hit(b, x - base) = Hit(b, y - base)
      BY <1>0, <1>3, <3>1
    <3>3. x - base = y - base
      BY <1>3, <3>2
    <3> QED BY <1>5, <3>3
  <2>3. \A q \in B : \E a \in A : f[a] = q
    BY <1>4
  <2> HIDE DEF f
  <2> QED BY <2>1, <2>2, <2>3, Zenon DEF Bijection, Injection, Surjection, IsInjective
<1>7. Cardinality(A) = Cardinality(B)
  BY <1>5, <1>6, FS_Bijection DEF ExistsBijection
<1> QED BY <1>7 DEF A, B, Among

-----------------------------------------------------------------------------
(* The histogram: its inductive invariant.                                  *)

CountPhases == {"chunk", "align", "rounds", "vectors", "count", "done"}
Filling == {"vectors", "count"}
Counters == [0 .. Morsels - 1 -> 0 .. WideMod - 1]
CountShape ==
  /\ in \in Seq(Bytes) /\ offset \in Nat /\ ptr \in Nat
  /\ left \in 0 .. MaxChunk /\ round \in 0 .. RoundMax /\ WholeVectors(round)
  /\ ptr + left + round <= Len(in)
  /\ pc \in CountPhases /\ (pc = "align" => left >= Vec) /\ (pc \notin Filling => round = 0)
  /\ scratch \in Buffers /\ count \in [0 .. Bins - 1 -> 0 .. BufSize]
  /\ hist16 \in [0 .. Bins - 1 -> Counters] /\ freq \in [Bytes -> Nat]

\* While a round is being binned: every byte passed is in the result, in its bin's counters
\* or in its bin's buffer, and what is not in the result is of this round.
Ledger ==
  pc \in Filling =>
    \A v \in Bytes :
      /\ freq[v] + hist16[BinOf(v)][MorselOf(v)] + Waits(scratch, count, v) = Seen(in, v, ptr)
      /\ Seen(in, v, ptr) + round <= freq[v] + RoundMax
Settled == pc \notin Filling => \A v \in Bytes : freq[v] = Seen(in, v, ptr)

\* While a bin is being counted: its counters and planes hold the vectors counted, no
\* counter of 8 bits can have wrapped, and what follows its last cell counts nothing.
TreeShape(t, c) ==
  /\ t.bin \in 0 .. Bins - 1 /\ t.k \in Nat /\ t.k <= VectorsOf(c[t.bin])
  /\ t.w0 \in Planes /\ t.w1 \in Planes /\ t.w2 \in Planes
  /\ t.eights \in [0 .. Morsels - 1 -> Nat] /\ t.h \in [0 .. Morsels - 1 -> Nat]
  /\ \A m \in 0 .. Morsels - 1 : t.eights[m] <= (t.k % Burst) * LoadLanes
  /\ t.k = VectorsOf(c[t.bin]) => \A m \in 0 .. Morsels - 1 : t.eights[m] = 0
TailPadded(t, s, c) ==
  \A a \in BinBase(t.bin) + c[t.bin] .. BinBase(t.bin) + VectorsOf(c[t.bin]) * Vec - 1 : s[a] = Pad
TreeHolds(t, s) ==
  \A m \in 0 .. Morsels - 1 :
    8 * (t.h[m] + t.eights[m]) + Weighed(t.w0, t.w1, t.w2, m)
      = Among(Holding(s, m), BinBase(t.bin), t.k * Vec)
Counting == pc = "count" => TreeShape(tree, count) /\ TailPadded(tree, scratch, count) /\ TreeHolds(tree, scratch)

HistInv == CountShape /\ Ledger /\ Settled /\ Counting

\* A bin with room for a vector keeps the store inside its buffer, and no cell is in two bins.
LEMMA OneBin ==
  ASSUME NEW b \in 0 .. Bins - 1, NEW c \in 0 .. Bins - 1,
         NEW x \in 0 .. BufSize - 1, NEW y \in 0 .. BufSize - 1, BinBase(b) + x = BinBase(c) + y
  PROVE  b = c /\ x = y
<1>1. BufSize \in Nat /\ Bins \in Nat
  BY CountShapes
<1>2. BinBase(b) \in Nat /\ BinBase(c) \in Nat
  BY BinBases
<1>3. ~(b < c) /\ ~(c < b)
  <2>1. b < c => BinBase(b) + BufSize <= BinBase(c)
    BY BinBases
  <2>2. c < b => BinBase(c) + BufSize <= BinBase(b)
    BY BinBases
  <2> QED BY <1>1, <1>2, <2>1, <2>2
<1>4. b = c
  BY <1>1, <1>3
<1> QED BY <1>1, <1>2, <1>4

\* What a vector's stores leave: the rows at the bins' ends, and nothing else disturbed.
LEMMA RowsStored ==
  ASSUME CountShape, ReadVector
  PROVE  /\ VectorThere /\ scratch' \in Buffers
         /\ \A b \in 0 .. Bins - 1 : count[b] + Vec < BufSize
         /\ \A b \in 0 .. Bins - 1 : \A a \in BinBase(b) .. BinBase(b) + count[b] - 1 : scratch'[a] = scratch[a]
         /\ \A b \in 0 .. Bins - 1 : \A l \in 0 .. Vec - 1 : scratch'[(BinBase(b) + count[b]) + l] = Row(b)[l]
<1> DEFINE Lane(b, a) == a - BinBase(b) - count[b]
           Lands(b, a) == Lane(b, a) \in 0 .. Vec - 1
           Top(b, a) == Lands(b, a) /\ \A c \in DOMAIN count : Lands(c, a) => c <= b
<1>1. Vec \in Nat \ {0} /\ BufSize \in Nat /\ Bins \in Nat /\ Room \in Nat
  BY CountShapes, BinBases
<1>2. DOMAIN count = 0 .. Bins - 1 /\ DOMAIN scratch = 0 .. Room - 1
  BY DEF CountShape, Buffers
<1>3. VectorThere
  <2>1. round \in Nat /\ round > 0 /\ WholeVectors(round)
    BY <1>1, CountShapes DEF CountShape, ReadVector
  <2>2. round >= Vec
    BY <2>1, WholeRules
  <2> QED BY <1>1, <2>1, <2>2 DEF VectorThere, CountShape
<1>4. ASSUME NEW b \in 0 .. Bins - 1 PROVE count[b] \in Nat /\ count[b] + Vec < BufSize
  <2>1. count[b] \in Nat
    BY <1>1 DEF CountShape
  <2>2. ~(count[b] >= BufSize - Vec)
    BY <1>2 DEF ReadVector, Due, NearlyFull
  <2> QED BY <1>1, <2>1, <2>2
<1>5. ASSUME NEW b \in 0 .. Bins - 1 PROVE BinBase(b) \in Nat /\ BinBase(b) + BufSize + Vec <= Room
  BY BinBases
<1>6. ASSUME NEW b \in 0 .. Bins - 1, NEW c \in 0 .. Bins - 1, NEW x \in 0 .. BufSize - 1, Lands(c, BinBase(b) + x)
      PROVE  c = b /\ Lane(b, BinBase(b) + x) = x - count[b]
  <2>1. PICK l \in 0 .. Vec - 1 : (BinBase(b) + x) - BinBase(c) - count[c] = l
    BY <1>6
  <2>2. BinBase(b) + x = BinBase(c) + (count[c] + l)
    BY <1>1, <1>4, <1>5, <2>1
  <2>3. count[c] + l \in 0 .. BufSize - 1
    BY <1>1, <1>4
  <2>4. c = b
    BY <2>2, <2>3, OneBin
  <2> QED BY <1>1, <1>4, <1>5, <2>4
<1>7. ASSUME NEW b \in 0 .. Bins - 1, NEW l \in 0 .. Vec - 1
      PROVE  /\ (BinBase(b) + count[b]) + l \in 0 .. Room - 1
             /\ Lands(b, (BinBase(b) + count[b]) + l) /\ Lane(b, (BinBase(b) + count[b]) + l) = l
             /\ \A c \in 0 .. Bins - 1 : Lands(c, (BinBase(b) + count[b]) + l) => c = b
  <2>1. PICK x \in 0 .. BufSize - 1 : x = count[b] + l /\ BinBase(b) + x = (BinBase(b) + count[b]) + l
    BY <1>1, <1>4, <1>5
  <2>2. \A c \in 0 .. Bins - 1 : Lands(c, BinBase(b) + x) => c = b
    <3> HIDE DEF Lands
    <3> QED BY <1>6
  <2>3. Lane(b, (BinBase(b) + count[b]) + l) = l
    BY <1>1, <1>4, <1>5
  <2> QED BY <1>1, <1>4, <1>5, <2>1, <2>2, <2>3
<1>8. scratch' = [a \in DOMAIN scratch |->
                     IF \A b \in DOMAIN count : ~Lands(b, a) THEN scratch[a]
                     ELSE LET b == CHOOSE b \in DOMAIN count : Top(b, a)
                          IN  [c \in DOMAIN count |-> Row(c)][b][Lane(b, a)]]
  BY DEF ReadVector
<1> HIDE DEF Lands, Lane
<1>9. ASSUME NEW a \in 0 .. Room - 1, \A b \in 0 .. Bins - 1 : ~Lands(b, a) PROVE scratch'[a] = scratch[a]
  BY <1>2, <1>8, <1>9
<1>10. ASSUME NEW a \in 0 .. Room - 1, NEW b \in 0 .. Bins - 1, Lands(b, a),
              \A c \in 0 .. Bins - 1 : Lands(c, a) => c = b
       PROVE  scratch'[a] = Row(b)[Lane(b, a)]
  <2>1. Top(b, a)
    BY <1>1, <1>2, <1>10
  <2>2. \A c \in DOMAIN count : Top(c, a) => c = b
    BY <1>2, <1>10
  <2> HIDE DEF Top
  <2>3. (CHOOSE c \in DOMAIN count : Top(c, a)) = b
    BY <1>2, <2>1, <2>2
  <2>4. ~ \A c \in DOMAIN count : ~Lands(c, a)
    BY <1>2, <1>10
  <2>5. scratch'[a] = [c \in DOMAIN count |-> Row(c)][b][Lane(b, a)]
    BY <1>2, <1>8, <2>3, <2>4
  <2> QED BY <1>2, <2>5
<1>11. \A b \in 0 .. Bins - 1 : \A l \in 0 .. Vec - 1 : scratch'[(BinBase(b) + count[b]) + l] = Row(b)[l]
  <2>1. SUFFICES ASSUME NEW b \in 0 .. Bins - 1, NEW l \in 0 .. Vec - 1
                 PROVE  scratch'[(BinBase(b) + count[b]) + l] = Row(b)[l]
    OBVIOUS
  <2>2. PICK a \in 0 .. Room - 1 : a = (BinBase(b) + count[b]) + l
    BY <1>7
  <2>3. Lands(b, a) /\ Lane(b, a) = l /\ \A c \in 0 .. Bins - 1 : Lands(c, a) => c = b
    BY <1>7, <2>2
  <2> QED BY <1>10, <2>2, <2>3
<1>12. \A b \in 0 .. Bins - 1 : \A a \in BinBase(b) .. BinBase(b) + count[b] - 1 : scratch'[a] = scratch[a]
  <2>1. SUFFICES ASSUME NEW b \in 0 .. Bins - 1, NEW a \in BinBase(b) .. BinBase(b) + count[b] - 1
                 PROVE  scratch'[a] = scratch[a]
    OBVIOUS
  <2>2. PICK x \in 0 .. BufSize - 1 : a = BinBase(b) + x /\ x < count[b]
    <3>1. a - BinBase(b) \in 0 .. BufSize - 1 /\ a = BinBase(b) + (a - BinBase(b)) /\ a - BinBase(b) < count[b]
      BY <1>1, <1>4, <1>5
    <3> QED BY <3>1
  <2>3. ASSUME NEW c \in 0 .. Bins - 1, Lands(c, a) PROVE FALSE
    <3>1. c = b /\ Lane(b, a) = x - count[b]
      BY <1>6, <2>2, <2>3
    <3>2. Lane(b, a) \in 0 .. Vec - 1
      BY <2>3, <3>1 DEF Lands
    <3> QED BY <1>4, <2>2, <3>1, <3>2
  <2>4. a \in 0 .. Room - 1
    BY <1>1, <1>4, <1>5
  <2> QED BY <1>9, <2>3, <2>4
<1>13. scratch' \in Buffers
  <2>1. ASSUME NEW a \in 0 .. Room - 1 PROVE scratch'[a] \in Cells
    <3>1. CASE \A b \in 0 .. Bins - 1 : ~Lands(b, a)
      BY <1>9, <3>1 DEF CountShape, Buffers
    <3>2. CASE \E b \in 0 .. Bins - 1 : Lands(b, a)
      <4>1. PICK b \in 0 .. Bins - 1 : Lands(b, a)
        BY <3>2
      <4>2. PICK l \in 0 .. Vec - 1 : l = Lane(b, a)
        BY <4>1 DEF Lands
      <4>3. a = (BinBase(b) + count[b]) + l
        BY <1>1, <1>4, <1>5, <4>2 DEF Lane
      <4>4. scratch'[a] = Row(b)[l]
        BY <1>11, <4>3
      <4>5. Row(b)[l] \in 0 .. Morsels - 1
        <5>1. CASE l < Cardinality(Hits(b, Vec))
          <6>1. Hit(b, l) \in 0 .. Vec - 1
            <7>1. l \in 0 .. Cardinality(Hits(b, Vec)) - 1 
              BY <1>3, <1>1, <5>1, HitRules
            <7> QED BY <1>3, <7>1, HitRules
          <6>2. Byte(ptr + Hit(b, l)) \in Bytes
            BY <1>3, <6>1, VectorBytes
          <6>3. Row(b)[l] = MorselOf(Byte(ptr + Hit(b, l)))
            BY <5>1 DEF Row
          <6> QED BY <6>2, <6>3, ByteParts
        <5>2. CASE ~(l < Cardinality(Hits(b, Vec)))
          <6>1. Row(b)[l] = 0
            BY <5>2 DEF Row
          <6> QED BY <6>1, CountShapes
        <5> QED BY <5>1, <5>2
      <4> QED BY <4>4, <4>5 DEF Cells
    <3> QED BY <3>1, <3>2
  <2>2. DOMAIN scratch' = 0 .. Room - 1 /\ scratch' = [a \in 0 .. Room - 1 |-> scratch'[a]]
    BY <1>2, <1>8
  <2> QED BY <2>1, <2>2 DEF Buffers
<1> QED BY <1>3, <1>4, <1>11, <1>12, <1>13

\* Cells left alone hold what they held.
Alike(s, t, p, w) == \A a \in p .. p + w - 1 : t[a] = s[a]
LEMMA SameCells ==
  ASSUME NEW s, NEW t, NEW p \in Int, NEW w \in Nat, Alike(s, t, p, w), NEW m
  PROVE  Among(Holding(t, m), p, w) = Among(Holding(s, m), p, w)
<1>1. Members(Holding(t, m), p, w) = Members(Holding(s, m), p, w)
  BY DEF Members, Holding, Alike
<1> QED BY <1>1 DEF Among

\* Counts of a bin, and a byte's bin and morsel.
LEMMA BinShapes ==
  ASSUME CountShape, NEW v \in Bytes
  PROVE  /\ BinOf(v) \in 0 .. Bins - 1 /\ MorselOf(v) \in 0 .. Morsels - 1
         /\ BinBase(BinOf(v)) \in Nat /\ count[BinOf(v)] \in Nat /\ count[BinOf(v)] \in 0 .. BufSize
         /\ Waits(scratch, count, v) \in Nat /\ freq[v] \in Nat
         /\ hist16[BinOf(v)][MorselOf(v)] \in 0 .. WideMod - 1
         /\ Seen(in, v, ptr) \in Nat
<1>1. BinOf(v) \in 0 .. Bins - 1 /\ MorselOf(v) \in 0 .. Morsels - 1
  BY ByteParts
<1>2. BinBase(BinOf(v)) \in Nat
  BY <1>1, BinBases
<1>3. count[BinOf(v)] \in 0 .. BufSize
  BY <1>1 DEF CountShape
<1>4. count[BinOf(v)] \in Nat
  BY <1>3, CountShapes
<1>5. Waits(scratch, count, v) \in Nat
  BY <1>2, <1>4, AmongBounds DEF Waits
<1>6. freq[v] \in Nat /\ ptr \in Nat
  BY DEF CountShape
<1>7. hist16[BinOf(v)][MorselOf(v)] \in 0 .. WideMod - 1
  <2>1. hist16[BinOf(v)] \in Counters
    BY <1>1 DEF CountShape
  <2> QED BY <1>1, <2>1 DEF Counters
<1>8. Seen(in, v, ptr) \in Nat
  <2>1. Seen(in, v, ptr) \in 0 .. ptr
    BY <1>6, SeenGrows
  <2> QED BY <2>1
<1> QED BY <1>1, <1>2, <1>3, <1>4, <1>5, <1>6, <1>7, <1>8

\* Binning a vector: each of its bytes waits in its bin's buffer, none of another is lost.
LEMMA ReadKeeps == HistInv /\ ReadVector => HistInv'
<1> SUFFICES ASSUME HistInv, ReadVector PROVE HistInv'
  OBVIOUS
<1>1. /\ pc = "vectors" /\ pc' = pc /\ in' = in /\ offset' = offset /\ left' = left
      /\ hist16' = hist16 /\ freq' = freq /\ tree' = tree
      /\ ptr' = ptr + Vec /\ round' = round - Vec
      /\ count' = [b \in DOMAIN count |-> count[b] + Cardinality(Hits(b, Vec))]
  BY DEF ReadVector
<1>2. CountShape /\ Ledger
  BY DEF HistInv
<1>3. /\ VectorThere /\ scratch' \in Buffers
      /\ \A b \in 0 .. Bins - 1 : count[b] + Vec < BufSize
      /\ \A b \in 0 .. Bins - 1 : \A a \in BinBase(b) .. BinBase(b) + count[b] - 1 : scratch'[a] = scratch[a]
      /\ \A b \in 0 .. Bins - 1 : \A l \in 0 .. Vec - 1 : scratch'[(BinBase(b) + count[b]) + l] = Row(b)[l]
  BY <1>2, RowsStored
<1>4. Vec \in Nat \ {0} /\ BufSize \in Nat /\ RoundMax \in Nat
  BY CountShapes
<1>5. DOMAIN count = 0 .. Bins - 1
  BY <1>2 DEF CountShape
<1>6. \A b : Cardinality(Hits(b, Vec)) \in 0 .. Vec
  BY <1>3, HitRules
<1>7. count' \in [0 .. Bins - 1 -> 0 .. BufSize]
  <2>1. ASSUME NEW b \in 0 .. Bins - 1 PROVE count[b] + Cardinality(Hits(b, Vec)) \in 0 .. BufSize
    <3>1. count[b] \in Nat /\ count[b] + Vec < BufSize
      BY <1>2, <1>3, <1>4 DEF CountShape
    <3> QED BY <1>4, <1>6, <3>1
  <2> QED BY <1>1, <1>5, <2>1
<1>8. round \in Nat /\ round >= Vec /\ WholeVectors(round - Vec) /\ round - Vec \in 0 .. RoundMax
  <2>1. round \in Nat /\ round > 0 /\ WholeVectors(round) /\ round <= RoundMax
    BY <1>2, <1>4 DEF CountShape, ReadVector
  <2>2. round >= Vec /\ WholeVectors(round - Vec)
    BY <2>1, WholeRules
  <2> QED BY <1>4, <2>1, <2>2
<1>9. CountShape'
  <2>1. ptr' \in Nat /\ ptr' + left + round' <= Len(in)
    BY <1>1, <1>2, <1>4, <1>8 DEF CountShape
  <2>2. WholeVectors(round') /\ round' \in 0 .. RoundMax
    BY <1>1, <1>8
  <2>3. pc' \in Filling /\ pc' # "align" /\ pc' \in CountPhases
    BY <1>1 DEF Filling, CountPhases
  <2> QED BY <1>1, <1>2, <1>3, <1>7, <2>1, <2>2, <2>3 DEF CountShape
<1>10. ASSUME NEW v \in Bytes
       PROVE  Waits(scratch', count', v) = Waits(scratch, count, v) + Among(Spots(in, v), ptr, Vec)
  <2> DEFINE b == BinOf(v)
             c == Cardinality(Hits(b, Vec))
             H == Holding(scratch', MorselOf(v))
  <2>1. b \in 0 .. Bins - 1 /\ BinBase(b) \in Nat /\ count[b] \in Nat
    BY <1>2, BinShapes
  <2>2. c \in Nat /\ count'[b] = count[b] + c
    BY <1>1, <1>5, <1>6, <2>1
  <2>3. Waits(scratch', count', v) = Among(H, BinBase(b), count[b] + c)
    BY <2>2 DEF Waits
  <2>4. Among(H, BinBase(b), count[b]) = Among(Holding(scratch, MorselOf(v)), BinBase(b), count[b])
    <3>1. \A a \in BinBase(b) .. BinBase(b) + count[b] - 1 : scratch'[a] = scratch[a]
      BY <1>3, <2>1
    <3>2. Alike(scratch, scratch', BinBase(b), count[b])
      BY <3>1 DEF Alike
    <3> QED BY <2>1, <3>2, SameCells
  <2>5. Among(H, BinBase(b) + count[b], c) = Among(Spots(in, v), ptr, Vec)
    <3>1. \A l \in 0 .. Vec - 1 : scratch'[(BinBase(b) + count[b]) + l] = Row(b)[l]
      BY <1>3, <2>1
    <3>2. PICK end \in Int : end = BinBase(b) + count[b]
      BY <2>1
    <3> QED BY <1>3, <3>1, <3>2, RowHolds
  <2>6. Waits(scratch, count, v) = Among(Holding(scratch, MorselOf(v)), BinBase(b), count[b])
    BY DEF Waits
  <2> HIDE DEF b, c, H
  <2>7. Among(H, BinBase(b), count[b] + c) = Among(H, BinBase(b), count[b]) + Among(H, BinBase(b) + count[b], c)
    BY <2>1, <2>2, AmongJoins
  <2> QED BY <2>3, <2>4, <2>5, <2>6, <2>7
<1>11. Ledger'
  <2>1. SUFFICES ASSUME NEW v \in Bytes
                 PROVE  /\ freq[v] + hist16[BinOf(v)][MorselOf(v)] + Waits(scratch', count', v) = Seen(in, v, ptr + Vec)
                        /\ Seen(in, v, ptr + Vec) + (round - Vec) <= freq[v] + RoundMax
    BY <1>1 DEF Ledger
  <2>2. /\ freq[v] + hist16[BinOf(v)][MorselOf(v)] + Waits(scratch, count, v) = Seen(in, v, ptr)
        /\ Seen(in, v, ptr) + round <= freq[v] + RoundMax
    BY <1>1, <1>2 DEF Ledger, Filling
  <2>3. /\ Seen(in, v, ptr + Vec) = Seen(in, v, ptr) + Among(Spots(in, v), ptr, Vec)
        /\ Among(Spots(in, v), ptr, Vec) \in 0 .. Vec
    <3>1. ptr \in Nat
      BY <1>2 DEF CountShape
    <3>2. Vec \in Nat
      BY CountShapes
    <3> QED BY <3>1, <3>2, SeenGrows
  <2>4. /\ freq[v] \in Nat /\ hist16[BinOf(v)][MorselOf(v)] \in Nat /\ Waits(scratch, count, v) \in Nat
        /\ Seen(in, v, ptr) \in Nat
    BY <1>2, BinShapes, CountShapes
  <2> QED BY <1>4, <1>8, <1>10, <2>2, <2>3, <2>4
<1>12. Settled' /\ Counting'
  BY <1>1 DEF Settled, Counting, Filling
<1> QED BY <1>9, <1>11, <1>12 DEF HistInv

\* A bin about to be counted: nothing counted yet, and its last vector is padded.
LEMMA StartKeeps ==
  ASSUME HistInv, NEW b \in 0 .. Bins - 1, StartBin(b)
  PROVE  HistInv'
<1>1. /\ pc = "vectors" /\ pc' = "count" /\ in' = in /\ offset' = offset /\ left' = left /\ ptr' = ptr
      /\ round' = round /\ count' = count /\ hist16' = hist16 /\ freq' = freq
      /\ scratch' = Tailed(b) /\ tree' = [Fresh EXCEPT !.bin = b] /\ Due(b)
  BY DEF StartBin
<1>2. CountShape /\ Ledger
  BY DEF HistInv
<1>3. Vec \in Nat \ {0} /\ BufSize \in Nat /\ Bins \in Nat /\ Room \in Nat /\ Morsels \in Nat
  BY CountShapes, BinBases
<1>4. PICK u \in 0 .. BufSize : u = count[b]
  BY <1>2 DEF CountShape
<1>5. PICK up \in Nat : /\ up = VectorsOf(u) * Vec /\ u <= up /\ up <= BufSize
  BY VectorBounds
<1>6. PICK base \in Nat : base = BinBase(b) /\ base + BufSize + Vec <= Room
  BY BinBases
<1>7. scratch' = [a \in 0 .. Room - 1 |-> IF a \in base + u .. base + up - 1 THEN Pad ELSE scratch[a]]
  <2>1. DOMAIN scratch = 0 .. Room - 1
    BY <1>2 DEF CountShape, Buffers
  <2>2. up = ((count[b] + Vec - 1) \div Vec) * Vec
    BY <1>4, <1>5 DEF VectorsOf
  <2> QED BY <1>1, <1>4, <1>6, <2>1, <2>2 DEF Tailed
<1>8. scratch' \in Buffers
  <2>1. ASSUME NEW a \in 0 .. Room - 1 PROVE scratch[a] \in Cells /\ Pad \in Cells
    BY <1>2 DEF CountShape, Buffers, Cells
  <2> QED BY <1>7, <2>1 DEF Buffers
<1>9. CountShape'
  <2>1. pc' \in Filling /\ pc' # "align" /\ pc' \in CountPhases
    BY <1>1 DEF Filling, CountPhases
  <2> QED BY <1>1, <1>2, <1>8, <2>1 DEF CountShape
<1>10. ASSUME NEW v \in Bytes PROVE Waits(scratch', count', v) = Waits(scratch, count, v)
  <2> DEFINE c == BinOf(v)
  <2>1. c \in 0 .. Bins - 1 /\ BinBase(c) \in Nat /\ count[c] \in Nat /\ count[c] <= BufSize
    BY <1>2, <1>3, BinShapes
  <2> HIDE DEF c
  <2>2. ASSUME NEW a \in BinBase(c) .. BinBase(c) + count[c] - 1 PROVE scratch'[a] = scratch[a]
    <3>1. PICK x \in 0 .. BufSize - 1 : a = BinBase(c) + x /\ x < count[c]
      <4>1. a - BinBase(c) \in 0 .. BufSize - 1 /\ a = BinBase(c) + (a - BinBase(c)) /\ a - BinBase(c) < count[c]
        BY <1>3, <2>1
      <4> QED BY <4>1
    <3>2. a \in 0 .. Room - 1
      <4>1. BinBase(c) + BufSize + Vec <= Room
        BY <2>1, BinBases
      <4> QED BY <1>3, <2>1, <3>1, <4>1
    <3>3. a \notin base + u .. base + up - 1
      <4>1. SUFFICES ASSUME a \in base + u .. base + up - 1 PROVE FALSE
        OBVIOUS
      <4>2. PICK y \in 0 .. BufSize - 1 : a = BinBase(b) + y /\ y >= u
        <5>1. a - base \in 0 .. BufSize - 1 /\ a = base + (a - base) /\ a - base >= u
          BY <1>3, <1>5, <1>6, <4>1
        <5> QED BY <1>6, <5>1
      <4>3. c = b /\ x = y
        BY <2>1, <3>1, <4>2, OneBin
      <4> QED BY <1>4, <3>1, <4>2, <4>3
    <3> QED BY <1>7, <3>2, <3>3
  <2>3. Among(Holding(scratch', MorselOf(v)), BinBase(c), count[c])
          = Among(Holding(scratch, MorselOf(v)), BinBase(c), count[c])
    <3>2. Alike(scratch, scratch', BinBase(c), count[c])
      BY <2>2 DEF Alike
    <3> QED BY <2>1, <3>2, SameCells
  <2> QED BY <1>1, <2>3 DEF Waits, c
<1>11. Ledger'
  BY <1>1, <1>2, <1>10 DEF Ledger, Filling
<1>12. Settled'
  BY <1>1 DEF Settled, Filling
<1>13. Counting'
  <2> DEFINE t == [Fresh EXCEPT !.bin = b]
  <2>1. /\ t.bin = b /\ t.k = 0 /\ t.w0 = {} /\ t.w1 = {} /\ t.w2 = {}
        /\ t.eights = Zero /\ t.h = Zero
    BY DEF Fresh
  <2> HIDE DEF t
  <2>2. Zero \in [0 .. Morsels - 1 -> Nat] /\ \A m \in 0 .. Morsels - 1 : Zero[m] = 0
    BY DEF Zero
  <2>3. TreeShape(t, count)
    <3>1. (0 % Burst) * LoadLanes \in Nat
      <4>1. 0 % Burst \in Nat /\ LoadLanes \in Nat
        BY CountShapes, DivMod
      <4> QED BY <4>1
    <3>2. VectorsOf(count[b]) \in Nat
      BY <1>4, VectorBounds
    <3>3. {} \in Planes
      BY DEF Planes
    <3> QED BY <2>1, <2>2, <3>1, <3>2, <3>3 DEF TreeShape
  <2>4. TailPadded(t, scratch', count)
    <3>1. SUFFICES ASSUME NEW a \in base + u .. base + up - 1 PROVE scratch'[a] = Pad
      BY <1>4, <1>5, <1>6, <2>1 DEF TailPadded
    <3>2. a \in 0 .. Room - 1
      BY <1>3, <1>5, <1>6
    <3> QED BY <1>7, <3>2
  <2>5. TreeHolds(t, scratch')
    <3>1. SUFFICES ASSUME NEW m \in 0 .. Morsels - 1
                   PROVE  8 * (t.h[m] + t.eights[m]) + Weighed(t.w0, t.w1, t.w2, m)
                            = Among(Holding(scratch', m), BinBase(b), t.k * Vec)
      BY <2>1 DEF TreeHolds
    <3>2. Held({}, m) = 0
      <4>1. On({}, m) = {}
        BY DEF On
      <4> QED BY <4>1, FS_EmptySet DEF Held
    <3>3. Weighed(t.w0, t.w1, t.w2, m) = 0
      BY <2>1, <3>2 DEF Weighed
    <3>4. t.k * Vec = 0
      BY <1>3, <2>1
    <3>5. Among(Holding(scratch', m), BinBase(b), 0) = 0
      BY <1>6, AmongOne
    <3>6. t.h[m] = 0 /\ t.eights[m] = 0
      BY <2>1, <2>2
    <3> QED BY <3>3, <3>4, <3>5, <3>6
  <2> QED BY <1>1, <2>3, <2>4, <2>5 DEF Counting, t
<1> QED BY <1>9, <1>11, <1>12, <1>13 DEF HistInv

\* A counter below its modulus does not wrap, and a burst's vectors are counted from nought.
LEMMA NoWrap ==
  ASSUME NEW M \in Nat \ {0}, NEW x \in 0 .. M - 1
  PROVE  x % M = x
<1>1. PICK W \in Nat : W = M /\ W > 0
  OBVIOUS
<1>2. x \div W = 0 /\ x % W = x
  BY <1>1
<1> QED BY <1>1, <1>2

\* The vectors of a burst, counted.
LEMMA NextInBurst ==
  ASSUME NEW B \in Nat \ {0}, NEW k \in Nat
  PROVE  k % B \in 0 .. B - 1 /\ (k + 1) % B = IF k % B = B - 1 THEN 0 ELSE (k % B) + 1
<1>1. k \div B \in Nat /\ k % B \in 0 .. B - 1 /\ k = (k \div B) * B + (k % B)
  BY DivMod
<1>2. PICK e \in Nat, r \in 0 .. B - 1 : e = k \div B /\ r = k % B /\ k = e * B + r
  BY <1>1
<1>3. PICK y \in Nat : y = k + 1
  OBVIOUS
<1>4. y \div B \in Nat /\ y % B \in 0 .. B - 1 /\ y = (y \div B) * B + (y % B)
  BY DivMod
<1>5. PICK f \in Nat, s \in 0 .. B - 1 : f = y \div B /\ s = y % B /\ y = f * B + s
  BY <1>4
<1>6. f * B + s = e * B + r + 1 /\ e * B \in Nat /\ f * B \in Nat
  BY <1>2, <1>3, <1>5
<1>7. f < e => f * B + B <= e * B
  BY ChunksInTurn
<1>8. e < f => e * B + B <= f * B
  BY ChunksInTurn
<1>9. f = e \/ (e < f /\ s = 0 /\ r = B - 1)
  BY <1>6, <1>7, <1>8
<1>10. f = e => s = r + 1
  BY <1>6
<1> QED BY <1>2, <1>3, <1>5, <1>9, <1>10

\* While a bin is counted, its whole vectors hold just what waits in it, and that is too
\* little for a counter of 16 bits to wrap.
LEMMA BinTotals ==
  ASSUME HistInv, pc = "count", NEW m \in 0 .. Morsels - 1, NEW v, v = tree.bin * Morsels + m
  PROVE  /\ v \in Bytes /\ BinOf(v) = tree.bin /\ MorselOf(v) = m
         /\ Among(Holding(scratch, m), BinBase(tree.bin), VectorsOf(count[tree.bin]) * Vec) = Waits(scratch, count, v)
         /\ hist16[tree.bin][m] \in Nat /\ Waits(scratch, count, v) \in Nat
         /\ hist16[tree.bin][m] + Waits(scratch, count, v) <= RoundMax
<1>1. CountShape /\ TreeShape(tree, count) /\ TailPadded(tree, scratch, count)
  BY DEF HistInv, Counting
<1>2. tree.bin \in 0 .. Bins - 1
  BY <1>1 DEF TreeShape
<1>3. v \in Bytes /\ BinOf(v) = tree.bin /\ MorselOf(v) = m
  BY <1>2, ByteParts
<1>4. PICK u \in 0 .. BufSize : u = count[tree.bin]
  BY <1>1, <1>2 DEF CountShape
<1>5. PICK up \in Nat : up = VectorsOf(u) * Vec /\ u <= up
  BY VectorBounds
<1>6. PICK base \in Nat : base = BinBase(tree.bin)
  BY <1>2, BinBases
<1>7. u \in Nat /\ up - u \in Nat /\ u + (up - u) = up
  BY <1>4, <1>5, CountShapes
<1>8. Among(Holding(scratch, m), base, u + (up - u))
        = Among(Holding(scratch, m), base, u) + Among(Holding(scratch, m), base + u, up - u)
  BY <1>7, AmongJoins
<1>9. Among(Holding(scratch, m), base + u, up - u) = 0
  <2>1. \A a \in base + u .. base + up - 1 : scratch[a] = Pad
    BY <1>1, <1>4, <1>5, <1>6 DEF TailPadded
  <2>2. Pad # m
    BY DEF Pad
  <2>3. Members(Holding(scratch, m), base + u, up - u) = {}
    BY <1>7, <2>1, <2>2 DEF Members, Holding
  <2> QED BY <2>3, FS_EmptySet DEF Among
<1>10. Waits(scratch, count, v) = Among(Holding(scratch, m), base, u)
  BY <1>3, <1>4, <1>6 DEF Waits
<1>11. /\ Waits(scratch, count, v) \in Nat /\ freq[v] \in Nat /\ Seen(in, v, ptr) \in Nat
       /\ hist16[tree.bin][m] \in 0 .. WideMod - 1
  BY <1>1, <1>3, BinShapes
<1>12. Among(Holding(scratch, m), base, up) = Waits(scratch, count, v)
  BY <1>7, <1>8, <1>9, <1>10, <1>11
<1>13. /\ freq[v] + hist16[tree.bin][m] + Waits(scratch, count, v) = Seen(in, v, ptr)
       /\ Seen(in, v, ptr) + round <= freq[v] + RoundMax
  BY <1>3 DEF HistInv, Ledger, Filling
<1>14. RoundMax \in Nat /\ WideMod \in Nat /\ round \in Nat
  BY <1>1, CountShapes DEF CountShape
<1>15. hist16[tree.bin][m] \in Nat
  BY <1>11, <1>14
<1>16. hist16[tree.bin][m] + Waits(scratch, count, v) <= RoundMax
  BY <1>11, <1>13, <1>14, <1>15
<1> QED BY <1>3, <1>4, <1>5, <1>6, <1>11, <1>12, <1>15, <1>16

\* A vector of the bin goes into the planes, by eights into the narrow counters, and at the
\* end of a burst into the wide ones; no counter wraps.
LEMMA VectorKeeps == HistInv /\ CountVector => HistInv'
<1> SUFFICES ASSUME HistInv, CountVector PROVE HistInv'
  OBVIOUS
<1>1. /\ pc = "count" /\ tree.k < Vectors(tree.bin) /\ tree' = AfterVector
      /\ UNCHANGED <<in, offset, ptr, left, pc, round, scratch, count, hist16, freq>>
  BY DEF CountVector
<1>2. CountShape /\ TreeShape(tree, count) /\ TailPadded(tree, scratch, count) /\ TreeHolds(tree, scratch)
  BY <1>1 DEF HistInv, Counting
<1>3. CountShape' /\ Ledger' /\ Settled'
  BY <1>1 DEF HistInv, CountShape, Ledger, Settled
<1>4. PICK b \in 0 .. Bins - 1, k \in Nat : b = tree.bin /\ k = tree.k
  BY <1>2 DEF TreeShape
<1>5. PICK u \in 0 .. BufSize : u = count[b]
  BY <1>2, <1>4 DEF CountShape
<1>6. PICK V \in Nat : V = VectorsOf(u) /\ k < V /\ Vectors(b) = V
  BY <1>1, <1>4, <1>5, VectorBounds DEF Vectors, VectorsOf
<1>7. PICK base \in Nat : base = BinBase(b) /\ base + BufSize + Vec <= Room
  BY BinBases
<1>8. Vec \in Nat \ {0} /\ BufSize \in Nat /\ Room \in Nat /\ Burst \in Nat \ {0} /\ LoadLanes \in Nat
      /\ CtrMod \in Nat \ {0} /\ WideMod \in Nat \ {0} /\ Burst * LoadLanes < CtrMod
      /\ RoundMax \in Nat /\ RoundMax < WideMod
  BY CountShapes, BinBases
<1>9. PICK from \in Nat : from = base + k * Vec
  BY <1>8
<1>10. k * Vec \in Nat /\ V * Vec \in Nat /\ k * Vec + Vec <= V * Vec /\ V * Vec <= BufSize
  BY <1>6, VectorBounds
<1>11. from + Vec <= Room
  BY <1>7, <1>8, <1>9, <1>10
<1> DEFINE a == Added(Loads(scratch, from), tree.w0, tree.w1, tree.w2)
           e == [m \in DOMAIN Zero |-> (tree.eights[m] + PerMorsel(a.e)[m]) % CtrMod]
           ends == BurstEnds(k + 1) \/ k + 1 = V
           t == [bin |-> b, k |-> k + 1, w0 |-> a.w0, w1 |-> a.w1, w2 |-> a.w2,
                 eights |-> IF ends THEN Zero ELSE e,
                 h |-> IF ends THEN [m \in DOMAIN Zero |-> (tree.h[m] + e[m]) % WideMod] ELSE tree.h]
<1>12. tree' = t
  <2>1. Loads(scratch, from) = [i \in 0 .. 7 |->
              {<<l, scratch[from + i * LoadLanes + l]>> :
                 l \in {l \in 0 .. LoadLanes - 1 : scratch[from + i * LoadLanes + l] # Pad}}]
    BY DEF Loads, LoadPlane
  <2>2. from = BinBase(tree.bin) + tree.k * Vec
    BY <1>4, <1>7, <1>9
  <2>3. AfterVector =
          LET c == Added(Loads(scratch, from), tree.w0, tree.w1, tree.w2)
              g == [m \in DOMAIN Zero |-> (tree.eights[m] + PerMorsel(c.e)[m]) % CtrMod]
              over == BurstEnds(tree.k + 1) \/ tree.k + 1 = Vectors(tree.bin)
          IN  [bin |-> tree.bin, k |-> tree.k + 1, w0 |-> c.w0, w1 |-> c.w1, w2 |-> c.w2,
               eights |-> IF over THEN Zero ELSE g,
               h |-> IF over THEN [m \in DOMAIN Zero |-> (tree.h[m] + g[m]) % WideMod] ELSE tree.h]
    BY <2>1, <2>2, SMTT(30) DEF AfterVector
  <2> QED BY <1>1, <1>4, <1>6, <2>3, ZenonT(30)
<1>13. /\ a.w0 \in Planes /\ a.w1 \in Planes /\ a.w2 \in Planes /\ a.e \in Planes
       /\ \A m \in 0 .. Morsels - 1 :
            Weighed(a.w0, a.w1, a.w2, m) + 8 * Held(a.e, m)
              = Weighed(tree.w0, tree.w1, tree.w2, m) + Among(Holding(scratch, m), from, Vec)
  <2>1. scratch \in Buffers /\ tree.w0 \in Planes /\ tree.w1 \in Planes /\ tree.w2 \in Planes
    BY <1>2 DEF CountShape, TreeShape
  <2> QED BY <1>11, <2>1, VectorAdds
<1> HIDE DEF a
<1>14. DOMAIN Zero = 0 .. Morsels - 1 /\ \A m \in 0 .. Morsels - 1 : Zero[m] = 0
  BY DEF Zero
<1>15. ASSUME NEW m \in 0 .. Morsels - 1
       PROVE  /\ e[m] = tree.eights[m] + Held(a.e, m) /\ e[m] \in Nat
              /\ e[m] <= (k % Burst) * LoadLanes + LoadLanes
  <2>1. PerMorsel(a.e)[m] = Held(a.e, m)
    BY DEF PerMorsel, Held, On
  <2>2. Held(a.e, m) \in 0 .. LoadLanes
    BY <1>13, HeldBounds
  <2>3. PICK r \in 0 .. Burst - 1 : r = k % Burst
    BY <1>8, NextInBurst
  <2>4. r * LoadLanes \in Nat /\ r * LoadLanes + LoadLanes <= Burst * LoadLanes
    BY <1>8, <2>3, ChunksInTurn
  <2>5. tree.eights[m] \in Nat /\ tree.eights[m] <= r * LoadLanes
    BY <1>2, <1>4, <2>3 DEF TreeShape
  <2>6. PICK x \in Nat : x = tree.eights[m] + Held(a.e, m)
    BY <2>2, <2>5, <1>8
  <2>7. x <= r * LoadLanes + LoadLanes /\ x \in 0 .. CtrMod - 1
    <3>1. PICK q \in Nat, z \in Nat : q = r * LoadLanes /\ z = Burst * LoadLanes
      BY <1>8, <2>4
    <3>2. x <= q + LoadLanes
      BY <1>8, <2>2, <2>5, <2>6, <3>1
    <3>3. x <= z /\ z < CtrMod
      BY <1>8, <2>4, <3>1, <3>2
    <3> QED BY <1>8, <3>1, <3>2, <3>3
  <2>8. x % CtrMod = x
    BY <1>8, <2>7, NoWrap
  <2>9. e[m] = x % CtrMod
    BY <1>14, <2>1, <2>6
  <2> QED BY <2>3, <2>6, <2>7, <2>8, <2>9
<1>16. /\ t.bin = b /\ t.k = k + 1 /\ t.w0 = a.w0 /\ t.w1 = a.w1 /\ t.w2 = a.w2
       /\ t.eights = (IF ends THEN Zero ELSE e)
       /\ t.h = (IF ends THEN [m \in DOMAIN Zero |-> (tree.h[m] + e[m]) % WideMod] ELSE tree.h)
  OBVIOUS
<1>17. DOMAIN e = 0 .. Morsels - 1 /\ e = [m \in 0 .. Morsels - 1 |-> e[m]]
  BY <1>14
<1>18. ends <=> ((k + 1) % Burst = 0 \/ k + 1 = V)
  BY DEF BurstEnds
<1> HIDE DEF e, ends, t
<1>19. ASSUME NEW m \in 0 .. Morsels - 1
       PROVE  /\ tree.h[m] \in Nat /\ tree.h[m] + e[m] \in Nat
              /\ 8 * (tree.h[m] + e[m]) + Weighed(a.w0, a.w1, a.w2, m)
                   = Among(Holding(scratch, m), base, (k + 1) * Vec)
              /\ (tree.h[m] + e[m]) % WideMod = tree.h[m] + e[m]
  <2> DEFINE H == Holding(scratch, m)
  <2>1. tree.h[m] \in Nat /\ tree.eights[m] \in Nat
    BY <1>2 DEF TreeShape
  <2>2. 8 * (tree.h[m] + tree.eights[m]) + Weighed(tree.w0, tree.w1, tree.w2, m) = Among(H, base, k * Vec)
    BY <1>2, <1>4, <1>7 DEF TreeHolds
  <2>3. Weighed(a.w0, a.w1, a.w2, m) + 8 * Held(a.e, m)
          = Weighed(tree.w0, tree.w1, tree.w2, m) + Among(H, from, Vec)
    BY <1>13
  <2> HIDE DEF H
  <2>4. (k + 1) * Vec = k * Vec + Vec
    BY <1>8
  <2>5. Among(H, base, k * Vec + Vec) = Among(H, base, k * Vec) + Among(H, from, Vec)
    BY <1>8, <1>9, <1>10, AmongJoins
  <2>6. Weighed(a.w0, a.w1, a.w2, m) \in Nat /\ Weighed(tree.w0, tree.w1, tree.w2, m) \in Nat /\ Held(a.e, m) \in Nat
    <3>1. \A p \in Planes : Held(p, m) \in Nat
      BY <1>8, HeldBounds
    <3>2. tree.w0 \in Planes /\ tree.w1 \in Planes /\ tree.w2 \in Planes
      BY <1>2 DEF TreeShape
    <3>3. /\ Held(a.w0, m) \in Nat /\ Held(a.w1, m) \in Nat /\ Held(a.w2, m) \in Nat /\ Held(a.e, m) \in Nat
          /\ Held(tree.w0, m) \in Nat /\ Held(tree.w1, m) \in Nat /\ Held(tree.w2, m) \in Nat
      BY <1>13, <3>1, <3>2
    <3> QED BY <3>3 DEF Weighed
  <2>7. Among(H, base, k * Vec) \in Nat /\ Among(H, from, Vec) \in Nat
    BY <1>8, <1>10, AmongBounds
  <2>8. e[m] = tree.eights[m] + Held(a.e, m) /\ e[m] \in Nat
    BY <1>15
  <2>9. 8 * (tree.h[m] + e[m]) + Weighed(a.w0, a.w1, a.w2, m) = Among(H, base, k * Vec + Vec)
    BY <2>1, <2>2, <2>3, <2>5, <2>6, <2>7, <2>8
  <2>10. PICK rest \in Nat : V * Vec = (k * Vec + Vec) + rest
    <3>1. V * Vec - (k * Vec + Vec) \in Nat /\ V * Vec = (k * Vec + Vec) + (V * Vec - (k * Vec + Vec))
      BY <1>8, <1>10
    <3> QED BY <3>1
  <2>11. /\ Among(H, base, V * Vec) = Among(H, base, k * Vec + Vec) + Among(H, base + (k * Vec + Vec), rest)
         /\ Among(H, base + (k * Vec + Vec), rest) \in Nat
    <3>1. PICK w \in Nat : w = k * Vec + Vec
      BY <1>8, <1>10
    <3>2. Among(H, base, w + rest) = Among(H, base, w) + Among(H, base + w, rest)
      BY <3>1, AmongJoins
    <3>3. Among(H, base + w, rest) \in 0 .. rest
      BY AmongBounds
    <3> QED BY <2>10, <3>1, <3>2, <3>3
  <2>12. Among(H, base, V * Vec) <= RoundMax /\ Among(H, base, V * Vec) \in Nat
    <3>1. PICK v : v = tree.bin * Morsels + m
      OBVIOUS
    <3>2. /\ Among(H, BinBase(tree.bin), VectorsOf(count[tree.bin]) * Vec) = Waits(scratch, count, v)
          /\ hist16[tree.bin][m] \in Nat /\ Waits(scratch, count, v) \in Nat
          /\ hist16[tree.bin][m] + Waits(scratch, count, v) <= RoundMax
      BY <1>1, <3>1, BinTotals DEF H
    <3> QED BY <1>4, <1>5, <1>6, <1>7, <1>8, <3>2
  <2>13. PICK x \in Nat : x = tree.h[m] + e[m]
    BY <2>1, <2>8
  <2>14. x \in 0 .. WideMod - 1
    <3>1. 8 * x <= RoundMax
      BY <1>8, <2>6, <2>7, <2>5, <2>9, <2>11, <2>12, <2>13
    <3> QED BY <1>8, <2>13, <3>1
  <2>15. x % WideMod = x
    BY <1>8, <2>14, NoWrap
  <2> QED BY <2>1, <2>4, <2>9, <2>13, <2>15 DEF H
<1>20. ASSUME NEW m \in 0 .. Morsels - 1
       PROVE  /\ t.eights[m] \in Nat /\ t.h[m] \in Nat
              /\ t.h[m] + t.eights[m] = tree.h[m] + e[m]
              /\ ends => t.eights[m] = 0
              /\ ~ends => t.eights[m] = e[m]
  <2>1. CASE ends
    <3>1. t.eights[m] = 0 /\ t.h[m] = (tree.h[m] + e[m]) % WideMod
      BY <1>14, <1>16, <2>1
    <3> QED BY <1>19, <2>1, <3>1
  <2>2. CASE ~ends
    <3>1. t.eights[m] = e[m] /\ t.h[m] = tree.h[m]
      BY <1>16, <2>2
    <3> QED BY <1>15, <1>19, <2>2, <3>1
  <2> QED BY <2>1, <2>2
<1>21. TreeShape(t, count)
  <2>1. t.eights \in [0 .. Morsels - 1 -> Nat] /\ t.h \in [0 .. Morsels - 1 -> Nat]
    <3>1. tree.h \in [0 .. Morsels - 1 -> Nat]
      BY <1>2 DEF TreeShape
    <3>2. Zero \in [0 .. Morsels - 1 -> Nat]
      BY DEF Zero
    <3>3. e \in [0 .. Morsels - 1 -> Nat]
      BY <1>15, <1>17
    <3>4. [m \in DOMAIN Zero |-> (tree.h[m] + e[m]) % WideMod] \in [0 .. Morsels - 1 -> Nat]
      BY <1>14, <1>19
    <3> QED BY <1>16, <3>1, <3>2, <3>3, <3>4
  <2>2. ASSUME NEW m \in 0 .. Morsels - 1 PROVE t.eights[m] <= ((k + 1) % Burst) * LoadLanes
    <3>1. PICK r \in 0 .. Burst - 1 : r = k % Burst /\ (k + 1) % Burst = IF r = Burst - 1 THEN 0 ELSE r + 1
      BY <1>8, NextInBurst
    <3>2. CASE ends
      <4>1. PICK s \in Nat : s = (k + 1) % Burst
        BY <3>1
      <4>2. s * LoadLanes \in Nat
        BY <1>8
      <4> QED BY <1>20, <3>2, <4>1, <4>2
    <3>3. CASE ~ends
      <4>1. (k + 1) % Burst = r + 1
        BY <1>18, <3>1, <3>3
      <4>2. (r + 1) * LoadLanes = r * LoadLanes + LoadLanes
        BY <1>8
      <4> QED BY <1>15, <1>20, <3>1, <3>3, <4>1, <4>2
    <3> QED BY <3>2, <3>3
  <2>3. t.k = V => \A m \in 0 .. Morsels - 1 : t.eights[m] = 0
    BY <1>16, <1>18, <1>20
  <2> QED BY <1>4, <1>5, <1>6, <1>13, <1>16, <2>1, <2>2, <2>3 DEF TreeShape
<1>22. TailPadded(t, scratch, count)
  BY <1>2, <1>4, <1>16 DEF TailPadded
<1>23. TreeHolds(t, scratch)
  <2>1. ASSUME NEW m \in 0 .. Morsels - 1
        PROVE  8 * (t.h[m] + t.eights[m]) + Weighed(t.w0, t.w1, t.w2, m)
                 = Among(Holding(scratch, m), BinBase(t.bin), t.k * Vec)
    BY <1>7, <1>16, <1>19, <1>20
  <2> QED BY <2>1 DEF TreeHolds
<1>24. Counting'
  BY <1>1, <1>12, <1>21, <1>22, <1>23 DEF Counting
<1> QED BY <1>3, <1>24 DEF HistInv

\* A bin that has been counted is in its counters, each byte once.
LEMMA EndKeeps == HistInv /\ EndBin => HistInv'
<1> SUFFICES ASSUME HistInv, EndBin PROVE HistInv'
  OBVIOUS
<1>1. /\ pc = "count" /\ pc' = "vectors" /\ tree.k = Vectors(tree.bin) /\ tree' = Fresh
      /\ hist16' = [hist16 EXCEPT ![tree.bin] =
                      [m \in DOMAIN Zero |-> (hist16[tree.bin][m] + Total(m)) % WideMod]]
      /\ count' = [count EXCEPT ![tree.bin] = 0]
      /\ in' = in /\ offset' = offset /\ ptr' = ptr /\ left' = left /\ round' = round
      /\ scratch' = scratch /\ freq' = freq
  BY DEF EndBin
<1>2. CountShape /\ Ledger /\ TreeShape(tree, count) /\ TreeHolds(tree, scratch)
  BY <1>1 DEF HistInv, Counting
<1>3. PICK b \in 0 .. Bins - 1 : b = tree.bin
  BY <1>2 DEF TreeShape
<1>4. DOMAIN hist16 = 0 .. Bins - 1 /\ DOMAIN count = 0 .. Bins - 1 /\ DOMAIN Zero = 0 .. Morsels - 1
  BY <1>2 DEF CountShape, Zero
<1>5. WideMod \in Nat \ {0} /\ RoundMax \in Nat /\ RoundMax < WideMod /\ BufSize \in Nat /\ LoadLanes \in Nat
  BY CountShapes
<1>6. ASSUME NEW m \in 0 .. Morsels - 1, NEW v, v = b * Morsels + m
      PROVE  hist16'[b][m] = hist16[b][m] + Waits(scratch, count, v) /\ hist16'[b][m] \in 0 .. WideMod - 1
  <2>1. /\ Among(Holding(scratch, m), BinBase(b), VectorsOf(count[b]) * Vec) = Waits(scratch, count, v)
        /\ hist16[b][m] \in Nat /\ Waits(scratch, count, v) \in Nat
        /\ hist16[b][m] + Waits(scratch, count, v) <= RoundMax
    BY <1>1, <1>3, <1>6, BinTotals
  <2>2. tree.k = VectorsOf(count[b])
    BY <1>1, <1>3 DEF Vectors, VectorsOf
  <2>3. tree.eights[m] = 0 /\ tree.h[m] \in Nat
    BY <1>2, <1>3, <2>2 DEF TreeShape
  <2>4. 8 * (tree.h[m] + tree.eights[m]) + Weighed(tree.w0, tree.w1, tree.w2, m) = Waits(scratch, count, v)
    BY <1>2, <1>3, <2>1, <2>2 DEF TreeHolds
  <2>5. Total(m) = (8 * tree.h[m] + Weighed(tree.w0, tree.w1, tree.w2, m)) % WideMod
    <3>1. \A plane : PerMorsel(plane)[m] = Held(plane, m)
      BY DEF PerMorsel, Held, On
    <3>2. Total(m) = (8 * tree.h[m] + Held(tree.w0, m) + 2 * Held(tree.w1, m) + 4 * Held(tree.w2, m)) % WideMod
      BY <3>1 DEF Total
    <3>3. tree.w0 \in Planes /\ tree.w1 \in Planes /\ tree.w2 \in Planes
      BY <1>2 DEF TreeShape
    <3>4. Held(tree.w0, m) \in Int /\ Held(tree.w1, m) \in Int /\ Held(tree.w2, m) \in Int
      BY <1>5, <3>3, HeldBounds
    <3>5. 8 * tree.h[m] + Held(tree.w0, m) + 2 * Held(tree.w1, m) + 4 * Held(tree.w2, m)
            = 8 * tree.h[m] + Weighed(tree.w0, tree.w1, tree.w2, m)
      BY <2>3, <3>4 DEF Weighed
    <3> QED BY <3>2, <3>5
  <2>6. 8 * tree.h[m] + Weighed(tree.w0, tree.w1, tree.w2, m) = Waits(scratch, count, v)
    <3>1. tree.h[m] + tree.eights[m] = tree.h[m]
      BY <2>3
    <3> QED BY <2>4, <3>1
  <2>7. PICK x \in Nat : x = Waits(scratch, count, v)
    BY <2>1
  <2>8. Total(m) = x
    <3>1. x \in 0 .. WideMod - 1
      BY <1>5, <2>1, <2>7
    <3>2. x % WideMod = x
      BY <1>5, <3>1, NoWrap
    <3> QED BY <2>5, <2>6, <2>7, <3>2
  <2>9. PICK y \in Nat : y = hist16[b][m] + x
    BY <2>1
  <2>10. y \in 0 .. WideMod - 1 /\ y % WideMod = y
    <3>1. y \in 0 .. WideMod - 1
      BY <1>5, <2>1, <2>7, <2>9
    <3> QED BY <1>5, <3>1, NoWrap
  <2>11. hist16'[b][m] = (hist16[b][m] + Total(m)) % WideMod
    BY <1>1, <1>3, <1>4
  <2> QED BY <2>7, <2>8, <2>9, <2>10, <2>11
<1>7. hist16' \in [0 .. Bins - 1 -> Counters] /\ \A c \in 0 .. Bins - 1 : c # b => hist16'[c] = hist16[c]
  <2>1. \A m \in 0 .. Morsels - 1 : hist16'[b][m] \in 0 .. WideMod - 1
    BY <1>6
  <2>2. hist16'[b] = [m \in 0 .. Morsels - 1 |-> hist16'[b][m]]
    BY <1>1, <1>3, <1>4
  <2>3. hist16'[b] \in Counters
    BY <2>1, <2>2 DEF Counters
  <2>4. \A c \in 0 .. Bins - 1 : c # b => hist16'[c] = hist16[c] /\ hist16[c] \in Counters
    BY <1>1, <1>2, <1>3 DEF CountShape
  <2>5. hist16' = [c \in 0 .. Bins - 1 |-> hist16'[c]]
    BY <1>1, <1>4
  <2>6. \A c \in 0 .. Bins - 1 : hist16'[c] \in Counters
    BY <2>3, <2>4
  <2> QED BY <2>4, <2>5, <2>6
<1>8. count' \in [0 .. Bins - 1 -> 0 .. BufSize] /\ count'[b] = 0
      /\ \A c \in 0 .. Bins - 1 : c # b => count'[c] = count[c]
  BY <1>1, <1>2, <1>3, <1>5 DEF CountShape
<1>9. CountShape'
  <2>1. pc' \in Filling /\ pc' # "align" /\ pc' \in CountPhases
    BY <1>1 DEF Filling, CountPhases
  <2> QED BY <1>1, <1>2, <1>7, <1>8, <2>1 DEF CountShape
<1>10. Ledger'
  <2>1. SUFFICES ASSUME NEW v \in Bytes
                 PROVE  /\ freq[v] + hist16'[BinOf(v)][MorselOf(v)] + Waits(scratch, count', v) = Seen(in, v, ptr)
                        /\ Seen(in, v, ptr) + round <= freq[v] + RoundMax
    BY <1>1 DEF Ledger
  <2>2. /\ freq[v] + hist16[BinOf(v)][MorselOf(v)] + Waits(scratch, count, v) = Seen(in, v, ptr)
        /\ Seen(in, v, ptr) + round <= freq[v] + RoundMax
    BY <1>1, <1>2 DEF Ledger, Filling
  <2>3. /\ BinOf(v) \in 0 .. Bins - 1 /\ MorselOf(v) \in 0 .. Morsels - 1 /\ BinBase(BinOf(v)) \in Nat
        /\ Waits(scratch, count, v) \in Nat /\ freq[v] \in Nat /\ hist16[BinOf(v)][MorselOf(v)] \in 0 .. WideMod - 1
    BY <1>2, BinShapes
  <2>4. hist16[BinOf(v)][MorselOf(v)] \in Nat
    BY <1>5, <2>3
  <2>5. CASE BinOf(v) = b
    <3>1. v = b * Morsels + MorselOf(v)
      BY <2>5, ByteParts
    <3>2. hist16'[b][MorselOf(v)] = hist16[b][MorselOf(v)] + Waits(scratch, count, v)
      BY <1>6, <2>3, <3>1
    <3>3. Waits(scratch, count', v) = 0
      BY <1>8, <2>3, <2>5, AmongOne DEF Waits
    <3> QED BY <2>2, <2>3, <2>4, <2>5, <3>2, <3>3
  <2>6. CASE BinOf(v) # b
    <3>1. hist16'[BinOf(v)] = hist16[BinOf(v)]
      BY <1>7, <2>3, <2>6
    <3>2. Waits(scratch, count', v) = Waits(scratch, count, v)
      BY <1>8, <2>3, <2>6 DEF Waits
    <3> QED BY <2>2, <3>1, <3>2
  <2> QED BY <2>5, <2>6
<1>11. Settled' /\ Counting'
  BY <1>1 DEF Settled, Counting, Filling
<1> QED BY <1>9, <1>10, <1>11 DEF HistInv

\* The steps between rounds.
LEMMA ChunkKeeps == HistInv /\ Chunk => HistInv'
<1> SUFFICES ASSUME HistInv, Chunk PROVE HistInv'
  OBVIOUS
<1>1. CountShape /\ Settled
  BY DEF HistInv
<1>2. PICK rest, u : /\ rest = Len(in) - ptr /\ u = IF rest > MaxChunk THEN MaxChunk ELSE rest
                     /\ left' = u /\ pc' = IF u = 0 THEN "done" ELSE IF u >= Vec THEN "align" ELSE "rounds"
  BY DEF Chunk
<1>3. /\ pc = "chunk" /\ in' = in /\ offset' = offset /\ ptr' = ptr /\ round' = round /\ scratch' = scratch
      /\ count' = count /\ hist16' = hist16 /\ freq' = freq /\ tree' = tree
  BY DEF Chunk
<1>4. pc' \in {"done", "align", "rounds"} /\ pc' \notin Filling /\ pc \notin Filling
  BY <1>2, <1>3 DEF Filling
<1>5. MaxChunk \in Nat /\ Vec \in Nat /\ Len(in) \in Nat /\ ptr \in Nat /\ round = 0 /\ ptr <= Len(in)
  <2>1. MaxChunk \in Nat /\ Vec \in Nat
    BY CountShapes
  <2>2. Len(in) \in Nat /\ ptr \in Nat /\ round = 0
    BY <1>1, <1>4 DEF CountShape
  <2> QED BY <1>1, <2>1, <2>2 DEF CountShape
<1>6. u \in 0 .. MaxChunk /\ ptr + u + round <= Len(in) /\ (pc' = "align" => u >= Vec)
  BY <1>2, <1>5
<1>7. CountShape'
  BY <1>1, <1>2, <1>3, <1>4, <1>5, <1>6 DEF CountShape, CountPhases
<1>8. Ledger' /\ Counting'
  BY <1>4 DEF Ledger, Counting, Filling
<1>9. Settled'
  BY <1>1, <1>3, <1>4 DEF Settled
<1> QED BY <1>7, <1>8, <1>9 DEF HistInv

\* Bytes counted singly.
LEMMA SinglyCounted ==
  ASSUME CountShape, Settled, pc \notin Filling, NEW k \in Nat,
         freq' = [v \in Bytes |-> freq[v] + Occurrences(v, ptr, ptr + k)]
  PROVE  /\ freq' \in [Bytes -> Nat]
         /\ \A v \in Bytes : freq'[v] = Seen(in, v, ptr + k)
<1>1. ptr \in Nat
  BY DEF CountShape
<1>2. ASSUME NEW v \in Bytes PROVE freq'[v] = Seen(in, v, ptr + k) /\ freq'[v] \in Nat
  <2>1. freq'[v] = freq[v] + Among(Spots(in, v), ptr, k)
    BY <1>1, OccurrencesSeen
  <2>2. freq[v] = Seen(in, v, ptr)
    BY DEF Settled
  <2>3. /\ Seen(in, v, ptr + k) = Seen(in, v, ptr) + Among(Spots(in, v), ptr, k)
        /\ Seen(in, v, ptr) \in Nat /\ Among(Spots(in, v), ptr, k) \in Nat
    <3>1. Seen(in, v, ptr) \in 0 .. ptr /\ Among(Spots(in, v), ptr, k) \in 0 .. k
      BY <1>1, SeenGrows
    <3> QED BY <1>1, <3>1, SeenGrows
  <2> QED BY <2>1, <2>2, <2>3
<1> QED BY <1>2

\* The bytes up to the first aligned one.
LEMMA AlignKeeps == HistInv /\ Align => HistInv'
<1> SUFFICES ASSUME HistInv, Align PROVE HistInv'
  OBVIOUS
<1>1. CountShape /\ Settled
  BY DEF HistInv
<1>2. PICK k : /\ k = (-(offset + ptr)) % Vec
               /\ freq' = [v \in Bytes |-> freq[v] + Occurrences(v, ptr, ptr + k)]
               /\ ptr' = ptr + k /\ left' = left - k
  BY DEF Align
<1>3. /\ pc = "align" /\ pc' = "rounds" /\ in' = in /\ offset' = offset /\ round' = round
      /\ scratch' = scratch /\ count' = count /\ hist16' = hist16 /\ tree' = tree
  BY DEF Align
<1>4. PICK V \in Nat \ {0} : V = Vec
  BY CountShapes
<1>5. k \in 0 .. V - 1
  <2>1. PICK x \in Int : x = -(offset + ptr)
    BY <1>1 DEF CountShape
  <2>2. x % V \in 0 .. V - 1
    <3>1. V \in Int /\ V > 0
      OBVIOUS
    <3> QED BY <3>1
  <2> QED BY <1>2, <1>4, <2>1, <2>2
<1>6. pc \notin Filling /\ pc' \notin Filling
  BY <1>3 DEF Filling
<1>7. freq' \in [Bytes -> Nat] /\ \A v \in Bytes : freq'[v] = Seen(in, v, ptr + k)
  BY <1>1, <1>2, <1>5, <1>6, SinglyCounted
<1>8. CountShape'
  <2>1. MaxChunk \in Nat
    BY CountShapes
  <2>2. left \in Nat /\ left >= V /\ left <= MaxChunk /\ ptr \in Nat /\ Len(in) \in Nat /\ round = 0
    BY <1>1, <1>3, <1>4, <1>6, <2>1 DEF CountShape
  <2>3. ptr + left + round <= Len(in)
    BY <1>1 DEF CountShape
  <2>4. left - k \in 0 .. MaxChunk /\ ptr + k \in Nat /\ (ptr + k) + (left - k) + round <= Len(in)
    BY <1>4, <1>5, <2>1, <2>2, <2>3
  <2> QED BY <1>1, <1>2, <1>3, <1>6, <1>7, <2>2, <2>4 DEF CountShape, CountPhases
<1>9. Ledger' /\ Counting'
  BY <1>3 DEF Ledger, Counting, Filling
<1>10. Settled'
  BY <1>2, <1>3, <1>7 DEF Settled
<1> QED BY <1>8, <1>9, <1>10 DEF HistInv

\* A round opened with empty counters and buffers, of no more bytes than a counter holds.
LEMMA OpenKeeps == HistInv /\ OpenRound => HistInv'
<1> SUFFICES ASSUME HistInv, OpenRound PROVE HistInv'
  OBVIOUS
<1>1. CountShape /\ Settled
  BY DEF HistInv
<1>2. /\ pc = "rounds" /\ pc' = "vectors" /\ left >= Vec
      /\ round' = (IF left >= RoundMax THEN RoundMax ELSE left - (left % Vec))
      /\ left' = left - round'
      /\ hist16' = [b \in 0 .. Bins - 1 |-> Zero] /\ count' = [b \in 0 .. Bins - 1 |-> 0]
      /\ in' = in /\ offset' = offset /\ ptr' = ptr /\ scratch' = scratch /\ freq' = freq /\ tree' = tree
  BY DEF OpenRound
<1>3. pc \notin Filling /\ pc' \in Filling /\ pc' # "align" /\ pc' \in CountPhases
  BY <1>2 DEF Filling, CountPhases
<1>4. /\ RoundMax \in Nat /\ Vec \in Nat \ {0} /\ MaxChunk \in Nat /\ BufSize \in Nat /\ WideMod \in Nat \ {0}
      /\ left \in Nat /\ left <= MaxChunk /\ ptr \in Nat /\ Len(in) \in Nat /\ ptr + left <= Len(in)
  <2>1. RoundMax \in Nat /\ Vec \in Nat \ {0} /\ MaxChunk \in Nat /\ BufSize \in Nat /\ WideMod \in Nat \ {0}
    BY CountShapes
  <2>2. left \in Nat /\ left <= MaxChunk /\ ptr \in Nat /\ Len(in) \in Nat /\ round = 0
    BY <1>1, <1>3, <2>1 DEF CountShape
  <2>3. ptr + left + round <= Len(in)
    BY <1>1 DEF CountShape
  <2> QED BY <2>1, <2>2, <2>3
<1>5. PICK r \in Nat : r = round' /\ WholeVectors(r) /\ r <= left /\ r <= RoundMax
  <2>1. CASE left >= RoundMax
    BY <1>2, <1>4, <2>1, WholeRules
  <2>2. CASE ~(left >= RoundMax)
    <3>1. WholeVectors(left - (left % Vec)) /\ left - (left % Vec) \in Nat /\ left - (left % Vec) <= left
      BY <1>4, WholeRules
    <3> QED BY <1>2, <1>4, <2>2, <3>1
  <2> QED BY <2>1, <2>2
<1>6. CountShape'
  <2>1. round' \in 0 .. RoundMax /\ WholeVectors(round') /\ left' \in 0 .. MaxChunk /\ ptr' + left' + round' <= Len(in')
    BY <1>2, <1>4, <1>5
  <2>2. Zero \in Counters
    BY <1>4 DEF Zero, Counters
  <2>3. hist16' \in [0 .. Bins - 1 -> Counters] /\ count' \in [0 .. Bins - 1 -> 0 .. BufSize]
    BY <1>2, <1>4, <2>2
  <2> QED BY <1>1, <1>2, <1>3, <2>1, <2>3 DEF CountShape
<1>7. Ledger'
  <2>1. SUFFICES ASSUME NEW v \in Bytes
                 PROVE  /\ freq[v] + hist16'[BinOf(v)][MorselOf(v)] + Waits(scratch, count', v) = Seen(in, v, ptr)
                        /\ Seen(in, v, ptr) + round' <= freq[v] + RoundMax
    BY <1>2 DEF Ledger
  <2>2. freq[v] = Seen(in, v, ptr) /\ freq[v] \in Nat
    BY <1>1, <1>3 DEF Settled, CountShape
  <2>3. BinOf(v) \in 0 .. Bins - 1 /\ MorselOf(v) \in 0 .. Morsels - 1 /\ BinBase(BinOf(v)) \in Nat
    BY ByteParts, BinBases
  <2>4. hist16'[BinOf(v)][MorselOf(v)] = 0 /\ count'[BinOf(v)] = 0
    BY <1>2, <2>3 DEF Zero
  <2>5. Waits(scratch, count', v) = 0
    BY <2>3, <2>4, AmongOne DEF Waits
  <2> QED BY <1>4, <1>5, <2>2, <2>4, <2>5
<1>8. Settled' /\ Counting'
  BY <1>2, <1>3 DEF Settled, Counting
<1> QED BY <1>6, <1>7, <1>8 DEF HistInv

\* A round closed with empty buffers: what was in its counters is in the result.
LEMMA CloseKeeps == HistInv /\ CloseRound => HistInv'
<1> SUFFICES ASSUME HistInv, CloseRound PROVE HistInv'
  OBVIOUS
<1>1. CountShape /\ Ledger
  BY DEF HistInv
<1>2. /\ pc = "vectors" /\ pc' = "rounds" /\ round = 0 /\ \A b \in DOMAIN count : count[b] = 0
      /\ freq' = [v \in Bytes |-> freq[v] + hist16[BinOf(v)][MorselOf(v)]]
      /\ in' = in /\ offset' = offset /\ ptr' = ptr /\ left' = left /\ round' = round
      /\ scratch' = scratch /\ count' = count /\ hist16' = hist16 /\ tree' = tree
  BY DEF CloseRound
<1>3. pc \in Filling /\ pc' \notin Filling /\ pc' \in CountPhases /\ pc' # "align" /\ pc' # "count"
  BY <1>2 DEF Filling, CountPhases
<1>4. ASSUME NEW v \in Bytes PROVE freq'[v] = Seen(in, v, ptr) /\ freq'[v] \in Nat
  <2>1. BinOf(v) \in DOMAIN count /\ BinBase(BinOf(v)) \in Nat
    BY <1>1, BinShapes DEF CountShape
  <2>2. Waits(scratch, count, v) = 0
    BY <1>2, <2>1, AmongOne DEF Waits
  <2>3. freq[v] + hist16[BinOf(v)][MorselOf(v)] + Waits(scratch, count, v) = Seen(in, v, ptr)
    BY <1>1, <1>3 DEF Ledger
  <2>4. freq[v] \in Nat /\ hist16[BinOf(v)][MorselOf(v)] \in Nat
    BY <1>1, BinShapes, CountShapes
  <2> QED BY <1>2, <2>2, <2>3, <2>4
<1>5. freq' \in [Bytes -> Nat]
  <2>1. freq' = [v \in Bytes |-> freq'[v]]
    BY <1>2
  <2> QED BY <1>4, <2>1
<1>6. CountShape'
  BY <1>1, <1>2, <1>3, <1>5 DEF CountShape
<1>7. Ledger' /\ Counting'
  BY <1>3 DEF Ledger, Counting
<1>8. Settled'
  BY <1>2, <1>4 DEF Settled
<1> QED BY <1>6, <1>7, <1>8 DEF HistInv

\* The bytes left of a chunk.
LEMMA RestKeeps == HistInv /\ Rest => HistInv'
<1> SUFFICES ASSUME HistInv, Rest PROVE HistInv'
  OBVIOUS
<1>1. CountShape /\ Settled
  BY DEF HistInv
<1>2. /\ pc = "rounds" /\ pc' = "chunk" /\ left < Vec /\ ptr' = ptr + left /\ left' = 0
      /\ freq' = [v \in Bytes |-> freq[v] + Occurrences(v, ptr, ptr + left)]
      /\ in' = in /\ offset' = offset /\ round' = round
      /\ scratch' = scratch /\ count' = count /\ hist16' = hist16 /\ tree' = tree
  BY DEF Rest
<1>3. pc \notin Filling /\ pc' \notin Filling /\ pc' \in CountPhases /\ pc' # "align" /\ pc' # "count"
  BY <1>2 DEF Filling, CountPhases
<1>4. left \in Nat /\ MaxChunk \in Nat /\ ptr \in Nat
  BY <1>1, CountShapes DEF CountShape
<1>5. freq' \in [Bytes -> Nat] /\ \A v \in Bytes : freq'[v] = Seen(in, v, ptr + left)
  BY <1>1, <1>2, <1>3, <1>4, SinglyCounted
<1>6. CountShape'
  <2>1. ptr' \in Nat /\ left' \in 0 .. MaxChunk /\ ptr' + left' + round' <= Len(in')
    <3>1. round = 0 /\ Len(in) \in Nat /\ ptr + left + round <= Len(in)
      BY <1>1, <1>3 DEF CountShape
    <3> QED BY <1>2, <1>4, <3>1
  <2> QED BY <1>1, <1>2, <1>3, <1>5, <2>1 DEF CountShape
<1>7. Ledger' /\ Counting'
  BY <1>3 DEF Ledger, Counting
<1>8. Settled'
  BY <1>2, <1>5 DEF Settled
<1> QED BY <1>6, <1>7, <1>8 DEF HistInv

\* At first nothing is passed and nothing counted.
LEMMA InitHist == CountInit => HistInv
<1> SUFFICES ASSUME CountInit PROVE HistInv
  OBVIOUS
<1>1. /\ in \in Inputs /\ offset \in Offsets /\ ptr = 0 /\ left = 0 /\ pc = "chunk" /\ round = 0
      /\ scratch = [a \in 0 .. (Bins * BufSize) + Vec - 1 |-> 0]
      /\ count = [b \in 0 .. Bins - 1 |-> 0] /\ hist16 = [b \in 0 .. Bins - 1 |-> Zero]
      /\ freq = [b \in Bytes |-> 0]
  BY DEF CountInit
<1>2. /\ Vec \in Nat \ {0} /\ Morsels \in Nat \ {0} /\ WideMod \in Nat \ {0} /\ BufSize \in Nat
      /\ MaxChunk \in Nat /\ RoundMax \in Nat
  BY CountShapes
<1>3. in \in Seq(Bytes) /\ Len(in) \in Nat
  <2>1. in \in Seq(Bytes)
    BY <1>1, InputsAssumption DEF Bytes
  <2> QED BY <2>1
<1>4. offset \in Nat
  BY <1>1, <1>2, OffsetsAssumption
<1>5. pc \notin Filling /\ pc \in CountPhases /\ pc # "align" /\ pc # "count"
  BY <1>1 DEF Filling, CountPhases
<1>6. CountShape
  <2>1. WholeVectors(round)
    <3>1. 0 = 0 * Vec
      BY <1>2
    <3> QED BY <1>1, <3>1 DEF WholeVectors
  <2>2. scratch \in Buffers
    <3>1. scratch = [a \in 0 .. Room - 1 |-> 0]
      <4>1. Bins \in Nat
        BY CountShapes
      <4>2. Room - 1 = (Bins * BufSize) + Vec - 1
        BY <1>2, <4>1 DEF Room
      <4> QED BY <1>1, <4>2
    <3>2. 0 \in Cells
      BY <1>2 DEF Cells
    <3> QED BY <3>1, <3>2 DEF Buffers
  <2>3. hist16 \in [0 .. Bins - 1 -> Counters]
    <3>1. Zero \in Counters
      BY <1>2 DEF Zero, Counters
    <3> QED BY <1>1, <3>1
  <2>4. count \in [0 .. Bins - 1 -> 0 .. BufSize] /\ freq \in [Bytes -> Nat]
    BY <1>1, <1>2
  <2>5. left \in 0 .. MaxChunk /\ round \in 0 .. RoundMax /\ ptr + left + round <= Len(in)
    BY <1>1, <1>2, <1>3
  <2> QED BY <1>1, <1>3, <1>4, <1>5, <2>1, <2>2, <2>3, <2>4, <2>5 DEF CountShape
<1>7. Settled
  <2>1. SUFFICES ASSUME NEW v \in Bytes PROVE freq[v] = Seen(in, v, ptr)
    BY DEF Settled
  <2>2. Seen(in, v, 0) = 0
    BY AmongOne DEF Seen
  <2> QED BY <1>1, <2>2
<1>8. Ledger /\ Counting
  BY <1>5 DEF Ledger, Counting
<1> QED BY <1>6, <1>7, <1>8 DEF HistInv

\* Every step keeps the invariant.
LEMMA StepHist == HistInv /\ [CountNext]_countVars => HistInv'
<1> SUFFICES ASSUME HistInv, [CountNext]_countVars PROVE HistInv'
  OBVIOUS
<1>1. CASE Chunk
  BY <1>1, ChunkKeeps
<1>2. CASE Align
  BY <1>2, AlignKeeps
<1>3. CASE OpenRound
  BY <1>3, OpenKeeps
<1>4. CASE ReadVector
  BY <1>4, ReadKeeps
<1>5. CASE \E b \in 0 .. Bins - 1 : StartBin(b)
  BY <1>5, StartKeeps
<1>6. CASE CountVector
  BY <1>6, VectorKeeps
<1>7. CASE EndBin
  BY <1>7, EndKeeps
<1>8. CASE CloseRound
  BY <1>8, CloseKeeps
<1>9. CASE Rest
  BY <1>9, RestKeeps
<1>10. CASE UNCHANGED countVars
  <2>1. /\ in' = in /\ offset' = offset /\ ptr' = ptr /\ left' = left /\ pc' = pc /\ round' = round
        /\ scratch' = scratch /\ count' = count /\ hist16' = hist16 /\ tree' = tree /\ freq' = freq
    BY <1>10 DEF countVars
  <2>2. CountShape /\ Ledger /\ Settled /\ Counting
    BY DEF HistInv
  <2>3. CountShape'
    BY <2>1, <2>2 DEF CountShape
  <2>4. Ledger' /\ Settled'
    BY <2>1, <2>2 DEF Ledger, Settled
  <2>5. Counting'
    BY <2>1, <2>2 DEF Counting
  <2> QED BY <2>3, <2>4, <2>5 DEF HistInv
<1> QED
  BY <1>1, <1>2, <1>3, <1>4, <1>5, <1>6, <1>7, <1>8, <1>9, <1>10 DEF CountNext

\* The invariant says what the histogram owes.
LEMMA HistIsSound == HistInv => HistogramSound
<1> SUFFICES ASSUME HistInv PROVE HistogramSound
  OBVIOUS
<1>1. CountShape /\ Ledger /\ Settled
  BY DEF HistInv
<1>2. /\ Vec \in Nat \ {0} /\ WideMod \in Nat \ {0} /\ BufSize \in Nat /\ RoundMax \in Nat /\ MaxChunk \in Nat
  BY CountShapes
<1>3. /\ ptr \in Nat /\ left \in Nat /\ round \in Nat /\ Len(in) \in Nat /\ ptr + left + round <= Len(in)
      /\ DOMAIN count = 0 .. Bins - 1 /\ DOMAIN hist16 = 0 .. Bins - 1 /\ DOMAIN freq = Bytes
  BY <1>1, <1>2 DEF CountShape
<1>4. \A v : Occurrences(v, 0, ptr) = Seen(in, v, ptr)
  <2>1. SUFFICES ASSUME NEW v PROVE Occurrences(v, 0, ptr) = Seen(in, v, ptr)
    OBVIOUS
  <2>2. Occurrences(v, 0, 0 + ptr) = Among(Spots(in, v), 0, ptr)
    BY <1>3, OccurrencesSeen
  <2>3. 0 + ptr = ptr
    BY <1>3
  <2> QED BY <2>2, <2>3 DEF Seen
<1>5. ASSUME NEW v \in Bytes PROVE freq[v] \in 0 .. Len(in)
  <2>1. Seen(in, v, ptr) \in 0 .. ptr /\ freq[v] \in Nat
    BY <1>1, <1>3, SeenGrows DEF CountShape
  <2>2. freq[v] <= Seen(in, v, ptr)
    <3>1. CASE pc \in Filling
      <4>1. freq[v] + hist16[BinOf(v)][MorselOf(v)] + Waits(scratch, count, v) = Seen(in, v, ptr)
        BY <1>1, <3>1 DEF Ledger
      <4>2. hist16[BinOf(v)][MorselOf(v)] \in 0 .. WideMod - 1 /\ Waits(scratch, count, v) \in Nat
        BY <1>1, BinShapes
      <4>3. hist16[BinOf(v)][MorselOf(v)] \in Nat
        BY <1>2, <4>2
      <4> QED BY <2>1, <4>1, <4>2, <4>3
    <3>2. CASE pc \notin Filling
      BY <1>1, <2>1, <3>2 DEF Settled
    <3> QED BY <3>1, <3>2
  <2> QED BY <1>3, <2>1, <2>2
<1>6. CountTypeOK
  <2>1. \A b \in 0 .. Bins - 1 : count[b] \in 0 .. BufSize
    BY <1>1 DEF CountShape
  <2>2. \A b \in 0 .. Bins - 1 : \A m \in 0 .. Morsels - 1 : hist16[b][m] \in 0 .. WideMod - 1
    BY <1>1 DEF CountShape, Counters
  <2>3. DOMAIN Zero = 0 .. Morsels - 1
    BY DEF Zero
  <2>4. pc \in {"chunk", "align", "rounds", "vectors", "count", "done"}
    BY <1>1 DEF CountShape, CountPhases
  <2>5. ptr \in 0 .. Len(in) /\ left \in 0 .. MaxChunk /\ round \in 0 .. RoundMax
    BY <1>1, <1>3 DEF CountShape
  <2> QED BY <1>3, <1>5, <2>1, <2>2, <2>3, <2>4, <2>5 DEF CountTypeOK
<1>7. BinsApart
  <2>1. SUFFICES ASSUME NEW b \in 0 .. Bins - 1, ~Due(b) PROVE count[b] + Vec <= BufSize
    BY <1>3 DEF BinsApart
  <2>2. ~(count[b] >= BufSize - Vec)
    BY <2>1 DEF Due, NearlyFull
  <2>3. count[b] \in Nat
    <3>1. count[b] \in 0 .. BufSize
      BY <1>1 DEF CountShape
    <3> QED BY <1>2, <3>1
  <2> QED BY <1>2, <2>2, <2>3
<1>8. Exact
  BY <1>1, <1>4 DEF Exact, Settled, Filling
<1>9. Conserved
  <2>1. SUFFICES ASSUME pc = "vectors", NEW v \in Bytes
                 PROVE  freq[v] + hist16[BinOf(v)][MorselOf(v)]
                          + Cardinality({a \in BinBase(BinOf(v)) .. BinBase(BinOf(v)) + count[BinOf(v)] - 1 :
                                           scratch[a] = MorselOf(v)})
                        = Occurrences(v, 0, ptr)
    BY DEF Conserved
  <2>2. BinBase(BinOf(v)) \in Nat /\ count[BinOf(v)] \in Nat
    BY <1>1, BinShapes
  <2>3. {a \in BinBase(BinOf(v)) .. BinBase(BinOf(v)) + count[BinOf(v)] - 1 : scratch[a] = MorselOf(v)}
          = Members(Holding(scratch, MorselOf(v)), BinBase(BinOf(v)), count[BinOf(v)])
    BY <2>2 DEF Members, Holding
  <2>4. freq[v] + hist16[BinOf(v)][MorselOf(v)] + Waits(scratch, count, v) = Seen(in, v, ptr)
    BY <1>1, <2>1 DEF Ledger, Filling
  <2> QED BY <1>4, <2>3, <2>4 DEF Waits, Among
<1> QED BY <1>6, <1>7, <1>8, <1>9 DEF HistogramSound

\* Whatever the input, its alignment and the sizes of buffers, counters and rounds, no byte
\* is lost or counted twice: by the carries of the one-bit counters, by the wrap of a narrow
\* one, by the bytes behind a bin's last, or by a bin's store reaching into the next.
THEOREM HistogramCorrect == CountSpec => []HistogramSound
<1>1. CountInit => HistInv
  BY InitHist
<1>2. HistInv /\ [CountNext]_countVars => HistInv'
  BY StepHist
<1>3. HistInv => HistogramSound
  BY HistIsSound
<1> QED BY <1>1, <1>2, <1>3, PTL DEF CountSpec
=============================================================================
