------------------------------ MODULE FlatKernel ------------------------------
(***************************************************************************)
(* The SIMD kernels that pack a flat region (n codes of D bits, least      *)
(* significant bit first, no padding between codes) and unpack it again.   *)
(*                                                                         *)
(* A kernel is a list of loops, each faster and greedier than the next,    *)
(* and a scalar loop for what they leave.  A wide loop loads (or stores)   *)
(* whole registers, so what keeps it inside the region is only its own     *)
(* stopping condition, and there is one of those per engine, per D and per *)
(* loop.  The module keeps these conditions at their real constants and    *)
(* abstracts the shuffles to the bytes they load and store.                *)
(***************************************************************************)
EXTENDS Integers, Sequences, FiniteSets

CONSTANTS Engines,    \* a subset of AllEngines
          Depths,     \* the D of the regions, a subset of 2..8
          Sizes       \* the code counts n

AllEngines == {"neon", "sse", "avx2", "avx512"}

ASSUME FlatKernelAssumption ==
    /\ Engines \subseteq AllEngines
    /\ Depths \subseteq 2..8
    /\ Sizes \subseteq Nat \ {0}

VARIABLES
    op,       \* "pack" or "merge" (the unpack fused with the symbol lookup)
    engine, d, n,
    at,       \* i: the codes done
    loop,     \* the loop the kernel is in
    reached,  \* one past the last byte of the region loaded or stored so far
    short,    \* a load that missed a bit of a code it decodes
    mem       \* pack: what each byte of the output holds

vars == <<op, engine, d, n, at, loop, reached, short, mem>>

Larger(x, y) == IF x >= y THEN x ELSE y

\* (n * D + 7) >> 3: the bytes of the region.
RegionBytes == (n * d + 7) \div 8

-----------------------------------------------------------------------------
(* The loops.  "take" codes a turn, run while "keep" more codes are left    *)
(* behind them and "need" bytes are left from the turn's first on; "span"   *)
(* is how far past the turn's first byte its registers reach.               *)

Loop(take, keep, need, span) ==
    [take |-> take, keep |-> keep, need |-> need, span |-> span]

Exactly(take, span) == Loop(take, 0, 0, span)

NeonMerge(D) ==
    CASE D = 2 -> <<Exactly(64, 16), Exactly(16, 4), Exactly(4, 1)>>
      [] D = 3 -> <<Loop(32, 16, 0, 16), Loop(16, 16, 0, 16), Exactly(8, 3)>>
      [] D = 4 -> <<Exactly(32, 16), Exactly(16, 8), Exactly(2, 1)>>
      [] D = 5 -> <<Loop(16, 9, 0, 16), Exactly(8, 5)>>
      [] D = 6 -> <<Loop(16, 8, 0, 16), Exactly(8, 6)>>
      [] D = 7 -> <<Loop(16, 24, 0, 16), Loop(8, 24, 0, 16), Exactly(8, 7)>>
      [] OTHER -> <<>>

\* Mutant: D = 5 with the block count of D = 6.
SseMerge_eight(D) ==
    CASE D = 2 -> <<Exactly(64, 16), Loop(16, 16, 0, 18)>>
      [] D = 3 -> <<Loop(32, 16, 0, 16), Loop(8, 16, 0, 16)>>
      [] D = 4 -> <<Exactly(16, 8), Exactly(2, 1)>>
      [] D \in {5, 6} -> <<Loop(16, 8, 0, 16), Loop(8, 24, 0, 16)>>
      [] D = 7 -> <<Loop(16, 3, 0, 16), Exactly(8, 7)>>
      [] OTHER -> <<>>

SseMerge(D) ==
    CASE D = 2 -> <<Exactly(64, 16), Loop(16, 16, 0, 18)>>
      [] D = 3 -> <<Loop(32, 16, 0, 16), Loop(8, 16, 0, 16)>>
      [] D = 4 -> <<Exactly(16, 8), Exactly(2, 1)>>
      [] D = 5 -> <<Loop(16, 9, 0, 16), Loop(8, 24, 0, 16)>>
      [] D = 6 -> <<Loop(16, 8, 0, 16), Loop(8, 24, 0, 16)>>
      [] D = 7 -> <<Loop(16, 3, 0, 16), Exactly(8, 7)>>
      [] OTHER -> <<>>

\* The ymm loops count the whole bytes left; the xmm loops run on the rest.
Avx2Merge(D) ==
    CASE D = 2 -> <<Exactly(16, 4)>>
      [] D = 4 -> <<Exactly(32, 16), Exactly(16, 8), Exactly(2, 1)>>
      [] D = 5 -> <<Loop(32, 0, 26, 26), Loop(16, 9, 0, 16), Loop(8, 24, 0, 16)>>
      [] D = 6 -> <<Loop(32, 0, 28, 28), Loop(16, 8, 0, 16), Loop(8, 24, 0, 16)>>
      [] D = 7 -> <<Loop(32, 0, 30, 30), Loop(16, 3, 0, 16), Exactly(8, 7)>>
      [] OTHER -> SseMerge(D)

Avx512Merge(D) ==
    CASE D = 2 -> <<Loop(64, 64, 0, 32), Exactly(16, 4), Exactly(4, 1)>>
      [] D = 3 -> <<Loop(64, 64, 0, 32), Loop(16, 16, 0, 8), Exactly(16, 6)>>
      [] D = 4 -> <<Loop(64, 64, 0, 32), Exactly(16, 8)>>
      [] D = 5 -> <<Loop(64, 64, 0, 64), Loop(16, 16, 0, 16), Exactly(16, 10)>>
      [] D = 6 -> <<Loop(64, 64, 0, 64), Loop(16, 16, 0, 16), Exactly(16, 12)>>
      [] D = 7 -> <<Loop(64, 64, 0, 64), Loop(16, 16, 0, 16), Exactly(16, 14)>>
      [] OTHER -> <<>>

MergeLoops(e, D) ==
    CASE e = "neon" -> NeonMerge(D)
      [] e = "sse" -> SseMerge(D)
      [] e = "avx2" -> Avx2Merge(D)
      [] OTHER -> Avx512Merge(D)

NeonPack(D) ==
    CASE D = 2 -> <<Exactly(64, 16), Exactly(16, 4)>>
      [] D = 3 -> <<Loop(32, 0, 16, 16), Loop(16, 0, 16, 16)>>
      [] D = 4 -> <<Exactly(32, 16), Exactly(16, 8)>>
      [] D = 8 -> <<Exactly(16, 16)>>
      [] OTHER -> <<Loop(16, 0, 16, 16)>>

SsePack(D) ==
    CASE D = 2 -> <<Exactly(16, 4)>>
      [] D = 4 -> <<Exactly(16, 8)>>
      [] OTHER -> <<Exactly(16, 16)>>

\* Two 16-byte stores a turn, the second 2*D bytes after the first.
Avx2Pack(D) ==
    IF D \in {4, 8} THEN SsePack(D) ELSE <<Exactly(32, 2 * D + 16)>>

\* A masked store of the 8*D bytes of the 64 codes.
Avx512Pack(D) == <<Exactly(64, 8 * D)>>

PackLoops(e, D) ==
    CASE e = "neon" -> NeonPack(D)
      [] e = "sse" -> SsePack(D)
      [] e = "avx2" -> Avx2Pack(D)
      [] OTHER -> Avx512Pack(D)

Loops == IF op = "pack" THEN PackLoops(engine, d) ELSE MergeLoops(engine, d)

-----------------------------------------------------------------------------
Init ==
    /\ op \in {"pack", "merge"}
    /\ engine \in Engines
    /\ d \in Depths
    /\ n \in Sizes
    /\ at = 0 /\ loop = 1
    /\ reached = 0
    /\ short = FALSE
    /\ mem = [b \in 0..RegionBytes + 15 |->
                IF op = "pack" /\ b = RegionBytes - 1 THEN "zero" ELSE "old"]

\* The byte of the current code's first bit.
First == (at * d) \div 8

\* merge_flat_dN counts the region's whole bytes, pack_dN also its last part.
BytesThere == IF op = "pack" THEN RegionBytes ELSE (n * d) \div 8

Fits(l) ==
    /\ at + l.take + l.keep <= n
    /\ First + l.need <= BytesThere

\* A full-register store: the codes' bytes, then whatever the shuffle left.
Stored(l) ==
    [b \in DOMAIN mem |->
        IF b < First \/ b >= First + l.span THEN mem[b]
        ELSE IF b < First + (l.take * d) \div 8 THEN "code" ELSE "junk"]

\* One turn of a wide loop.  The shuffles take the first code to start a byte.
Wide ==
    /\ loop <= Len(Loops)
    /\ ~(op = "merge" /\ d = 8)
    /\ LET l == Loops[loop] IN
        /\ Fits(l)
        /\ at' = at + l.take
        /\ reached' = Larger(reached, First + l.span)
        /\ short' = (short \/ (at * d) % 8 # 0 \/ l.take * d > 8 * l.span)
        /\ mem' = IF op = "pack" THEN Stored(l) ELSE mem
    /\ UNCHANGED <<op, engine, d, n, loop>>

NextLoop ==
    /\ loop <= Len(Loops)
    /\ ~(op = "merge" /\ d = 8)
    /\ ~Fits(Loops[loop])
    /\ loop' = loop + 1
    /\ UNCHANGED <<op, engine, d, n, at, reached, short, mem>>

\* The scalar unpack (extract_D_bits): the code's byte, and the next one only
\* when the code runs into it.
ScalarMerge ==
    /\ op = "merge" /\ d # 8
    /\ loop > Len(Loops)
    /\ at < n
    /\ at' = at + 1
    /\ reached' = Larger(reached,
                         First + (IF ((at * d) % 8) + d > 8 THEN 2 ELSE 1))
    /\ UNCHANGED <<op, engine, d, n, loop, short, mem>>

\* The scalar pack: every byte the code completes, and after the last code the
\* byte left in the register.
ScalarPack ==
    /\ op = "pack"
    /\ loop > Len(Loops)
    /\ at < n
    /\ LET end == IF at + 1 = n THEN RegionBytes ELSE ((at + 1) * d) \div 8 IN
        /\ mem' = [b \in DOMAIN mem |->
                     IF b \in First..end - 1 THEN "code" ELSE mem[b]]
        /\ reached' = Larger(reached, end)
    /\ at' = at + 1
    /\ UNCHANGED <<op, engine, d, n, loop, short>>

\* merge_flat_d8: the codes are the symbols.
Copy ==
    /\ op = "merge" /\ d = 8
    /\ at < n
    /\ at' = n
    /\ reached' = n
    /\ UNCHANGED <<op, engine, d, n, loop, short, mem>>

Next == Wide \/ NextLoop \/ ScalarMerge \/ ScalarPack \/ Copy

Spec == Init /\ [][Next]_vars

-----------------------------------------------------------------------------
TypeOK ==
    /\ op \in {"pack", "merge"}
    /\ engine \in Engines /\ d \in Depths /\ n \in Sizes
    /\ at \in 0..n
    /\ loop \in 1..Len(Loops) + 1
    /\ reached \in Nat
    /\ short \in BOOLEAN
    /\ mem \in [0..RegionBytes + 15 -> {"zero", "old", "code", "junk"}]

\* What the loops' stopping conditions let a merge load past its region: the
\* "stop 16 codes early" of the narrow D is less than a register.
ReadExcess(e, D) ==
    CASE e = "neon" /\ D = 3 -> 4
      [] e = "sse" /\ D = 2 -> 10
      [] e \in {"sse", "avx2"} /\ D = 3 -> 7
      [] OTHER -> 0

\* A merge loads no byte past its region, except for the four kernels above,
\* which load at most so much; all of them stay within the 16 bytes the codec
\* calls MERGE_OVERREAD.  Each kernel's guard has its own constants.
ReadsBounded ==
    op = "merge" => reached <= RegionBytes + ReadExcess(engine, d)

\* A pack on NEON or AVX-512 stores no byte past its region, since another
\* node's region may already be there; the SSE and AVX2 kernels may leave the
\* junk half of their last register behind it.
StoresBounded ==
    op = "pack" =>
        reached <= RegionBytes +
            IF \/ engine \in {"neon", "avx512"}
               \/ d \in {4, 8}
               \/ engine = "sse" /\ d = 2
            THEN 0 ELSE 16 - 2 * d

\* Every load covers every bit of the codes its turn decodes, and every turn
\* starts on a byte: the byte shuffles are fixed.
WindowsCover ==
    /\ ~short
    /\ loop <= Len(Loops) => (at * d) % 8 = 0

\* At the end every byte of a packed region holds codes: the junk a register
\* leaves behind the codes of one turn is overwritten by the next turn or by
\* the scalar loop, and none of it by neither.
Packed ==
    op = "pack" /\ at = n => \A b \in 0..RegionBytes - 1 : mem[b] = "code"

\* What the flat kernels owe the walks: loads and stores where there is memory for them,
\* and codes wherever a code belongs.
FlatSound == TypeOK /\ ReadsBounded /\ StoresBounded /\ WindowsCover /\ Packed
=============================================================================
