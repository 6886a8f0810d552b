--------------------------- MODULE Contexts_proofs ---------------------------
(***************************************************************************)
(* A context's memory, for every size of the program's constants, every    *)
(* set of tables and layouts and every pattern of failing allocations: the *)
(* heap is what the contexts own, a capacity is what was allocated, a walk *)
(* has its arena to itself, and nesting ends one level down.               *)
(***************************************************************************)
EXTENDS Contexts, SequenceTheorems, TLAPS

-----------------------------------------------------------------------------
(* The inductive invariant. *)

Idle == [l \in Levels |-> NoContext]

\* The caller's context, the one child it may have, and nothing below that.
CtxShape ==
  /\ kind = "none" => ctx = Idle /\ calls = <<>>
  /\ kind # "none" => ctx[0].live /\ ~ctx[0].isChild
  /\ ctx[0].nested => ctx[0].live /\ ctx[1].live /\ ctx[1].isChild /\ ~ctx[1].nested
  /\ ~ctx[0].nested => ctx[1] = NoContext
  /\ ctx[2] = NoContext

\* The layout recorded for a static table is the one it was built for.
RecordsTrue ==
  \A t \in Tables : LET entry == ctx[0].snph[t] IN entry # <<>> => entry[1] = entry[2]

\* The arenas of a level are as large as recorded, and have room for the bins.
ArenasTrue(l) ==
  ctx[l].live => /\ heap[Block(l, "enc")] = ctx[l].encCap
                 /\ heap[Block(l, "dec")] = ctx[l].decCap
                 /\ HistScratch <= ctx[l].encCap

\* The contexts and what they own.
Contexted ==
  /\ kind \in {"none", "encoder", "decoder"} /\ small \in BOOLEAN
  /\ ctx \in [Levels -> ContextType]
  /\ CtxShape /\ RecordsTrue
  /\ DOMAIN heap = Owned(0) \cup Owned(1)
  /\ ArenasTrue(0) /\ ArenasTrue(1)

\* The calls that have their arena to themselves, the child's with a table that fits.
SoundFrames ==
  {f \in FrameType :
     /\ f.held # 0 => /\ Need(f.n) <= f.held
                      /\ heap[Arena(f.level)] = f.held
                      /\ holds[f.level] = "walk"
     /\ f.level > 0 =>
          IF f.table = 0 THEN ctx[f.level - 1].table = f.layout
          ELSE LET entry == ctx[f.level - 1].snph[f.table]
               IN  entry # <<>> /\ entry[1] = f.layout}

\* The caller's call and, while a region is coded, the child's above it.
Called ==
  /\ holds \in [Levels -> {"nothing", "bins", "walk"}]
  /\ \/ calls = <<>>
     \/ \E f \in SoundFrames : calls = <<f>> /\ f.level = 0
     \/ \E f, g \in SoundFrames : /\ calls = <<f, g>> /\ f.level = 1 /\ g.level = 0
                                  /\ ctx[0].nested

\* A region belongs to the innermost call; with its child there, to the caller's.
RegionType ==
  [stage : {"none", "nested", "table"}, form : {"none", "dnPH", "snPH"},
   bytes : 0 .. NphMaxN, t : Tables \cup {0}]
Regioned ==
  /\ region \in RegionType
  /\ region.stage = "none" => region = NoRegion
  /\ region.form = "dnPH" => region.t = 0
  /\ region.stage # "none" => calls # <<>> /\ region.bytes \in 1 .. NphMaxN
  /\ region.stage = "table" => Len(calls) = 1 /\ ctx[0].nested

\* What the last call returned.
Returned ==
  /\ last \in [status : {"none", "ok", "null"}, zeroed : BOOLEAN]

ContextInv == Contexted /\ Called /\ Regioned /\ Returned

-----------------------------------------------------------------------------
(* Sizes. *)

\* Products of numbers are numbers; whatever is coded, its bitmap included, is a block.
LEMMA Sizes ==
  /\ NphMaxN \in 1 .. WireMaxN
  /\ \A n \in 1 .. WireMaxN :
       /\ EncodeNeed(n) \in Nat /\ DecodeNeed(n) \in Nat /\ Need(n) \in Nat /\ Need(n) # 0
       /\ BitmapBytes(n) \in 1 .. NphMaxN
<1>1. WireMaxN \in Nat /\ WireMaxN > 0 /\ MaxCodeLen + 2 \in Nat
  BY SizesAssumption
<1>2. NphMaxN \in 1 .. WireMaxN
  BY <1>1 DEF NphMaxN
<1>3. ASSUME NEW n \in 1 .. WireMaxN
      PROVE  /\ EncodeNeed(n) \in Nat /\ DecodeNeed(n) \in Nat
             /\ Need(n) \in Nat /\ Need(n) # 0
  <2>1. n \in Nat /\ n > 0
    BY <1>1
  <2>2. n * (MaxCodeLen + 2) \in Nat /\ n * (MaxCodeLen + 2) # 0
    BY <2>1, SizesAssumption
  <2> DEFINE p == n * (MaxCodeLen + 2)
  <2> HIDE DEF p
  <2>3. p \in Nat /\ p # 0 /\ EncodeNeed(n) = (n + 64) + p + (n * 2 + 4096)
        /\ DecodeNeed(n) = p + Overread + DecodePad
    BY <2>2 DEF p, EncodeNeed, DecodeNeed
  <2>4. QED
    BY <2>1, <2>3, SizesAssumption DEF Need
<1>4. ASSUME NEW n \in 1 .. WireMaxN
      PROVE  BitmapBytes(n) \in 1 .. NphMaxN
  BY <1>1 DEF BitmapBytes, NphMaxN
<1>5. QED
  BY <1>2, <1>3, <1>4

\* A new context has arenas of a size, and one for the histogram's bins.
LEMMA StartSizes ==
  ASSUME small \in BOOLEAN, NEW n \in 1 .. WireMaxN
  PROVE  StartEncCap(n) \in Nat /\ StartDecCap(n) \in Nat /\ HistScratch <= StartEncCap(n)
<1>1. n \in Nat /\ n * (MaxCodeLen + 2) \in Nat
  BY SizesAssumption
<1> DEFINE p == n * (MaxCodeLen + 2)
<1> HIDE DEF p
<1>2. EncScratchBytes(n) = n + 64 + p + HistScratch /\ DecScratchBytes(n) = p + 64 /\ p \in Nat
  BY <1>1 DEF p, EncScratchBytes, DecScratchBytes
<1>3. CASE small
  BY <1>3, SizesAssumption DEF StartEncCap, StartDecCap
<1>4. CASE ~small
  BY <1>1, <1>2, <1>4, SizesAssumption DEF StartEncCap, StartDecCap
<1>5. QED
  BY <1>3, <1>4

-----------------------------------------------------------------------------
(* The heap. *)

LEMMA Mallocs ==
  ASSUME NEW h, NEW sizes, NEW fails
  PROVE  LET m == Malloc(h, sizes, fails) IN
         /\ DOMAIN m = (DOMAIN sizes \ fails) \cup DOMAIN h
         /\ \A x \in DOMAIN sizes \ fails : m[x] = sizes[x]
         /\ \A x \in DOMAIN h \ DOMAIN sizes : m[x] = h[x]
BY DEF Malloc

LEMMA Frees ==
  ASSUME NEW h, NEW blocks
  PROVE  LET m == FreeAll(h, blocks) IN
         DOMAIN m = DOMAIN h \ blocks /\ \A x \in DOMAIN h \ blocks : m[x] = h[x]
BY DEF FreeAll

\* What a context has from its creation on.
Base(l) == ScratchParts(l) \cup {Block(l, "handle")}

Created(h, l, n, c) ==
  /\ DOMAIN c = DOMAIN h \cup Base(l)
  /\ c[Block(l, "enc")] = StartEncCap(n) /\ c[Block(l, "dec")] = StartDecCap(n)
Keeps(h, c) == \A x \in DOMAIN h : c[x] = h[x]

\* A creation succeeds and adds these, or fails and adds nothing; it touches nothing else.
LEMMA Creates ==
  ASSUME NEW h, NEW l, NEW n, NEW fails, NEW c, c = CreateAt(h, l, n, fails),
         DOMAIN h \cap Base(l) = {}
  PROVE  Keeps(h, c) /\ (Created(h, l, n, c) \/ DOMAIN c = DOMAIN h)
<1> USE DEF Keeps, Created
<1> DEFINE hd == Block(l, "handle")
           sc == Block(l, "scratch")
           en == Block(l, "enc")
           de == Block(l, "dec")
           handle  == Malloc(h, Struct(hd), fails)
           scratch == Malloc(handle, Struct(sc), fails)
           arenas  == Malloc(scratch, ArenaSizes(l, n), fails)
<1>1. hd # sc /\ hd # en /\ hd # de /\ sc # en /\ sc # de /\ en # de
  BY DEF Block
<1>2. Base(l) = {hd, sc, en, de} /\ ScratchParts(l) = {sc, en, de}
  BY DEF Base, ScratchParts
<1>3. /\ DOMAIN Struct(hd) = {hd} /\ DOMAIN Struct(sc) = {sc} /\ DOMAIN ArenaSizes(l, n) = {en, de}
      /\ ArenaSizes(l, n)[en] = StartEncCap(n) /\ ArenaSizes(l, n)[de] = StartDecCap(n)
  BY <1>1 DEF Struct, ArenaSizes
<1>4. c = IF hd \notin DOMAIN handle THEN h
          ELSE IF sc \notin DOMAIN scratch THEN FreeAll(scratch, {hd})
          ELSE IF {sc, en, de} \subseteq DOMAIN arenas THEN arenas
          ELSE FreeAll(arenas, {sc, en, de} \cup {hd})
  BY <1>2 DEF CreateAt
<1> HIDE DEF hd, sc, en, de
<1>5. /\ DOMAIN handle = ({hd} \ fails) \cup DOMAIN h
      /\ \A x \in DOMAIN h \ {hd} : handle[x] = h[x]
  BY <1>3 DEF Malloc
<1> HIDE DEF handle
<1>6. /\ DOMAIN scratch = ({sc} \ fails) \cup DOMAIN handle
      /\ \A x \in DOMAIN handle \ {sc} : scratch[x] = handle[x]
  BY <1>3 DEF Malloc
<1> HIDE DEF scratch
<1>7. /\ DOMAIN arenas = ({en, de} \ fails) \cup DOMAIN scratch
      /\ \A x \in {en, de} \ fails : arenas[x] = ArenaSizes(l, n)[x]
      /\ \A x \in DOMAIN scratch \ {en, de} : arenas[x] = scratch[x]
  BY <1>3 DEF Malloc
<1> HIDE DEF arenas
<1>8. /\ hd \notin DOMAIN h /\ sc \notin DOMAIN h /\ en \notin DOMAIN h /\ de \notin DOMAIN h
  BY <1>2
<1>9. CASE hd \notin DOMAIN handle
  BY <1>4, <1>9
<1>10. CASE hd \in DOMAIN handle /\ sc \notin DOMAIN scratch
  <2>1. c = FreeAll(scratch, {hd})
    BY <1>4, <1>10
  <2>2. DOMAIN c = DOMAIN scratch \ {hd} /\ \A x \in DOMAIN scratch \ {hd} : c[x] = scratch[x]
    BY <2>1 DEF FreeAll
  <2>3. DOMAIN scratch = DOMAIN handle /\ DOMAIN handle \ {hd} = DOMAIN h
    BY <1>1, <1>5, <1>6, <1>8, <1>10
  <2>4. DOMAIN c = DOMAIN h /\ \A x \in DOMAIN h : c[x] = h[x]
    BY <2>2, <2>3, <1>5, <1>6, <1>8
  <2>5. QED
    BY <2>4
<1>11. CASE hd \in DOMAIN handle /\ sc \in DOMAIN scratch /\ {sc, en, de} \subseteq DOMAIN arenas
  <2>1. c = arenas
    BY <1>4, <1>11
  <2>2. hd \notin fails /\ sc \notin fails /\ en \notin fails /\ de \notin fails
    BY <1>1, <1>5, <1>6, <1>7, <1>8, <1>11
  <2>3. DOMAIN c = DOMAIN h \cup {hd, sc, en, de}
    BY <2>1, <2>2, <1>5, <1>6, <1>7
  <2>4. c[en] = StartEncCap(n) /\ c[de] = StartDecCap(n)
    BY <2>1, <2>2, <1>3, <1>7
  <2>5. \A x \in DOMAIN h : c[x] = h[x]
    BY <2>1, <1>5, <1>6, <1>7, <1>8
  <2>6. QED
    BY <2>3, <2>4, <2>5, <1>2 DEF en, de
<1>12. CASE hd \in DOMAIN handle /\ sc \in DOMAIN scratch /\ ~({sc, en, de} \subseteq DOMAIN arenas)
  <2>1. c = FreeAll(arenas, {sc, en, de} \cup {hd})
    BY <1>4, <1>12
  <2>2. /\ DOMAIN c = DOMAIN arenas \ ({sc, en, de} \cup {hd})
        /\ \A x \in DOMAIN c : c[x] = arenas[x]
    BY <2>1 DEF FreeAll
  <2>3. DOMAIN c = DOMAIN h
    BY <2>2, <1>5, <1>6, <1>7, <1>8
  <2>4. \A x \in DOMAIN h : c[x] = h[x]
    BY <2>2, <2>3, <1>5, <1>6, <1>7, <1>8
  <2>5. QED
    BY <2>3, <2>4
<1>13. QED
  BY <1>9, <1>10, <1>11, <1>12

-----------------------------------------------------------------------------
(* What the invariant is for. *)

\* The calls in progress are frames of the two levels.
LEMMA CallsAre ==
  ASSUME Called
  PROVE  \A i \in DOMAIN calls : calls[i] \in SoundFrames /\ calls[i].level <= 1
<1>1. CASE calls = <<>>
  BY <1>1
<1>2. CASE \E f \in SoundFrames : calls = <<f>> /\ f.level = 0
  <2>1. PICK f \in SoundFrames : calls = <<f>> /\ f.level = 0
    BY <1>2
  <2>2. \A i \in DOMAIN calls : calls[i] = f
    BY <2>1
  <2>3. QED
    BY <2>1, <2>2
<1>3. CASE \E f, g \in SoundFrames : calls = <<f, g>> /\ f.level = 1 /\ g.level = 0
  <2>1. PICK f \in SoundFrames, g \in SoundFrames :
          calls = <<f, g>> /\ f.level = 1 /\ g.level = 0
    BY <1>3
  <2>2. \A i \in DOMAIN calls : calls[i] = f \/ calls[i] = g
    BY <2>1
  <2>3. QED
    BY <2>1, <2>2
<1>4. QED
  BY <1>1, <1>2, <1>3 DEF Called

\* What the invariant says of memory.
LEMMA GivesMemory == ContextInv => MemorySound
<1> SUFFICES ASSUME ContextInv PROVE MemorySound
  OBVIOUS
<1> USE DEF ContextInv
<1>1. ctx \in [Levels -> ContextType] /\ ctx[2] = NoContext /\ Levels = {0, 1, 2}
  BY DEF Contexted, CtxShape, Levels
<1>2. ~ctx[2].live
  BY <1>1 DEF NoContext
<1>3. TypeOK
  <2>1. \A i \in DOMAIN calls : calls[i] \in FrameType
    BY CallsAre DEF SoundFrames
  <2>2. QED
    BY <2>1 DEF TypeOK, Contexted, Called, Regioned, Returned, RegionType
<1>4. HeapIsOwned
  <2>1. Owned(2) = {}
    BY <1>2 DEF Owned
  <2>2. UNION {Owned(l) : l \in Levels} = Owned(0) \cup Owned(1)
    BY <1>1, <2>1
  <2>3. QED
    BY <2>2 DEF HeapIsOwned, Contexted
<1>5. CapsAreTrue /\ HistogramFits
  BY <1>1, <1>2 DEF CapsAreTrue, HistogramFits, Contexted, ArenasTrue
<1>6. WalkUndisturbed
  <2>1. \A i \in DOMAIN calls : calls[i] \in SoundFrames
    BY CallsAre
  <2>2. QED
    BY <2>1 DEF WalkUndisturbed, SoundFrames
<1>7. QED
  BY <1>3, <1>4, <1>5, <1>6 DEF MemorySound, HeapSound, ArenasSound

\* What the invariant says of nesting.
LEMMA GivesNesting == ContextInv => NestingSound
<1> SUFFICES ASSUME ContextInv PROVE NestingSound
  OBVIOUS
<1>1. InnerTableFitsOuter
  <2>1. \A i \in DOMAIN calls : calls[i] \in SoundFrames
    BY CallsAre DEF ContextInv
  <2>2. QED
    BY <2>1 DEF InnerTableFitsOuter, SoundFrames
<1>2. ~ctx[1].nested
  BY DEF ContextInv, Contexted, CtxShape, NoContext
<1>3. \A i \in DOMAIN calls : calls[i].level <= 1
  BY CallsAre DEF ContextInv
<1>4. QED
  BY <1>1, <1>2, <1>3 DEF NestingSound, OneLevel

-----------------------------------------------------------------------------
(* The calls in progress. *)

\* A call keeps its arena and its table if nobody touches them, whatever else of it changes.
LEMMA FrameKept ==
  ASSUME NEW f \in SoundFrames, NEW g \in FrameType,
         g.level = f.level, g.n = f.n, g.layout = f.layout, g.table = f.table,
         g.held = f.held, f.level \in {0, 1}, kind' = kind,
         heap'[Arena(f.level)] = heap[Arena(f.level)], holds'[f.level] = holds[f.level],
         f.level = 1 => ctx'[0].table = ctx[0].table /\ ctx'[0].snph = ctx[0].snph
  PROVE  g \in SoundFrames'
<1>1. \A n : Need(n)' = Need(n)
  BY DEF Need
<1>2. Arena(f.level)' = Arena(f.level)
  BY DEF Arena
<1>3. CASE f.level = 0
  BY <1>2, <1>3 DEF SoundFrames, Need, Arena
<1>4. CASE f.level = 1
  BY <1>2, <1>4 DEF SoundFrames, Need, Arena
<1>5. QED
  BY <1>3, <1>4

\* Two calls, written as one on top of the other.
LEMMA PairConcat ==
  ASSUME NEW a, NEW b
  PROVE  <<a>> \o <<b>> = <<a, b>>
<1> DEFINE S == {a, b}
<1>1. <<a>> \in Seq(S) /\ <<b>> \in Seq(S) /\ <<a, b>> \in Seq(S)
  OBVIOUS
<1>2. /\ <<a>> \o <<b>> \in Seq(S) /\ Len(<<a>> \o <<b>>) = 2
      /\ (<<a>> \o <<b>>)[1] = a /\ (<<a>> \o <<b>>)[2] = b
  <2>1. Len(<<a>>) = 1 /\ Len(<<b>>) = 1 /\ <<a>>[1] = a /\ <<b>>[1] = b
    OBVIOUS
  <2>2. QED
    BY <1>1, <2>1, ConcatProperties
<1>3. Len(<<a, b>>) = 2 /\ <<a, b>>[1] = a /\ <<a, b>>[2] = b
  OBVIOUS
<1>4. \A i \in 1 .. 2 : (<<a>> \o <<b>>)[i] = <<a, b>>[i]
  BY <1>2, <1>3
<1>5. QED
  <2> HIDE DEF S
  <2>1. QED
    BY <1>1, <1>2, <1>3, <1>4, SeqEqual

\* The innermost call goes on changed, the one below it as it was.
LEMMA CallsReplaced ==
  ASSUME Called, calls # <<>>, NEW g \in SoundFrames', g.level = Top.level,
         calls' = <<g>> \o Tail(calls),
         \A f, h \in SoundFrames : calls = <<f, h>> => h \in SoundFrames' /\ ctx'[0].nested,
         holds' \in [Levels -> {"nothing", "bins", "walk"}]
  PROVE  Called'
<1>1. CASE \E f \in SoundFrames : calls = <<f>> /\ f.level = 0
  <2>1. PICK f \in SoundFrames : calls = <<f>> /\ f.level = 0
    BY <1>1
  <2>2. calls' = <<g>> /\ g.level = 0
    BY <2>1 DEF Top
  <2>3. QED
    BY <2>2 DEF Called
<1>2. CASE \E f, h \in SoundFrames : calls = <<f, h>> /\ f.level = 1 /\ h.level = 0
  <2>1. PICK f \in SoundFrames, h \in SoundFrames :
          calls = <<f, h>> /\ f.level = 1 /\ h.level = 0
    BY <1>2
  <2>2. calls' = <<g, h>> /\ g.level = 1
    <3>1. Head(calls) = f /\ Tail(calls) = <<h>>
      BY <2>1
    <3>2. <<g>> \o <<h>> = <<g, h>>
      BY PairConcat
    <3>3. QED
      BY <2>1, <3>1, <3>2 DEF Top
  <2>3. h \in SoundFrames' /\ ctx'[0].nested
    BY <2>1
  <2>4. QED
    BY <2>1, <2>2, <2>3 DEF Called
<1>3. QED
  BY <1>1, <1>2 DEF Called

\* The innermost call returns to the one below it, if there is one.
LEMMA CallsReturn ==
  ASSUME Called, calls # <<>>, NEW st, NEW good \in BOOLEAN, Return(st, good),
         \A f, h \in SoundFrames, g \in FrameType :
           /\ calls = <<f, h>> /\ g.level = h.level /\ g.n = h.n
           /\ g.layout = h.layout /\ g.table = h.table /\ g.held = h.held
           => g \in SoundFrames',
         holds' \in [Levels -> {"nothing", "bins", "walk"}]
  PROVE  Called' /\ Regioned'
<1>1. Regioned'
  BY SizesAssumption, Sizes DEF Return, Regioned, NoRegion, RegionType
<1>2. CASE \E f \in SoundFrames : calls = <<f>> /\ f.level = 0
  <2>1. calls' = <<>>
    BY <1>2 DEF Return
  <2>2. QED
    BY <1>1, <2>1 DEF Called
<1>3. CASE \E f, h \in SoundFrames : calls = <<f, h>> /\ f.level = 1 /\ h.level = 0
  <2>1. PICK f \in SoundFrames, h \in SoundFrames :
          calls = <<f, h>> /\ f.level = 1 /\ h.level = 0
    BY <1>3
  <2> DEFINE g == [h EXCEPT !.zeroed = @ \/ (kind = "decoder" /\ ~good)]
  <2>2. h \in FrameType
    BY DEF SoundFrames
  <2>3. /\ g \in FrameType /\ g.level = h.level /\ g.n = h.n /\ g.layout = h.layout
        /\ g.table = h.table /\ g.held = h.held
    BY <2>2 DEF FrameType
  <2>4. calls' = <<g>>
    <3>1. Tail(calls) = <<h>>
      BY <2>1
    <3>2. Head(<<h>>) = h /\ Tail(<<h>>) = <<>> /\ <<h>> # <<>>
      OBVIOUS
    <3>3. calls' = <<g>> \o <<>>
      BY <3>1, <3>2 DEF Return
    <3>4. QED
      BY <3>3
  <2> HIDE DEF g
  <2>5. g \in SoundFrames'
    BY <2>1, <2>3
  <2>6. QED
    BY <1>1, <2>1, <2>3, <2>4, <2>5 DEF Called
<1>4. QED
  BY <1>2, <1>3 DEF Called

Depth == Len(calls)

\* The innermost call, and the one below it.
LEMMA TopIs ==
  ASSUME Called, calls # <<>>
  PROVE  /\ Top \in SoundFrames /\ Top \in FrameType /\ Top.level \in {0, 1}
         /\ Depth \in {1, 2} /\ Top.level = Depth - 1
         /\ \A f, h \in SoundFrames : calls = <<f, h>> =>
              Top = f /\ h.level = 0 /\ ctx[0].nested /\ Depth = 2
<1>1. CASE \E f \in SoundFrames : calls = <<f>> /\ f.level = 0
  <2>1. PICK f \in SoundFrames : calls = <<f>> /\ f.level = 0
    BY <1>1
  <2>2. Top = f /\ Depth = 1
    BY <2>1 DEF Top, Depth
  <2>3. f \in FrameType
    BY DEF SoundFrames
  <2>4. QED
    BY <2>1, <2>2, <2>3
<1>2. CASE \E f, h \in SoundFrames : calls = <<f, h>> /\ f.level = 1 /\ h.level = 0 /\ ctx[0].nested
  <2>1. PICK f \in SoundFrames, h \in SoundFrames :
          calls = <<f, h>> /\ f.level = 1 /\ h.level = 0 /\ ctx[0].nested
    BY <1>2
  <2>2. Top = f /\ Depth = 2
    BY <2>1 DEF Top, Depth
  <2>3. f \in FrameType
    BY DEF SoundFrames
  <2>4. \A p, q \in SoundFrames : calls = <<p, q>> => p = f /\ q = h
    BY <2>1
  <2>5. QED
    BY <2>1, <2>2, <2>3, <2>4
<1>3. QED
  BY <1>1, <1>2 DEF Called

\* An arena nobody is using may change, and the tables when no child is at work.
Undisturbed ==
  /\ kind' = kind /\ holds' \in [Levels -> {"nothing", "bins", "walk"}]
  /\ \A l \in {0, 1} :
       l < Depth => heap'[Arena(l)] = heap[Arena(l)] /\ holds'[l] = holds[l]
  /\ Depth = 2 => ctx'[0] = ctx[0]

LEMMA FramesKept ==
  ASSUME Undisturbed
  PROVE  \A f \in SoundFrames, g \in FrameType :
           /\ f.level \in {0, 1} /\ f.level < Depth /\ Depth \in {1, 2}
           /\ g.level = f.level /\ g.n = f.n /\ g.layout = f.layout
           /\ g.table = f.table /\ g.held = f.held
           => g \in SoundFrames'
<1> SUFFICES ASSUME NEW f \in SoundFrames, NEW g \in FrameType,
                    f.level \in {0, 1}, f.level < Depth, Depth \in {1, 2},
                    g.level = f.level, g.n = f.n, g.layout = f.layout,
                    g.table = f.table, g.held = f.held
             PROVE  g \in SoundFrames'
  OBVIOUS
<1>1. kind' = kind /\ heap'[Arena(f.level)] = heap[Arena(f.level)]
      /\ holds'[f.level] = holds[f.level]
  BY DEF Undisturbed
<1>2. f.level = 1 => ctx'[0].table = ctx[0].table /\ ctx'[0].snph = ctx[0].snph
  <2>1. f.level = 1 => Depth = 2
    OBVIOUS
  <2>2. QED
    BY <2>1 DEF Undisturbed
<1>3. QED
  BY <1>1, <1>2, FrameKept

\* The innermost call notes something and goes on.
LEMMA TopNotes ==
  ASSUME Called, calls # <<>>, Undisturbed, NEW g \in FrameType, calls' = <<g>> \o Tail(calls),
         g.level = Top.level, g.n = Top.n, g.layout = Top.layout, g.table = Top.table,
         g.held = Top.held
  PROVE  Called'
<1>1. /\ Top \in SoundFrames /\ Top.level \in {0, 1} /\ Depth \in {1, 2}
      /\ Top.level < Depth
  BY TopIs
<1>2. g \in SoundFrames'
  BY <1>1, FramesKept
<1>3. \A f, h \in SoundFrames : calls = <<f, h>> => h \in SoundFrames' /\ ctx'[0].nested
  <2>1. SUFFICES ASSUME NEW f \in SoundFrames, NEW h \in SoundFrames, calls = <<f, h>>
                 PROVE  h \in SoundFrames' /\ ctx'[0].nested
    OBVIOUS
  <2>2. h.level = 0 /\ ctx[0].nested /\ Depth = 2 /\ h \in FrameType
    BY <2>1, TopIs DEF SoundFrames
  <2>3. h \in SoundFrames'
    BY <2>2, FramesKept
  <2>4. QED
    BY <2>2, <2>3 DEF Undisturbed
<1>4. holds' \in [Levels -> {"nothing", "bins", "walk"}]
  BY DEF Undisturbed, Called
<1>5. QED
  BY <1>2, <1>3, <1>4, CallsReplaced

\* A region given up: at most a bitmap is zeroed.
LEMMA GivenUp ==
  ASSUME Called, calls # <<>>, Undisturbed, GiveUp
  PROVE  Called' /\ Regioned'
<1>1. Regioned'
  BY SizesAssumption, Sizes DEF GiveUp, Regioned, NoRegion, RegionType
<1> DEFINE g == [Top EXCEPT !.zeroed = @ \/ kind = "decoder"]
<1>2. Top \in FrameType
  BY TopIs
<1>3. /\ g \in FrameType /\ g.level = Top.level /\ g.n = Top.n /\ g.layout = Top.layout
      /\ g.table = Top.table /\ g.held = Top.held
  BY <1>2 DEF FrameType
<1>4. calls' = <<g>> \o Tail(calls)
  BY DEF GiveUp
<1> HIDE DEF g
<1>5. QED
  BY <1>1, <1>3, <1>4, TopNotes

\* One call of two levels is over: what it worked on stays.
LEMMA Returns ==
  ASSUME Called, calls # <<>>, Undisturbed, NEW st, NEW good \in BOOLEAN, Return(st, good)
  PROVE  Called' /\ Regioned'
<1>1. \A f, h \in SoundFrames, g \in FrameType :
        /\ calls = <<f, h>> /\ g.level = h.level /\ g.n = h.n
        /\ g.layout = h.layout /\ g.table = h.table /\ g.held = h.held
        => g \in SoundFrames'
  <2>1. SUFFICES ASSUME NEW f \in SoundFrames, NEW h \in SoundFrames, NEW g \in FrameType,
                        calls = <<f, h>>, g.level = h.level, g.n = h.n,
                        g.layout = h.layout, g.table = h.table, g.held = h.held
                 PROVE  g \in SoundFrames'
    OBVIOUS
  <2>2. h.level = 0 /\ Depth = 2
    BY <2>1, TopIs
  <2>3. QED
    BY <2>1, <2>2, FramesKept
<1>2. holds' \in [Levels -> {"nothing", "bins", "walk"}]
  BY DEF Undisturbed, Called
<1>3. QED
  BY <1>1, <1>2, CallsReturn

\* The status of the caller's call.
LEMMA ReturnsStatus ==
  ASSUME Returned, Called, calls # <<>>, NEW st \in {"ok", "null"}, NEW good, Return(st, good)
  PROVE  Returned'
<1>1. Top.zeroed \in BOOLEAN
  BY TopIs DEF FrameType
<1>2. QED
  BY <1>1 DEF Returned, Return

-----------------------------------------------------------------------------
(* The contexts. *)

\* What a context owns is told by three of its fields, and by what the caller holds.
LEMMA OwnedKept ==
  ASSUME NEW l \in Levels, kind' = kind,
         ctx'[l].live = ctx[l].live, ctx'[l].nested = ctx[l].nested, ctx'[l].snph = ctx[l].snph
  PROVE  Owned(l)' = Owned(l)
BY DEF Owned, NestedParts, NestedExtras

\* Nothing happens to the contexts.
LEMMA ContextedKept ==
  ASSUME Contexted, UNCHANGED <<kind, small, ctx, heap>>, calls # <<>> \/ calls' = <<>>
  PROVE  Contexted'
<1>1. Owned(0)' = Owned(0) /\ Owned(1)' = Owned(1)
  BY OwnedKept DEF Levels
<1>2. CtxShape' /\ RecordsTrue' /\ ArenasTrue(0)' /\ ArenasTrue(1)'
  BY DEF Contexted, CtxShape, RecordsTrue, ArenasTrue
<1>3. QED
  BY <1>1, <1>2 DEF Contexted

\* A call is only ever in progress in a context that is there.
LEMMA CallInContext ==
  ASSUME Contexted, calls # <<>>
  PROVE  kind \in {"encoder", "decoder"} /\ ctx[0].live /\ ~ctx[0].isChild
BY DEF Contexted, CtxShape

\* dnPH's table set or spoiled: nothing owned has changed.
LEMMA TableSet ==
  ASSUME Contexted, calls # <<>>, NEW v \in Layouts \cup {"none"},
         ctx' = [ctx EXCEPT ![0].table = v], UNCHANGED <<kind, small, heap>>
  PROVE  Contexted'
<1>1. ctx \in [Levels -> ContextType] /\ 0 \in Levels /\ 1 \in Levels /\ 2 \in Levels
  BY DEF Contexted, Levels
<1>2. /\ ctx'[1] = ctx[1] /\ ctx'[2] = ctx[2] /\ ctx'[0] = [ctx[0] EXCEPT !.table = v]
  BY <1>1
<1>3. /\ ctx[0] \in ContextType /\ ctx'[0] \in ContextType
      /\ ctx'[0].live = ctx[0].live /\ ctx'[0].nested = ctx[0].nested
      /\ ctx'[0].snph = ctx[0].snph /\ ctx'[0].encCap = ctx[0].encCap
      /\ ctx'[0].decCap = ctx[0].decCap /\ ctx'[0].isChild = ctx[0].isChild
  BY <1>1, <1>2, ZenonT(40) DEF ContextType
<1>4. ctx' \in [Levels -> ContextType]
  <2>1. ctx' = [l \in Levels |-> IF l = 0 THEN ctx'[0] ELSE ctx[l]]
    BY <1>1, <1>2
  <2>2. QED
    BY <1>1, <1>3, <2>1
<1>5. Owned(0)' = Owned(0) /\ Owned(1)' = Owned(1)
  BY <1>1, <1>2, <1>3, OwnedKept
<1>6. CtxShape'
  BY <1>2, <1>3, CallInContext DEF Contexted, CtxShape
<1>7. RecordsTrue' /\ ArenasTrue(0)' /\ ArenasTrue(1)'
  BY <1>2, <1>3 DEF Contexted, RecordsTrue, ArenasTrue
<1>8. QED
  BY <1>4, <1>5, <1>6, <1>7 DEF Contexted

\* The innermost call's context, and the arena it is to have.
LEMMA LevelIs ==
  ASSUME Contexted, Called, calls # <<>>
  PROVE  /\ kind \in {"encoder", "decoder"} /\ Top.level \in Levels
         /\ ctx[Top.level] \in ContextType /\ ctx[Top.level].live
         /\ Cap(Top.level) \in Nat /\ heap[Arena(Top.level)] = Cap(Top.level)
<1>1. Top.level \in {0, 1} /\ kind \in {"encoder", "decoder"} /\ ctx[0].live
  BY TopIs, CallInContext
<1>2. ctx[0] \in ContextType /\ ctx[1] \in ContextType /\ 0 \in Levels /\ 1 \in Levels
  BY DEF Contexted, Levels
<1>3. Top.level = 1 => ctx[1].live
  <2>1. Top.level = 1 => ctx[0].nested
    <3>1. CASE \E f \in SoundFrames : calls = <<f>> /\ f.level = 0
      BY <3>1 DEF Top
    <3>2. CASE \E f, h \in SoundFrames :
                 calls = <<f, h>> /\ f.level = 1 /\ h.level = 0 /\ ctx[0].nested
      BY <3>2
    <3>3. QED
      BY <3>1, <3>2 DEF Called
  <2>2. QED
    BY <2>1 DEF Contexted, CtxShape
<1>4. CASE Top.level = 0
  <2>1. Cap(0) \in Nat /\ heap[Arena(0)] = Cap(0)
    BY <1>1, <1>2 DEF Contexted, ArenasTrue, Cap, Arena, ContextType
  <2>2. QED
    BY <1>1, <1>2, <1>4, <2>1
<1>5. CASE Top.level = 1
  <2>1. Cap(1) \in Nat /\ heap[Arena(1)] = Cap(1)
    BY <1>1, <1>2, <1>3, <1>5 DEF Contexted, ArenasTrue, Cap, Arena, ContextType
  <2>2. QED
    BY <1>1, <1>2, <1>3, <1>5, <2>1
<1>6. QED
  BY <1>1, <1>4, <1>5

\* The innermost call gets its arena.
LEMMA TopEnsured ==
  ASSUME Contexted, Called, calls # <<>>, NEW c \in Nat, EnsureHeld(c), Need(Top.n) <= c,
         heap'[Arena(Top.level)] = c,
         \A l \in {0, 1} : l # Top.level => heap'[Arena(l)] = heap[Arena(l)],
         ctx'[0].table = ctx[0].table, ctx'[0].snph = ctx[0].snph,
         ctx'[0].nested = ctx[0].nested
  PROVE  Called'
<1>0. PICK t \in SoundFrames : t = Top
  BY TopIs
<1>1. t \in FrameType /\ t.level \in {0, 1} /\ t.level \in Levels
  BY <1>0, TopIs DEF Levels
<1>2. PICK g \in FrameType :
        /\ g.held = c /\ g.level = t.level /\ g.n = t.n /\ g.layout = t.layout
        /\ g.table = t.table /\ calls' = <<g>> \o Tail(calls)
  <2> DEFINE g == [t EXCEPT !.held = c]
  <2>1. /\ g \in FrameType /\ g.held = c /\ g.level = t.level /\ g.n = t.n
        /\ g.layout = t.layout /\ g.table = t.table
    BY <1>1 DEF FrameType
  <2>2. calls' = <<g>> \o Tail(calls)
    BY <1>0 DEF EnsureHeld
  <2> HIDE DEF g
  <2>3. QED
    BY <2>1, <2>2
<1>4. /\ kind' = kind /\ holds \in [Levels -> {"nothing", "bins", "walk"}]
      /\ holds' = [holds EXCEPT ![t.level] = "walk"]
  BY <1>0 DEF EnsureHeld, Called
<1>5. holds' \in [Levels -> {"nothing", "bins", "walk"}] /\ holds'[t.level] = "walk"
      /\ \A l \in Levels : l # t.level => holds'[l] = holds[l]
  BY <1>1, <1>4
<1>6. g \in SoundFrames'
  <2>1. Need(g.n)' = Need(t.n) /\ Arena(g.level)' = Arena(t.level)
    BY <1>2, <1>4 DEF Need, Arena
  <2>2. Need(g.n)' <= g.held /\ heap'[Arena(g.level)'] = g.held /\ holds'[g.level] = "walk"
    BY <1>0, <1>2, <1>5, <2>1
  <2>3. g.level > 0 => IF g.table = 0 THEN ctx'[g.level - 1].table = g.layout
                       ELSE /\ ctx'[g.level - 1].snph[g.table] # <<>>
                            /\ ctx'[g.level - 1].snph[g.table][1] = g.layout
    <3>1. CASE t.level = 0
      BY <1>2, <3>1
    <3>2. CASE t.level = 1
      <4>1. g.level - 1 = 0 /\ t.level - 1 = 0
        BY <1>2, <3>2
      <4>2. QED
        BY <1>1, <1>2, <3>2, <4>1 DEF SoundFrames
    <3>3. QED
      BY <1>1, <3>1, <3>2
  <2>4. QED
    BY <1>2, <2>2, <2>3 DEF SoundFrames, Need, Arena
<1>7. \A f, h \in SoundFrames : calls = <<f, h>> => h \in SoundFrames' /\ ctx'[0].nested
  <2>1. SUFFICES ASSUME NEW f \in SoundFrames, NEW h \in SoundFrames, calls = <<f, h>>
                 PROVE  h \in SoundFrames' /\ ctx'[0].nested
    OBVIOUS
  <2>2. h.level = 0 /\ ctx[0].nested /\ Top.level = 1 /\ h \in FrameType /\ 0 \in Levels /\ t.level = 1
    BY <1>0, <2>1, TopIs DEF SoundFrames, Levels
  <2>3. heap'[Arena(0)] = heap[Arena(0)] /\ holds'[0] = holds[0]
    BY <1>5, <2>2
  <2>4. h \in SoundFrames'
    BY <1>4, <2>2, <2>3, FrameKept
  <2>5. QED
    BY <2>2, <2>4
<1>8. QED
  BY <1>0, <1>2, <1>5, <1>6, <1>7, CallsReplaced

\* An arena grown: the block and its record, and nothing else.
LEMMA ArenaGrown ==
  ASSUME Contexted, Called, calls # <<>>, NEW l \in {0, 1}, l = Top.level, NEW d \in Nat,
         d > Cap(l), heap' = [heap EXCEPT ![Arena(l)] = d],
         ctx' = [ctx EXCEPT ![l] = WithCap(@, d)], UNCHANGED <<kind, small>>
  PROVE  /\ Contexted' /\ heap'[Arena(l)] = d
         /\ \A k \in {0, 1} : k # l => heap'[Arena(k)] = heap[Arena(k)]
         /\ ctx'[0].table = ctx[0].table /\ ctx'[0].snph = ctx[0].snph
         /\ ctx'[0].nested = ctx[0].nested
<1>1. /\ kind \in {"encoder", "decoder"} /\ ctx[l] \in ContextType /\ ctx[l].live
      /\ Cap(l) \in Nat /\ heap[Arena(l)] = Cap(l)
  BY LevelIs
<1>2. ctx \in [Levels -> ContextType] /\ Levels = {0, 1, 2}
  BY DEF Contexted, Levels
<1>3. \A x \in DOMAIN heap : heap'[x] = IF x = Arena(l) THEN d ELSE heap[x]
  OBVIOUS
<1>4. DOMAIN heap' = DOMAIN heap
  OBVIOUS
<1>5. Arena(l) \in DOMAIN heap
  <2>1. Arena(l) \in Owned(l)
    BY <1>1 DEF Owned, Arena, ScratchParts
  <2>2. QED
    BY <2>1 DEF Contexted
<1>6. /\ ctx'[l] = WithCap(ctx[l], d) /\ \A k \in Levels : k # l => ctx'[k] = ctx[k]
      /\ DOMAIN ctx' = Levels
  BY <1>2
<1>7. /\ ctx'[l] \in ContextType /\ ctx'[l].live = ctx[l].live
      /\ ctx'[l].nested = ctx[l].nested /\ ctx'[l].snph = ctx[l].snph
      /\ ctx'[l].table = ctx[l].table /\ ctx'[l].isChild = ctx[l].isChild
      /\ ctx'[l].encCap = (IF kind = "encoder" THEN d ELSE ctx[l].encCap)
      /\ ctx'[l].decCap = (IF kind = "encoder" THEN ctx[l].decCap ELSE d)
  <2>1. CASE kind = "encoder"
    <3>1. ctx'[l] = [ctx[l] EXCEPT !.encCap = d]
      BY <1>6, <2>1 DEF WithCap
    <3>2. PICK c \in ContextType : c = ctx[l]
      BY <1>1
    <3>3. PICK r : r = [c EXCEPT !.encCap = d]
      OBVIOUS
    <3>4. r \in ContextType
      BY <3>3 DEF ContextType
    <3>5. /\ r.live = c.live /\ r.nested = c.nested /\ r.snph = c.snph /\ r.table = c.table
          /\ r.isChild = c.isChild /\ r.encCap = d /\ r.decCap = c.decCap
      BY <3>3 DEF ContextType
    <3>6. ctx'[l] = r
      BY <3>1, <3>2, <3>3
    <3>7. QED
      BY <2>1, <3>2, <3>4, <3>5, <3>6
  <2>2. CASE kind = "decoder"
    <3>1. ctx'[l] = [ctx[l] EXCEPT !.decCap = d]
      BY <1>6, <2>2 DEF WithCap
    <3>2. PICK c \in ContextType : c = ctx[l]
      BY <1>1
    <3>3. PICK r : r = [c EXCEPT !.decCap = d]
      OBVIOUS
    <3>4. r \in ContextType
      BY <3>3 DEF ContextType
    <3>5. /\ r.live = c.live /\ r.nested = c.nested /\ r.snph = c.snph /\ r.table = c.table
          /\ r.isChild = c.isChild /\ r.decCap = d /\ r.encCap = c.encCap
      BY <3>3 DEF ContextType
    <3>6. ctx'[l] = r
      BY <3>1, <3>2, <3>3
    <3>7. QED
      BY <2>2, <3>2, <3>4, <3>5, <3>6
  <2>3. QED
    BY <1>1, <2>1, <2>2
<1>8. ctx' \in [Levels -> ContextType]
  <2>1. ctx' = [k \in Levels |-> ctx'[k]]
    BY <1>6
  <2>2. \A k \in Levels : ctx'[k] \in ContextType
    BY <1>2, <1>6, <1>7
  <2>3. QED
    BY <2>1, <2>2
<1>9. \A k \in {0, 1} : Owned(k)' = Owned(k)
  <2>1. SUFFICES ASSUME NEW k \in {0, 1} PROVE Owned(k)' = Owned(k)
    OBVIOUS
  <2>2. ctx'[k].live = ctx[k].live /\ ctx'[k].nested = ctx[k].nested /\ ctx'[k].snph = ctx[k].snph
    BY <1>2, <1>6, <1>7
  <2>3. QED
    BY <1>2, <2>2, OwnedKept
<1>10. CtxShape'
  <2>1. CASE l = 0
    <3>1. ctx'[1] = ctx[1] /\ ctx'[2] = ctx[2] /\ kind' = kind /\ kind # "none"
      BY <1>1, <1>2, <1>6, <2>1
    <3>2. ctx'[0].live = ctx[0].live /\ ctx'[0].nested = ctx[0].nested
          /\ ctx'[0].isChild = ctx[0].isChild
      BY <1>7, <2>1
    <3>3. QED
      BY <3>1, <3>2 DEF Contexted, CtxShape
  <2>2. CASE l = 1
    <3>1. ctx[1] # NoContext
      BY <1>1, <2>2 DEF NoContext
    <3>2. QED
      <4>1. ctx'[0] = ctx[0] /\ ctx'[2] = ctx[2] /\ kind' = kind /\ kind # "none"
        BY <1>1, <1>2, <1>6, <2>2
      <4>2. ctx'[1].live = ctx[1].live /\ ctx'[1].nested = ctx[1].nested
            /\ ctx'[1].isChild = ctx[1].isChild
        BY <1>7, <2>2
      <4>3. QED
        BY <3>1, <4>1, <4>2 DEF Contexted, CtxShape
  <2>3. QED
    BY <2>1, <2>2
<1>11. RecordsTrue'
  BY <1>2, <1>6, <1>7 DEF Contexted, RecordsTrue
<1>12. ArenasTrue(l)'
  <2>1. /\ heap[Block(l, "enc")] = ctx[l].encCap /\ heap[Block(l, "dec")] = ctx[l].decCap
        /\ HistScratch <= ctx[l].encCap /\ ctx[l].encCap \in Nat
    BY <1>1 DEF Contexted, ArenasTrue, ContextType
  <2>2. Block(l, "enc") \in DOMAIN heap /\ Block(l, "dec") \in DOMAIN heap
        /\ Block(l, "enc") # Block(l, "dec")
    <3>1. Block(l, "enc") \in Owned(l) /\ Block(l, "dec") \in Owned(l)
      BY <1>1 DEF Owned, ScratchParts
    <3>2. QED
      BY <3>1 DEF Contexted, Block
  <2>3. CASE kind = "encoder"
    <3>1. Arena(l) = Block(l, "enc") /\ Cap(l) = ctx[l].encCap
      BY <2>3 DEF Arena, Cap
    <3>2. heap'[Block(l, "enc")] = d /\ heap'[Block(l, "dec")] = heap[Block(l, "dec")]
      BY <1>3, <2>2, <3>1
    <3>3. HistScratch <= d
      BY <2>1, <3>1, SizesAssumption
    <3>4. QED
      BY <1>7, <2>1, <2>3, <3>2, <3>3 DEF ArenasTrue, Block
  <2>4. CASE kind = "decoder"
    <3>1. Arena(l) = Block(l, "dec") /\ Cap(l) = ctx[l].decCap
      BY <2>4 DEF Arena, Cap
    <3>2. heap'[Block(l, "dec")] = d /\ heap'[Block(l, "enc")] = heap[Block(l, "enc")]
      BY <1>3, <2>2, <3>1
    <3>3. QED
      BY <1>7, <2>1, <2>4, <3>2 DEF ArenasTrue, Block
  <2>5. QED
    BY <1>1, <2>3, <2>4
<1>13. \A k \in {0, 1} : k # l => ArenasTrue(k)' /\ heap'[Arena(k)] = heap[Arena(k)]
  <2>1. SUFFICES ASSUME NEW k \in {0, 1}, k # l
                 PROVE  ArenasTrue(k)' /\ heap'[Arena(k)] = heap[Arena(k)]
    OBVIOUS
  <2>2. \A p : Block(k, p) # Arena(l)
    BY <2>1 DEF Block, Arena
  <2>3. \A p : heap'[Block(k, p)] = heap[Block(k, p)]
    BY <2>2
  <2>4. ctx'[k] = ctx[k]
    BY <1>2, <1>6, <2>1
  <2>5. ArenasTrue(k)'
    BY <2>3, <2>4 DEF Contexted, ArenasTrue
  <2>6. QED
    BY <2>3, <2>5 DEF Arena
<1>14. /\ ctx'[0].table = ctx[0].table /\ ctx'[0].snph = ctx[0].snph
       /\ ctx'[0].nested = ctx[0].nested
  BY <1>2, <1>6, <1>7
<1>15. DOMAIN heap' = Owned(0)' \cup Owned(1)'
  BY <1>4, <1>9 DEF Contexted
<1>16. ArenasTrue(0)' /\ ArenasTrue(1)'
  BY <1>12, <1>13
<1>17. QED
  BY <1>3, <1>5, <1>8, <1>10, <1>11, <1>13, <1>14, <1>15, <1>16 DEF Contexted

\* A new context.
LEMMA FreshIs ==
  ASSUME NEW n, StartEncCap(n) \in Nat, StartDecCap(n) \in Nat, NEW child \in BOOLEAN
  PROVE  LET c == FreshContext(n, child) IN
         /\ c \in ContextType /\ c.live /\ c.isChild = child /\ ~c.nested
         /\ c.encCap = StartEncCap(n) /\ c.decCap = StartDecCap(n)
         /\ \A t \in Tables : c.snph[t] = <<>>
<1>1. PICK a \in Nat, b \in Nat : a = StartEncCap(n) /\ b = StartDecCap(n)
  OBVIOUS
<1>2. PICK c : c = FreshContext(n, child)
  OBVIOUS
<1>3. c = [live |-> TRUE, encCap |-> a, decCap |-> b, isChild |-> child, nested |-> FALSE,
           table |-> "none", snph |-> [t \in Tables |-> <<>>]]
  BY <1>1, <1>2 DEF FreshContext, NoContext
<1>4. /\ c \in ContextType /\ c.live /\ c.isChild = child /\ ~c.nested
      /\ c.encCap = a /\ c.decCap = b /\ \A t \in Tables : c.snph[t] = <<>>
  BY <1>3 DEF ContextType
<1>5. QED
  BY <1>1, <1>2, <1>4

\* Freeing a level frees all that it and the levels below it can own.
LEMMA FreedIs ==
  ASSUME NEW l \in Levels, NEW k \in Levels, k >= l
  PROVE  /\ \A p \in {"handle", "scratch", "enc", "dec", "nested", "out", "flipped"} :
              Block(k, p) \in Freed(l)
         /\ \A t \in Tables : TableOf(k, t) \in Freed(l)
         /\ Owned(k) \subseteq Freed(l)
<1>1. \A p \in {"handle", "scratch", "enc", "dec", "nested", "out", "flipped"} :
        Block(k, p) \in Freed(l)
  BY DEF Freed
<1>2. \A t \in Tables : TableOf(k, t) \in Freed(l)
  BY DEF Freed
<1>3. Owned(k) \subseteq Freed(l)
  BY <1>1, <1>2 DEF Owned, ScratchParts, NestedParts, NestedExtras
<1>4. QED
  BY <1>1, <1>2, <1>3

\* A static table built, replaced or dropped, with its memory.
LEMMA SnphSet ==
  ASSUME Contexted, calls # <<>>, NEW t \in Tables,
         NEW v \in {<<>>} \cup (Layouts \X Layouts), v # <<>> => v[1] = v[2],
         ctx' = [ctx EXCEPT ![0].snph[t] = v], UNCHANGED <<kind, small>>,
         DOMAIN heap' = IF v = <<>> THEN DOMAIN heap \ {TableOf(0, t)}
                        ELSE DOMAIN heap \cup {TableOf(0, t)},
         \A x \in DOMAIN heap \ {TableOf(0, t)} : heap'[x] = heap[x]
  PROVE  /\ Contexted' /\ \A l \in {0, 1} : ctx[l].live => heap'[Arena(l)] = heap[Arena(l)]
         /\ ctx'[0].snph[t] = v /\ ctx'[0].nested = ctx[0].nested
<1>1. ctx \in [Levels -> ContextType] /\ 0 \in Levels /\ 1 \in Levels /\ 2 \in Levels
      /\ kind # "none"
  BY CallInContext DEF Contexted, Levels
<1>2. PICK c \in ContextType : c = ctx[0]
  BY <1>1
<1>3. PICK r : r = [c EXCEPT !.snph[t] = v]
  OBVIOUS
<1>4. /\ r.live = c.live /\ r.nested = c.nested /\ r.encCap = c.encCap /\ r.decCap = c.decCap
      /\ r.isChild = c.isChild /\ r.snph[t] = v /\ \A u \in Tables \ {t} : r.snph[u] = c.snph[u]
  BY <1>3 DEF ContextType
<1>5. r \in ContextType
  <2>1. c.snph \in [Tables -> {<<>>} \cup (Layouts \X Layouts)]
    BY DEF ContextType
  <2>2. [c.snph EXCEPT ![t] = v] \in [Tables -> {<<>>} \cup (Layouts \X Layouts)]
    BY <2>1
  <2>3. r = [c EXCEPT !.snph = [c.snph EXCEPT ![t] = v]]
    BY <1>3
  <2>4. QED
    BY <2>2, <2>3 DEF ContextType
<1>6. /\ ctx'[1] = ctx[1] /\ ctx'[2] = ctx[2] /\ ctx'[0] = r
  BY <1>1, <1>2, <1>3
<1>7. ctx' \in [Levels -> ContextType]
  <2>1. ctx' = [l \in Levels |-> IF l = 0 THEN r ELSE ctx[l]]
    BY <1>1, <1>6
  <2>2. QED
    BY <1>1, <1>5, <2>1
<1>8. CtxShape' /\ RecordsTrue'
  <2>1. CtxShape'
    BY <1>1, <1>2, <1>4, <1>6 DEF Contexted, CtxShape
  <2>2. \A u \in Tables : r.snph[u] # <<>> => r.snph[u][1] = r.snph[u][2]
    <3>1. \A u \in Tables : c.snph[u] # <<>> => c.snph[u][1] = c.snph[u][2]
      BY <1>2 DEF Contexted, RecordsTrue
    <3>2. QED
      BY <1>4, <3>1
  <2>3. QED
    BY <1>6, <2>1, <2>2 DEF RecordsTrue
<1>9. \A l, p : Block(l, p) # TableOf(0, t) \/ p = "snph"
  BY DEF Block, TableOf
<1>10. /\ Owned(1)' = Owned(1) /\ TableOf(0, t) \notin Owned(1)
       /\ Owned(0)' = IF v = <<>> THEN Owned(0) \ {TableOf(0, t)}
                      ELSE Owned(0) \cup {TableOf(0, t)}
  <2>1. Owned(1)' = Owned(1)
    BY <1>1, <1>6, OwnedKept
  <2>2. TableOf(0, t) \notin Owned(1)
    BY <1>9 DEF Owned, ScratchParts, NestedParts, NestedExtras, TableOf, Block
  <2> DEFINE rest == ScratchParts(0) \cup {Block(0, "handle")}
                       \cup (IF ctx[0].nested THEN NestedParts(0) ELSE {})
             had == {u \in Tables : c.snph[u] # <<>>}
             has == {u \in Tables : r.snph[u] # <<>>}
  <2>3. c.live
    BY <1>2, CallInContext
  <2>4. /\ Owned(0) = rest \cup {TableOf(0, u) : u \in had}
        /\ Owned(0)' = rest \cup {TableOf(0, u) : u \in has}
    <3>1. ctx[0].live /\ ctx'[0].live
      BY <1>2, <1>4, <1>6, <2>3
    <3>2. Owned(0) = rest \cup {TableOf(0, u) : u \in had}
      BY <1>2, <3>1 DEF Owned
    <3>3. NestedParts(0)' = NestedParts(0) /\ ctx'[0].nested = ctx[0].nested
      BY <1>2, <1>4, <1>6 DEF NestedParts, NestedExtras
    <3>4. Owned(0)' = rest \cup {TableOf(0, u) : u \in has}
      BY <1>6, <3>1, <3>3 DEF Owned, NestedParts, NestedExtras
    <3>5. QED
      BY <3>2, <3>4
  <2>5. TableOf(0, t) \notin rest
    BY <1>9 DEF ScratchParts, NestedParts, NestedExtras
  <2>6. has = IF v = <<>> THEN had \ {t} ELSE had \cup {t}
    BY <1>4
  <2>7. \A u, w : TableOf(0, u) = TableOf(0, w) => u = w
    BY DEF TableOf
  <2> HIDE DEF rest, had, has
  <2>8. CASE v = <<>>
    <3>1. {TableOf(0, u) : u \in has} = {TableOf(0, u) : u \in had} \ {TableOf(0, t)}
      BY <2>6, <2>7, <2>8
    <3>2. QED
      BY <2>1, <2>2, <2>4, <2>5, <2>8, <3>1
  <2>9. CASE v # <<>>
    <3>1. {TableOf(0, u) : u \in has} = {TableOf(0, u) : u \in had} \cup {TableOf(0, t)}
      BY <2>6, <2>9
    <3>2. QED
      BY <2>1, <2>2, <2>4, <2>9, <3>1
  <2>10. QED
    BY <2>8, <2>9
<1>11. DOMAIN heap' = Owned(0)' \cup Owned(1)'
  <2>1. DOMAIN heap = Owned(0) \cup Owned(1)
    BY DEF Contexted
  <2>2. QED
    BY <1>10, <2>1
<1>12. \A l \in {0, 1} : ctx[l].live =>
          /\ heap'[Block(l, "enc")] = heap[Block(l, "enc")]
          /\ heap'[Block(l, "dec")] = heap[Block(l, "dec")]
  <2>1. SUFFICES ASSUME NEW l \in {0, 1}, ctx[l].live
                 PROVE  /\ heap'[Block(l, "enc")] = heap[Block(l, "enc")]
                        /\ heap'[Block(l, "dec")] = heap[Block(l, "dec")]
    OBVIOUS
  <2>2. Block(l, "enc") \in Owned(l) /\ Block(l, "dec") \in Owned(l)
    BY <2>1 DEF Owned, ScratchParts
  <2>3. Block(l, "enc") \in DOMAIN heap /\ Block(l, "dec") \in DOMAIN heap
    BY <2>1, <2>2 DEF Contexted
  <2>4. Block(l, "enc") # TableOf(0, t) /\ Block(l, "dec") # TableOf(0, t)
    BY <1>9
  <2>5. QED
    BY <2>3, <2>4
<1>13. ArenasTrue(0)'
  BY <1>2, <1>4, <1>6, <1>12 DEF Contexted, ArenasTrue
<1>14. ArenasTrue(1)'
  BY <1>6, <1>12 DEF Contexted, ArenasTrue
<1>15. QED
  BY <1>2, <1>4, <1>6, <1>7, <1>8, <1>11, <1>12, <1>13, <1>14 DEF Contexted, Arena

\* The child's call above the caller's.
LEMMA Descended ==
  ASSUME Called, Regioned, calls # <<>>, region.stage = "table", Undisturbed, Descend,
         ctx'[0].nested = ctx[0].nested,
         IF region.t = 0 THEN ctx'[0].table = Top.layout
         ELSE ctx'[0].snph[region.t] # <<>> /\ ctx'[0].snph[region.t][1] = Top.layout
  PROVE  Called' /\ Regioned'
<1>1. Regioned'
  BY SizesAssumption, Sizes DEF Descend, Regioned, NoRegion, RegionType
<1>2. Depth = 1 /\ ctx[0].nested /\ region.t \in Tables \cup {0} /\ region.bytes \in 1 .. NphMaxN
  BY DEF Regioned, RegionType, Depth
<1>3. PICK f \in SoundFrames : calls = <<f>> /\ f.level = 0
  <2>1. \A f, h \in SoundFrames : calls # <<f, h>>
    BY <1>2, TopIs
  <2>2. QED
    BY <2>1 DEF Called
<1>4. f \in FrameType /\ Top = f
  BY <1>3 DEF SoundFrames, Top
<1>5. f \in SoundFrames'
  BY <1>2, <1>3, <1>4, FramesKept
<1>6. PICK b \in 1 .. NphMaxN, t \in Tables \cup {0} : b = region.bytes /\ t = region.t
  BY <1>2
<1>7. PICK g : g = Frame(1, b, f.layout, t, FALSE)
  OBVIOUS
<1>8. /\ g \in FrameType /\ g.level = 1 /\ g.held = 0 /\ g.table = t /\ g.layout = f.layout
  <2>1. b \in 1 .. WireMaxN
    BY Sizes, SizesAssumption
  <2>2. f.layout \in Layouts
    BY <1>4 DEF FrameType
  <2>3. QED
    BY <1>7, <2>1, <2>2, TablesAssumption DEF Frame, FrameType, Levels
<1>9. calls' = <<g, f>>
  <2>1. calls' = <<Frame(f.level + 1, b, f.layout, t, FALSE)>> \o <<f>>
    BY <1>3, <1>4, <1>6 DEF Descend
  <2>2. f.level + 1 = 1
    BY <1>3
  <2>3. calls' = <<g>> \o <<f>>
    BY <1>7, <2>1, <2>2
  <2>4. QED
    BY <2>3, PairConcat
<1>10. g \in SoundFrames'
  <2>1. g.level - 1 = 0
    BY <1>8
  <2>2. IF t = 0 THEN ctx'[0].table = g.layout
        ELSE ctx'[0].snph[t] # <<>> /\ ctx'[0].snph[t][1] = g.layout
    BY <1>4, <1>6, <1>8
  <2>3. QED
    BY <1>8, <2>1, <2>2 DEF SoundFrames
<1>11. holds' \in [Levels -> {"nothing", "bins", "walk"}] /\ ctx'[0].nested
  BY <1>2 DEF Undisturbed
<1>12. QED
  BY <1>1, <1>3, <1>5, <1>8, <1>9, <1>10, <1>11 DEF Called

\* Nothing at or below a level is above it.
LEMMA FreedBelow ==
  /\ \A p : Block(0, p) \notin Freed(1)
  /\ \A t : TableOf(0, t) \notin Freed(1)
  /\ Base(1) \subseteq Freed(1)
<1>1. ASSUME NEW x \in Freed(1)
      PROVE  \E k \in {1, 2} : \E p, t : x = <<k, p, t>>
  <2>1. PICK k \in {j \in Levels : j >= 1} :
          x \in {Block(k, p) : p \in {"handle", "scratch", "enc", "dec", "nested", "out", "flipped"}}
                \cup {TableOf(k, t) : t \in Tables}
    BY DEF Freed
  <2>2. k \in {1, 2}
    BY DEF Levels
  <2>3. QED
    BY <2>1, <2>2 DEF Block, TableOf
<1>2. \A k \in {1, 2} : \A p, t, q, u : <<k, p, t>> # <<0, q, u>>
  OBVIOUS
<1>3. \A p : Block(0, p) \notin Freed(1)
  BY <1>1, <1>2 DEF Block
<1>4. \A t : TableOf(0, t) \notin Freed(1)
  BY <1>1, <1>2 DEF TableOf
<1>5. Base(1) \subseteq Freed(1)
  BY FreedIs DEF Base, ScratchParts, Levels
<1>6. QED
  BY <1>3, <1>4, <1>5

NestedMade(h, c) ==
  /\ DOMAIN c = DOMAIN h \cup NestedParts(0) \cup Base(1)
  /\ c[Block(1, "enc")] = StartEncCap(NphMaxN) /\ c[Block(1, "dec")] = StartDecCap(NphMaxN)

\* The child is there with all that comes with it, or nothing is.
LEMMA NestedCreates ==
  ASSUME NEW h, NEW fails, NEW c, c = CreateNested(h, 0, fails),
         DOMAIN h \cap (NestedParts(0) \cup Freed(1)) = {}
  PROVE  Keeps(h, c) /\ (NestedMade(h, c) \/ DOMAIN c = DOMAIN h)
<1>1. PICK ne : ne = Block(0, "nested")
  OBVIOUS
<1>2. PICK Ex : Ex = NestedExtras(0)
  OBVIOUS
<1>3. PICK hd : hd = Block(1, "handle")
  OBVIOUS
<1>4. PICK nested : nested = Malloc(h, Struct(ne), fails)
  OBVIOUS
<1>5. PICK cr : cr = CreateAt(nested, 1, NphMaxN, fails)
  OBVIOUS
<1>6. PICK all : all = Malloc(cr, ExtraSizes(0), fails)
  OBVIOUS
<1>7. c = IF ne \notin DOMAIN nested THEN h
          ELSE IF Ex \cup {hd} \subseteq DOMAIN all THEN all
          ELSE FreeAll(all, NestedParts(0) \cup Freed(1))
  <2>1. 0 + 1 = 1
    OBVIOUS
  <2>2. QED
    BY <1>1, <1>2, <1>3, <1>4, <1>5, <1>6, <2>1 DEF CreateNested
<1>8. /\ ne \notin Ex /\ NestedParts(0) = Ex \cup {ne} /\ hd \in Base(1)
      /\ Base(1) \subseteq Freed(1) /\ (Ex \cup {ne}) \cap Freed(1) = {}
      /\ Block(1, "enc") \in Base(1) /\ Block(1, "dec") \in Base(1)
  <2>1. ne \notin Ex
    BY <1>1, <1>2 DEF NestedExtras, Block
  <2>2. NestedParts(0) = Ex \cup {ne}
    BY <1>1, <1>2 DEF NestedParts
  <2>3. (Ex \cup {ne}) \cap Freed(1) = {}
    BY <1>1, <1>2, FreedBelow DEF NestedExtras
  <2>4. QED
    BY <1>3, <2>1, <2>2, <2>3, FreedBelow DEF Base, ScratchParts
<1>9. DOMAIN nested = ({ne} \ fails) \cup DOMAIN h /\ \A x \in DOMAIN h \ {ne} : nested[x] = h[x]
  BY <1>4 DEF Malloc, Struct
<1>10. /\ DOMAIN all = (Ex \ fails) \cup DOMAIN cr
       /\ \A x \in DOMAIN cr \ Ex : all[x] = cr[x]
  BY <1>2, <1>6 DEF Malloc, ExtraSizes
<1>11. DOMAIN h \cap (Ex \cup {ne} \cup Freed(1)) = {}
  BY <1>8
<1>12. CASE ne \notin DOMAIN nested
  BY <1>7, <1>12 DEF Keeps
<1>13. CASE ne \in DOMAIN nested
  <2>1. DOMAIN nested = DOMAIN h \cup {ne} /\ \A x \in DOMAIN h : nested[x] = h[x]
    BY <1>9, <1>11, <1>13
  <2>2. DOMAIN nested \cap Base(1) = {}
    BY <1>8, <1>11, <2>1
  <2>3. Keeps(nested, cr) /\ (Created(nested, 1, NphMaxN, cr) \/ DOMAIN cr = DOMAIN nested)
    BY <1>5, <2>2, Creates
  <2>4. \A x \in DOMAIN h : all[x] = h[x]
    <3>1. SUFFICES ASSUME NEW x \in DOMAIN h PROVE all[x] = h[x]
      OBVIOUS
    <3>2. x \in DOMAIN nested /\ cr[x] = nested[x] /\ nested[x] = h[x]
      BY <2>1, <2>3 DEF Keeps
    <3>3. x \in DOMAIN cr /\ x \notin Ex
      BY <1>11, <2>3, <3>2 DEF Created
    <3>4. QED
      BY <1>10, <3>2, <3>3
  <2>5. CASE Ex \cup {hd} \subseteq DOMAIN all
    <3>1. c = all
      BY <1>7, <1>13, <2>5
    <3>2. hd \in DOMAIN cr /\ hd \notin DOMAIN nested
      BY <1>8, <1>10, <2>2, <2>5
    <3>3. Created(nested, 1, NphMaxN, cr)
      BY <2>3, <3>2
    <3>4. DOMAIN all = DOMAIN h \cup (Ex \cup {ne}) \cup Base(1)
      <4>1. DOMAIN cr = DOMAIN h \cup {ne} \cup Base(1)
        BY <2>1, <3>3 DEF Created
      <4>2. DOMAIN all = Ex \cup DOMAIN cr
        BY <1>10, <2>5
      <4>3. QED
        BY <4>1, <4>2
    <3>5. all[Block(1, "enc")] = StartEncCap(NphMaxN) /\ all[Block(1, "dec")] = StartDecCap(NphMaxN)
      <4>1. Base(1) \subseteq DOMAIN cr \ Ex
        BY <1>8, <3>3 DEF Created
      <4>2. all[Block(1, "enc")] = cr[Block(1, "enc")] /\ all[Block(1, "dec")] = cr[Block(1, "dec")]
        BY <1>8, <1>10, <4>1
      <4>3. QED
        BY <3>3, <4>2 DEF Created
    <3>6. QED
      BY <1>8, <2>4, <3>1, <3>4, <3>5 DEF Keeps, NestedMade
  <2>6. CASE ~(Ex \cup {hd} \subseteq DOMAIN all)
    <3>1. c = FreeAll(all, (Ex \cup {ne}) \cup Freed(1))
      BY <1>7, <1>8, <1>13, <2>6
    <3>2. /\ DOMAIN c = DOMAIN all \ ((Ex \cup {ne}) \cup Freed(1))
          /\ \A x \in DOMAIN c : c[x] = all[x]
      BY <3>1 DEF FreeAll
    <3>3. DOMAIN cr \subseteq DOMAIN nested \cup Base(1) /\ DOMAIN nested \subseteq DOMAIN cr
      BY <2>3 DEF Created
    <3>4. DOMAIN c = DOMAIN h
      BY <1>8, <1>10, <1>11, <2>1, <3>2, <3>3
    <3>5. QED
      BY <2>4, <3>2, <3>4 DEF Keeps
  <2>7. QED
    BY <2>5, <2>6
<1>14. QED
  BY <1>12, <1>13

-----------------------------------------------------------------------------
(* The actions. *)

\* The arena is there and large enough.
LEMMA EnsureKeeps ==
  ASSUME ContextInv, Ensure
  PROVE  ContextInv'
<1> USE DEF ContextInv
<1>1. /\ AtCall /\ calls # <<>> /\ ~MustGrow(Top.level, Top.n)
      /\ UNCHANGED <<kind, small, ctx, heap, region, last>>
      /\ EnsureHeld(Cap(Top.level))
  BY DEF Ensure, EnsureHeld, AtCall
<1>2. Contexted'
  BY <1>1, ContextedKept
<1>3. Regioned' /\ Returned'
  <2>1. region = NoRegion
    BY <1>1 DEF AtCall
  <2>2. QED
    BY <1>1, <2>1, SizesAssumption, Sizes DEF Regioned, Returned, NoRegion, RegionType
<1>4. Called'
  <2>1. Cap(Top.level) \in Nat /\ heap[Arena(Top.level)] = Cap(Top.level)
    BY <1>1, LevelIs
  <2>2. Need(Top.n) <= Cap(Top.level)
    <3>1. Top.n \in 1 .. WireMaxN
      BY <1>1, TopIs DEF FrameType
    <3>2. Need(Top.n) \in Nat
      BY <3>1, Sizes
    <3>3. QED
      BY <1>1, <2>1, <3>2 DEF MustGrow
  <2> DEFINE c == Cap(Top.level)
  <2>3. c \in Nat /\ EnsureHeld(c) /\ Need(Top.n) <= c /\ heap[Arena(Top.level)] = c
    BY <1>1, <2>1, <2>2
  <2> HIDE DEF c
  <2>4. QED
    BY <1>1, <2>3, TopEnsured
<1>5. QED
  BY <1>2, <1>3, <1>4

\* The arena grows, and the call has all of it.
LEMMA EnsureGrowsKeeps ==
  ASSUME ContextInv, EnsureGrows
  PROVE  ContextInv'
<1> USE DEF ContextInv
<1>1. /\ AtCall /\ calls # <<>> /\ region = NoRegion /\ UNCHANGED <<kind, small, region, last>>
      /\ EnsureHeld(Need(Top.n)) /\ MustGrow(Top.level, Top.n)
  BY DEF EnsureGrows, EnsureHeld, AtCall
<1>2. PICK l \in {0, 1} : l = Top.level
  BY <1>1, TopIs
<1>3. PICK d \in Nat : d = Need(Top.n)
  <2>1. Top.n \in 1 .. WireMaxN
    BY <1>1, TopIs DEF FrameType
  <2>2. QED
    BY <2>1, Sizes
<1>4. /\ heap' = [heap EXCEPT ![Arena(l)] = d] /\ ctx' = [ctx EXCEPT ![l] = WithCap(@, d)]
      /\ d > Cap(l) /\ EnsureHeld(d)
  <2>1. heap' = [heap EXCEPT ![Arena(l)] = d] /\ ctx' = [ctx EXCEPT ![l] = WithCap(@, d)]
    BY <1>2, <1>3 DEF EnsureGrows
  <2>2. d > Cap(l) /\ EnsureHeld(d)
    BY <1>1, <1>2, <1>3 DEF MustGrow
  <2>3. QED
    BY <2>1, <2>2
<1>5. /\ Contexted' /\ heap'[Arena(l)] = d
      /\ \A k \in {0, 1} : k # l => heap'[Arena(k)] = heap[Arena(k)]
      /\ ctx'[0].table = ctx[0].table /\ ctx'[0].snph = ctx[0].snph
      /\ ctx'[0].nested = ctx[0].nested
  BY <1>1, <1>2, <1>4, ArenaGrown
<1>6. Called'
  <2>1. Need(Top.n) <= d /\ heap'[Arena(Top.level)] = d
        /\ \A k \in {0, 1} : k # Top.level => heap'[Arena(k)] = heap[Arena(k)]
    BY <1>2, <1>3, <1>5
  <2>2. QED
    BY <1>1, <1>4, <1>5, <2>1, TopEnsured
<1>7. Regioned' /\ Returned'
  BY <1>1, SizesAssumption, Sizes DEF Regioned, Returned, NoRegion, RegionType
<1>8. QED
  BY <1>5, <1>6, <1>7

\* The arena does not grow, and the call fails.
LEMMA EnsureFailsKeeps ==
  ASSUME ContextInv, EnsureFails
  PROVE  ContextInv'
<1> USE DEF ContextInv
<1>1. calls # <<>> /\ Return("null", FALSE) /\ UNCHANGED <<kind, small, ctx, heap, holds>>
  BY DEF EnsureFails, AtCall, ContextAfterFailure
<1>2. Undisturbed
  BY <1>1 DEF Undisturbed, Called
<1>3. QED
  BY <1>1, <1>2, ContextedKept, Returns, ReturnsStatus

\* A walk ends, well or badly.
LEMMA FinishKeeps ==
  ASSUME ContextInv, Finish
  PROVE  ContextInv'
<1> USE DEF ContextInv
<1>1. calls # <<>> /\ UNCHANGED <<kind, small, ctx, heap, holds>>
  BY DEF Finish, AtCall
<1>2. PICK good \in BOOLEAN : Return("ok", good)
  BY DEF Finish
<1>3. Undisturbed
  BY <1>1 DEF Undisturbed, Called
<1>4. QED
  BY <1>1, <1>2, <1>3, ContextedKept, Returns, ReturnsStatus

\* A region begins: the walk counts it.
LEMMA StartRegionKeeps ==
  ASSUME ContextInv, StartRegion
  PROVE  ContextInv'
<1> USE DEF ContextInv
<1>1. /\ calls # <<>> /\ Top.regions < MaxRegions
      /\ calls' = <<[Top EXCEPT !.regions = @ + 1]>> \o Tail(calls)
      /\ UNCHANGED <<kind, small, ctx, heap, holds, last>>
  BY DEF StartRegion, AtCall
<1>2. Undisturbed
  BY <1>1 DEF Undisturbed, Called
<1>3. PICK t \in FrameType : t = Top
  BY <1>1, TopIs
<1>4. Called'
  <2> DEFINE g == [t EXCEPT !.regions = @ + 1]
  <2>1. t.regions + 1 \in 0 .. MaxRegions
    BY <1>1, <1>3, TablesAssumption DEF FrameType
  <2>2. /\ g \in FrameType /\ g.held = t.held /\ g.level = t.level /\ g.n = t.n
        /\ g.layout = t.layout /\ g.table = t.table
    BY <2>1 DEF FrameType
  <2>3. calls' = <<g>> \o Tail(calls)
    BY <1>1, <1>3
  <2> HIDE DEF g
  <2>4. QED
    BY <1>1, <1>2, <1>3, <2>2, <2>3, TopNotes
<1>5. Regioned'
  <2>1. BitmapBytes(t.n) \in 1 .. NphMaxN /\ NphMaxN \in Nat
    <3>1. t.n \in 1 .. WireMaxN
      BY DEF FrameType
    <3>2. QED
      BY <3>1, Sizes, SizesAssumption
  <2>2. PICK b \in 1 .. NphMaxN : b = BitmapBytes(t.n)
    BY <2>1
  <2>3. PICK w \in {"dnPH", "snPH"}, u \in Tables \cup {0} :
          /\ region' = [stage |-> "nested", form |-> w, bytes |-> b, t |-> u]
          /\ w = "dnPH" => u = 0
    BY <1>3, <2>2 DEF StartRegion
  <2>4. b \in 0 .. NphMaxN
    BY <2>1
  <2>5. region' \in RegionType /\ region'.stage = "nested" /\ region'.bytes = b
       /\ (region'.form = "dnPH" => region'.t = 0)
    BY <2>3, <2>4 DEF RegionType
  <2>6. calls' # <<>>
    <3>1. Called' /\ Depth \in {1, 2}
      BY <1>1, <1>4, TopIs
    <3>2. CASE \E f \in SoundFrames : calls = <<f>> /\ f.level = 0
      BY <1>1, <3>2
    <3>3. CASE \E f, h \in SoundFrames : calls = <<f, h>> /\ f.level = 1 /\ h.level = 0
      <4>1. PICK f \in SoundFrames, h \in SoundFrames : calls = <<f, h>>
        BY <3>3
      <4>2. Tail(calls) = <<h>>
        BY <4>1
      <4>3. calls' = <<[Top EXCEPT !.regions = @ + 1], h>>
        BY <1>1, <4>2, PairConcat
      <4>4. QED
        BY <4>3
    <3>4. QED
      BY <1>1, <3>2, <3>3 DEF Called
  <2>7. QED
    BY <2>5, <2>6 DEF Regioned
<1>6. QED
  BY <1>1, <1>4, <1>5, ContextedKept DEF Returned

\* The child is there already: only the caller's context has one.
LEMMA NestedExistsKeeps ==
  ASSUME ContextInv, NestedExists
  PROVE  ContextInv'
<1> USE DEF ContextInv
<1>1. /\ calls # <<>> /\ region.stage = "nested" /\ ctx[Top.level].nested
      /\ region' = [region EXCEPT !.stage = "table"]
      /\ UNCHANGED <<kind, small, ctx, heap, holds, calls, last>>
  BY DEF NestedExists, AtStage
<1>2. Contexted' /\ Returned'
  BY <1>1, ContextedKept DEF Returned
<1>3. Called'
  <2>1. SoundFrames' = SoundFrames
    BY <1>1 DEF SoundFrames, Need, Arena
  <2>2. QED
    BY <1>1, <2>1 DEF Called
<1>4. Depth = 1 /\ ctx[0].nested
  <2>1. ~ctx[1].nested
    BY DEF Contexted, CtxShape, NoContext
  <2>2. Top.level \in {0, 1} /\ Depth \in {1, 2} /\ Top.level = Depth - 1
    BY <1>1, TopIs
  <2>3. QED
    BY <1>1, <2>1, <2>2
<1>5. Regioned'
  <2>1. /\ region \in RegionType /\ region.bytes \in 1 .. NphMaxN
        /\ (region.form = "dnPH" => region.t = 0)
    BY <1>1 DEF Regioned
  <2>2. /\ region' \in RegionType /\ region'.stage = "table" /\ region'.bytes = region.bytes
        /\ region'.form = region.form /\ region'.t = region.t
    BY <1>1, <2>1 DEF RegionType
  <2>3. Len(calls') = 1 /\ ctx'[0].nested /\ calls' # <<>>
    BY <1>1, <1>4 DEF Depth
  <2>4. QED
    BY <2>1, <2>2, <2>3 DEF Regioned
<1>6. QED
  BY <1>2, <1>3, <1>5

\* No child for a child.
LEMMA NestedRefusedKeeps ==
  ASSUME ContextInv, NestedRefused
  PROVE  ContextInv'
<1> USE DEF ContextInv
<1>1. calls # <<>> /\ GiveUp /\ UNCHANGED <<kind, small, ctx, heap, holds, last>>
  BY DEF NestedRefused, AtStage
<1>2. Undisturbed
  BY <1>1 DEF Undisturbed, Called
<1>3. QED
  BY <1>1, <1>2, ContextedKept, GivenUp DEF Returned

\* No table.
LEMMA NoSnphTableKeeps ==
  ASSUME ContextInv, NoSnphTable
  PROVE  ContextInv'
<1> USE DEF ContextInv
<1>1. calls # <<>> /\ GiveUp /\ UNCHANGED <<kind, small, ctx, heap, holds, last>>
  BY DEF NoSnphTable, AtStage
<1>2. Undisturbed
  BY <1>1 DEF Undisturbed, Called
<1>3. QED
  BY <1>1, <1>2, ContextedKept, GivenUp DEF Returned

\* A histogram for the caller, between calls.
LEMMA HistogramKeeps ==
  ASSUME ContextInv, Histogram
  PROVE  ContextInv'
<1> USE DEF ContextInv
<1>1. /\ calls = <<>> /\ holds' = [holds EXCEPT ![0] = "bins"]
      /\ UNCHANGED <<kind, small, ctx, heap, calls, region, last>>
  BY DEF Histogram
<1>2. Contexted' /\ Returned'
  BY <1>1, ContextedKept DEF Returned
<1>3. Called'
  BY <1>1 DEF Called
<1>4. Regioned'
  BY <1>1 DEF Regioned, NoRegion, RegionType, NphMaxN
<1>5. QED
  BY <1>2, <1>3, <1>4

\* The caller's next block.
LEMMA CallKeeps ==
  ASSUME ContextInv, Call
  PROVE  ContextInv'
<1> USE DEF ContextInv
<1>1. kind # "none" /\ calls = <<>> /\ UNCHANGED <<kind, small, ctx, heap, holds, region, last>>
  BY DEF Call
<1>2. PICK n \in BlockSizes, layout \in Layouts : calls' = <<Frame(0, n, layout, 0, TRUE)>>
  BY DEF Call
<1>3. Contexted'
  <2>1. Owned(0)' = Owned(0) /\ Owned(1)' = Owned(1)
    BY <1>1, OwnedKept DEF Levels
  <2>2. CtxShape' /\ RecordsTrue' /\ ArenasTrue(0)' /\ ArenasTrue(1)'
    BY <1>1 DEF Contexted, CtxShape, RecordsTrue, ArenasTrue
  <2>3. QED
    BY <1>1, <2>1, <2>2 DEF Contexted
<1>4. Called'
  <2>1. PICK f : f = Frame(0, n, layout, 0, TRUE)
    OBVIOUS
  <2>2. f \in FrameType /\ f.level = 0 /\ f.held = 0
    BY <2>1, BlocksAssumption, TablesAssumption DEF Frame, FrameType, Levels
  <2>3. f \in SoundFrames'
    BY <2>2 DEF SoundFrames
  <2>4. QED
    BY <1>1, <1>2, <2>1, <2>2, <2>3 DEF Called
<1>5. Regioned' /\ Returned'
  <2>1. region = NoRegion /\ region' = NoRegion
    BY <1>1 DEF Regioned
  <2>2. QED
    BY <1>1, <2>1 DEF Regioned, NoRegion, Returned, RegionType, NphMaxN
<1>6. QED
  BY <1>3, <1>4, <1>5

\* The context goes, with all it owned.
LEMMA FreeKeeps ==
  ASSUME ContextInv, Free
  PROVE  ContextInv'
<1> USE DEF ContextInv
<1>1. /\ calls = <<>> /\ calls' = <<>> /\ kind' = "none" /\ ctx' = Idle
      /\ heap' = FreeAll(heap, Freed(0)) /\ UNCHANGED <<small, region>>
  BY DEF Free, Idle
<1>2. DOMAIN heap' = {}
  <2>1. Owned(0) \subseteq Freed(0) /\ Owned(1) \subseteq Freed(0)
    BY FreedIs DEF Levels
  <2>2. DOMAIN heap' = DOMAIN heap \ Freed(0)
    BY <1>1 DEF FreeAll
  <2>3. QED
    BY <2>1, <2>2 DEF Contexted
<1>3. \A l \in Levels : ctx'[l] = NoContext
  BY <1>1 DEF Idle
<1>4. NoContext \in ContextType
  BY DEF NoContext, ContextType
<1>5. ctx' \in [Levels -> ContextType]
  BY <1>1, <1>4 DEF Idle
<1>6. ctx'[0] = NoContext /\ ctx'[1] = NoContext /\ ctx'[2] = NoContext
  BY <1>3 DEF Levels
<1>7. Owned(0)' = {} /\ Owned(1)' = {}
  BY <1>6 DEF Owned, NoContext
<1>8. CtxShape' /\ RecordsTrue' /\ ArenasTrue(0)' /\ ArenasTrue(1)'
  <2>1. ~NoContext.live /\ ~NoContext.nested /\ \A t \in Tables : NoContext.snph[t] = <<>>
    BY DEF NoContext
  <2>2. CtxShape'
    BY <1>1, <1>6, <2>1 DEF CtxShape
  <2>3. RecordsTrue'
    BY <1>6, <2>1 DEF RecordsTrue
  <2>4. ArenasTrue(0)' /\ ArenasTrue(1)'
    BY <1>6, <2>1 DEF ArenasTrue
  <2>5. QED
    BY <2>2, <2>3, <2>4
<1>9. Contexted'
  BY <1>1, <1>2, <1>5, <1>7, <1>8 DEF Contexted
<1>10. Called' /\ Regioned' /\ Returned'
  <2>1. region = NoRegion /\ region' = NoRegion
    BY <1>1 DEF Regioned
  <2>2. Called'
    BY <1>1 DEF Called, Free
  <2>3. QED
    BY <1>1, <2>1, <2>2 DEF Regioned, NoRegion, Returned, RegionType, NphMaxN, Free
<1>11. QED
  BY <1>9, <1>10

\* dnPH's table is rebuilt, in the child's arena.
LEMMA DnphTableKeeps ==
  ASSUME ContextInv, DnphTable
  PROVE  ContextInv'
<1> USE DEF ContextInv
<1>1. /\ calls # <<>> /\ region.stage = "table" /\ region.form = "dnPH"
      /\ UNCHANGED <<kind, small, heap, last>>
  BY DEF DnphTable, AtStage
<1>2. Depth = 1 /\ region.t = 0 /\ Top.level = 0 /\ Top \in FrameType
  <2>1. Depth = 1 /\ region.t = 0
    BY <1>1 DEF Regioned, Depth
  <2>2. QED
    BY <1>1, <2>1, TopIs
<1>3. holds' \in [Levels -> {"nothing", "bins", "walk"}] /\ holds'[0] = holds[0]
  <2>1. holds' = holds \/ holds' = [holds EXCEPT ![1] = "bins"]
    BY <1>2 DEF DnphTable, HistogramLevel
  <2>2. QED
    BY <2>1 DEF Called, Levels
<1>4. Undisturbed
  BY <1>1, <1>2, <1>3 DEF Undisturbed
<1>5. Top.layout \in Layouts
  BY <1>2 DEF FrameType
<1>6. Returned'
  BY <1>1 DEF Returned
<1>7. CASE ctx' = [ctx EXCEPT ![0].table = Top.layout] /\ Descend
  <2>1. PICK v \in Layouts : v = Top.layout
    BY <1>5
  <2>2. ctx' = [ctx EXCEPT ![0].table = v]
    BY <1>7, <2>1
  <2>3. Contexted'
    BY <1>1, <2>2, TableSet
  <2>4. ctx'[0].table = v /\ ctx'[0].nested = ctx[0].nested
    <3>1. ctx[0] \in ContextType /\ ctx'[0] = [ctx[0] EXCEPT !.table = v]
      BY <2>2 DEF Contexted, Levels
    <3>2. QED
      BY <3>1 DEF ContextType
  <2>5. Called' /\ Regioned'
    BY <1>1, <1>2, <1>4, <1>7, <2>1, <2>4, Descended
  <2>6. QED
    BY <1>6, <2>3, <2>5
<1>8. CASE ctx' = [ctx EXCEPT ![0].table = "none"] /\ GiveUp
  BY <1>1, <1>4, <1>6, <1>8, TableSet, GivenUp
<1>9. QED
  BY <1>2, <1>7, <1>8 DEF DnphTable

\* A static table is found, built or refused.
LEMMA SnphTableKeeps ==
  ASSUME ContextInv, SnphTable
  PROVE  ContextInv'
<1> USE DEF ContextInv
<1>1. /\ calls # <<>> /\ region.stage = "table" /\ region.form = "snPH" /\ region.t \in Tables
      /\ UNCHANGED <<kind, small, holds, last>>
  BY DEF SnphTable, AtStage
<1>2. Depth = 1 /\ Top.level = 0 /\ Top \in FrameType
  <2>1. Depth = 1
    BY <1>1 DEF Regioned, Depth
  <2>2. QED
    BY <1>1, <2>1, TopIs
<1>3. PICK t \in Tables, layout \in Layouts : t = region.t /\ layout = Top.layout /\ t # 0
  BY <1>1, <1>2, TablesAssumption DEF FrameType
<1>4. PICK entry : entry = ctx[0].snph[t]
  OBVIOUS
<1>5. Returned'
  BY <1>1 DEF Returned
<1>6. CASE Cached(entry, layout) /\ Descend /\ UNCHANGED <<ctx, heap>>
  <2>1. Contexted'
    BY <1>1, <1>6, ContextedKept
  <2>2. Undisturbed
    BY <1>1, <1>6 DEF Undisturbed, Called
  <2>3. entry # <<>> /\ entry[1] = layout
    <3>1. entry # <<>> /\ entry[2] = layout
      BY <1>6 DEF Cached
    <3>2. QED
      BY <1>4, <3>1 DEF Contexted, RecordsTrue
  <2>4. ctx'[0].snph[t] # <<>> /\ ctx'[0].snph[t][1] = layout /\ ctx'[0].nested = ctx[0].nested
    BY <1>4, <1>6, <2>3
  <2>5. Called' /\ Regioned'
    BY <1>1, <1>3, <1>6, <2>2, <2>4, Descended
  <2>6. QED
    BY <1>5, <2>1, <2>5
<1>7. CASE /\ heap' = Malloc(heap, Struct(TableOf(0, t)), {})
           /\ ctx' = [ctx EXCEPT ![0].snph[t] = <<layout, layout>>]
           /\ Descend
  <2>1. PICK v \in Layouts \X Layouts : v = <<layout, layout>>
    OBVIOUS
  <2>2. v # <<>> /\ v[1] = layout /\ v[2] = layout
    BY <2>1
  <2>3. DOMAIN heap' = DOMAIN heap \cup {TableOf(0, t)}
        /\ \A x \in DOMAIN heap \ {TableOf(0, t)} : heap'[x] = heap[x]
    BY <1>7 DEF Malloc, Struct
  <2>4. ctx' = [ctx EXCEPT ![0].snph[t] = v]
    BY <1>7, <2>1
  <2>5. /\ Contexted' /\ \A l \in {0, 1} : ctx[l].live => heap'[Arena(l)] = heap[Arena(l)]
        /\ ctx'[0].snph[t] = v /\ ctx'[0].nested = ctx[0].nested
    BY <1>1, <2>2, <2>3, <2>4, SnphSet
  <2>6. Undisturbed
    BY <1>1, <1>2, <2>5, CallInContext DEF Undisturbed, Called
  <2>7. Called' /\ Regioned'
    BY <1>1, <1>3, <1>7, <2>2, <2>5, <2>6, Descended
  <2>8. QED
    BY <1>5, <2>5, <2>7
<1>8. CASE /\ heap' = FreeAll(heap, {TableOf(0, t)})
           /\ ctx' = [ctx EXCEPT ![0].snph[t] = <<>>]
           /\ GiveUp
  <2>1. DOMAIN heap' = DOMAIN heap \ {TableOf(0, t)}
        /\ \A x \in DOMAIN heap \ {TableOf(0, t)} : heap'[x] = heap[x]
    BY <1>8 DEF FreeAll
  <2>2. PICK v \in {<<>>} : v = <<>>
    OBVIOUS
  <2>3. ctx' = [ctx EXCEPT ![0].snph[t] = v]
    BY <1>8, <2>2
  <2>4. /\ Contexted' /\ \A l \in {0, 1} : ctx[l].live => heap'[Arena(l)] = heap[Arena(l)]
    BY <1>1, <2>1, <2>2, <2>3, SnphSet
  <2>5. Undisturbed
    BY <1>1, <1>2, <2>4, CallInContext DEF Undisturbed, Called
  <2>6. Called' /\ Regioned'
    BY <1>1, <1>8, <2>5, GivenUp
  <2>7. QED
    BY <1>5, <2>4, <2>6
<1>9. CASE Cached(entry, layout)
  BY <1>2, <1>3, <1>4, <1>6, <1>9 DEF SnphTable
<1>10. CASE ~Cached(entry, layout) /\ t \notin BadTables
  BY <1>2, <1>3, <1>4, <1>7, <1>10 DEF SnphTable
<1>11. CASE ~Cached(entry, layout) /\ t \in BadTables
  BY <1>2, <1>3, <1>4, <1>8, <1>11 DEF SnphTable
<1>12. QED
  BY <1>9, <1>10, <1>11

\* A context is created, or nothing is.
LEMMA CreateKeeps ==
  ASSUME ContextInv, NEW k \in {"encoder", "decoder"}, Create(k)
  PROVE  ContextInv'
<1> USE DEF ContextInv
<1>1. /\ kind = "none" /\ calls = <<>> /\ ctx = Idle
      /\ UNCHANGED <<small, holds, calls, region, last>>
  BY DEF Create, Contexted, CtxShape
<1>2. /\ \A l \in Levels : ctx[l] = NoContext
      /\ ~NoContext.live /\ ~NoContext.nested /\ \A t \in Tables : NoContext.snph[t] = <<>>
  BY <1>1 DEF Idle, NoContext
<1>3. DOMAIN heap = {}
  BY <1>2 DEF Contexted, Owned, Levels
<1>4. region = NoRegion
  BY <1>1 DEF Regioned
<1>5. Called' /\ Regioned' /\ Returned'
  <2>1. Called'
    BY <1>1 DEF Called
  <2>2. QED
    BY <1>1, <1>4, <2>1 DEF Regioned, NoRegion, Returned, RegionType, NphMaxN
<1>6. /\ \/ /\ DOMAIN heap' = Base(0)
            /\ heap'[Block(0, "enc")] = StartEncCap(WireMaxN)
            /\ heap'[Block(0, "dec")] = StartDecCap(WireMaxN)
         \/ DOMAIN heap' = {}
  <2>1. PICK fails : heap' = CreateAt(heap, 0, WireMaxN, fails)
    BY DEF Create
  <2>2. DOMAIN heap \cap Base(0) = {}
    BY <1>3
  <2>3. PICK c : c = CreateAt(heap, 0, WireMaxN, fails)
    OBVIOUS
  <2>4. Created(heap, 0, WireMaxN, c) \/ DOMAIN c = DOMAIN heap
    BY <2>2, <2>3, Creates
  <2>5. heap' = c
    BY <2>1, <2>3
  <2>6. QED
    BY <1>3, <2>4, <2>5 DEF Created
<1>7. CASE DOMAIN heap' = {}
  <2>1. kind' = kind /\ ctx' = ctx
    BY <1>7 DEF Create
  <2>2. Owned(0)' = Owned(0) /\ Owned(1)' = Owned(1)
    BY <2>1, OwnedKept DEF Levels
  <2>3. CtxShape' /\ RecordsTrue'
    BY <1>1, <2>1 DEF Contexted, CtxShape, RecordsTrue
  <2>4. ArenasTrue(0)' /\ ArenasTrue(1)'
    BY <1>2, <2>1 DEF ArenasTrue, Levels
  <2>5. DOMAIN heap' = Owned(0)' \cup Owned(1)'
    BY <1>3, <1>7, <2>2 DEF Contexted
  <2>6. QED
    BY <1>1, <1>5, <2>1, <2>3, <2>4, <2>5 DEF Contexted
<1>8. CASE /\ DOMAIN heap' = Base(0)
           /\ heap'[Block(0, "enc")] = StartEncCap(WireMaxN)
           /\ heap'[Block(0, "dec")] = StartDecCap(WireMaxN)
  <2>1. kind' = k /\ ctx' = [ctx EXCEPT ![0] = FreshContext(WireMaxN, FALSE)]
    <3>1. Block(0, "handle") \in DOMAIN heap'
      BY <1>8 DEF Base
    <3>2. QED
      BY <3>1 DEF Create
  <2>2. PICK c : c = FreshContext(WireMaxN, FALSE)
    OBVIOUS
  <2>3. /\ StartEncCap(WireMaxN) \in Nat /\ StartDecCap(WireMaxN) \in Nat
        /\ HistScratch <= StartEncCap(WireMaxN)
    BY StartSizes, SizesAssumption DEF Contexted
  <2>4. /\ c \in ContextType /\ c.live /\ ~c.isChild /\ ~c.nested
        /\ c.encCap = StartEncCap(WireMaxN) /\ c.decCap = StartDecCap(WireMaxN)
        /\ \A t \in Tables : c.snph[t] = <<>>
    BY <2>2, <2>3, FreshIs
  <2>5. /\ ctx'[0] = c /\ ctx'[1] = NoContext /\ ctx'[2] = NoContext
        /\ ctx' \in [Levels -> ContextType]
    <3>1. ctx \in [Levels -> ContextType] /\ Levels = {0, 1, 2}
      BY DEF Contexted, Levels
    <3>2. ctx' = [ctx EXCEPT ![0] = c]
      BY <2>1, <2>2
    <3>3. QED
      BY <1>2, <2>4, <3>1, <3>2
  <2>6. Owned(0)' = Base(0) /\ Owned(1)' = {}
    BY <1>2, <2>4, <2>5 DEF Owned, Base
  <2>7. CtxShape' /\ RecordsTrue'
    BY <2>1, <2>4, <2>5 DEF CtxShape, RecordsTrue
  <2>8. ArenasTrue(0)' /\ ArenasTrue(1)'
    BY <1>2, <1>8, <2>3, <2>4, <2>5 DEF ArenasTrue
  <2>9. QED
    BY <1>1, <1>5, <1>8, <2>1, <2>5, <2>6, <2>7, <2>8 DEF Contexted
<1>9. QED
  BY <1>6, <1>7, <1>8

\* The child is created, or nothing is.
LEMMA NestedCreateKeeps ==
  ASSUME ContextInv, NestedCreate
  PROVE  ContextInv'
<1> USE DEF ContextInv
<1>1. /\ calls # <<>> /\ region.stage = "nested" /\ ~ctx[Top.level].nested
      /\ ~ctx[Top.level].isChild /\ UNCHANGED <<kind, small, holds, last>>
  BY DEF NestedCreate, AtStage, MayNest
<1>2. ctx[0] \in ContextType /\ ctx[1] \in ContextType /\ Levels = {0, 1, 2}
      /\ ctx \in [Levels -> ContextType] /\ kind # "none"
  BY <1>1, CallInContext DEF Contexted, Levels
<1>3. Top.level = 0 /\ Depth = 1
  <2>1. Top.level \in {0, 1} /\ Depth \in {1, 2} /\ Top.level = Depth - 1
    BY <1>1, TopIs
  <2>2. Top.level # 1
    <3>1. SUFFICES ASSUME Top.level = 1 PROVE FALSE
      OBVIOUS
    <3>2. ctx[1].live /\ ~ctx[1].isChild
      BY <1>1, <3>1, LevelIs
    <3>3. ctx[1] # NoContext
      BY <3>2 DEF NoContext
    <3>4. QED
      BY <3>2, <3>3 DEF Contexted, CtxShape
  <2>3. QED
    BY <2>1, <2>2
<1>4. ~ctx[0].nested /\ ctx[1] = NoContext /\ ctx[0].live
  BY <1>1, <1>3, CallInContext DEF Contexted, CtxShape
<1>5. PICK fails : heap' = CreateNested(heap, 0, fails)
  BY <1>3 DEF NestedCreate
<1>6. DOMAIN heap = Owned(0) /\ Owned(1) = {}
  BY <1>4 DEF Contexted, Owned, NoContext
<1>7. DOMAIN heap \cap (NestedParts(0) \cup Freed(1)) = {}
  <2>1. Owned(0) = Base(0) \cup {TableOf(0, t) : t \in {u \in Tables : ctx[0].snph[u] # <<>>}}
    BY <1>4 DEF Owned, Base
  <2>2. Owned(0) \cap Freed(1) = {}
    BY <2>1, FreedBelow DEF Base, ScratchParts
  <2>3. Base(0) \cap NestedParts(0) = {}
    BY DEF Base, ScratchParts, NestedParts, NestedExtras, Block
  <2>4. \A t : TableOf(0, t) \notin NestedParts(0)
    BY DEF TableOf, NestedParts, NestedExtras, Block
  <2>5. Owned(0) \cap NestedParts(0) = {}
    BY <2>1, <2>3, <2>4
  <2>6. QED
    BY <1>6, <2>2, <2>5
<1>8. PICK c : c = CreateNested(heap, 0, fails)
  OBVIOUS
<1>9. Keeps(heap, heap') /\ (NestedMade(heap, heap') \/ DOMAIN heap' = DOMAIN heap)
  <2>1. Keeps(heap, c) /\ (NestedMade(heap, c) \/ DOMAIN c = DOMAIN heap)
    BY <1>7, <1>8, NestedCreates
  <2>2. heap' = c
    BY <1>5, <1>8
  <2>3. QED
    BY <2>1, <2>2 DEF Keeps, NestedMade
<1>10. /\ Block(0, "enc") \in DOMAIN heap /\ Block(0, "dec") \in DOMAIN heap
       /\ heap'[Block(0, "enc")] = heap[Block(0, "enc")]
       /\ heap'[Block(0, "dec")] = heap[Block(0, "dec")] /\ heap'[Arena(0)] = heap[Arena(0)]
  <2>1. Block(0, "enc") \in DOMAIN heap /\ Block(0, "dec") \in DOMAIN heap
    BY <1>4, <1>6 DEF Owned, ScratchParts
  <2>2. QED
    BY <1>9, <2>1 DEF Keeps, Arena
<1>11. Undisturbed
  BY <1>1, <1>3, <1>10 DEF Undisturbed, Called
<1>12. Returned'
  BY <1>1 DEF Returned
<1>13. CASE DOMAIN heap' = DOMAIN heap
  <2>1. Block(0, "nested") \notin DOMAIN heap'
    BY <1>7, <1>13 DEF NestedParts
  <2>2. GiveUp /\ UNCHANGED ctx
    BY <1>3, <2>1 DEF NestedCreate
  <2>3. Owned(0)' = Owned(0) /\ Owned(1)' = Owned(1)
    BY <1>1, <1>2, <2>2, OwnedKept
  <2>4. CtxShape' /\ RecordsTrue'
    BY <1>1, <1>2, <2>2 DEF Contexted, CtxShape, RecordsTrue
  <2>5. ArenasTrue(0)'
    BY <1>10, <2>2 DEF Contexted, ArenasTrue
  <2>6. ArenasTrue(1)'
    BY <1>4, <2>2 DEF ArenasTrue, NoContext
  <2>7. DOMAIN heap' = Owned(0)' \cup Owned(1)'
    BY <1>6, <1>13, <2>3
  <2>8. Contexted'
    BY <1>1, <2>2, <2>4, <2>5, <2>6, <2>7 DEF Contexted
  <2>9. QED
    BY <1>1, <1>11, <1>12, <2>2, <2>8, GivenUp
<1>14. CASE NestedMade(heap, heap')
  <2>1. Block(0, "nested") \in DOMAIN heap'
    BY <1>14 DEF NestedMade, NestedParts
  <2>2. /\ ctx' = [ctx EXCEPT ![0].nested = TRUE, ![1] = FreshContext(NphMaxN, TRUE)]
        /\ region' = [region EXCEPT !.stage = "table"] /\ calls' = calls
    <3>1. /\ ctx' = [ctx EXCEPT ![0].nested = TRUE, ![0 + 1] = FreshContext(NphMaxN, TRUE)]
          /\ region' = [region EXCEPT !.stage = "table"] /\ calls' = calls
      BY <1>3, <2>1 DEF NestedCreate
    <3>2. 0 + 1 = 1
      OBVIOUS
    <3>3. QED
      BY <3>1, <3>2
  <2>3. PICK n \in 1 .. WireMaxN : n = NphMaxN
    BY Sizes
  <2>4. StartEncCap(n) \in Nat /\ StartDecCap(n) \in Nat /\ HistScratch <= StartEncCap(n)
    BY StartSizes DEF Contexted
  <2>5. PICK f : f = FreshContext(n, TRUE)
    OBVIOUS
  <2>6. /\ f \in ContextType /\ f.live /\ f.isChild /\ ~f.nested
        /\ f.encCap = StartEncCap(n) /\ f.decCap = StartDecCap(n)
        /\ \A t \in Tables : f.snph[t] = <<>>
    BY <2>4, <2>5, FreshIs
  <2>7. PICK r : r = [ctx[0] EXCEPT !.nested = TRUE]
    OBVIOUS
  <2>8. r \in ContextType
    BY <1>2, <2>7 DEF ContextType
  <2>9. /\ r.nested /\ r.live = ctx[0].live /\ r.isChild = ctx[0].isChild
        /\ r.encCap = ctx[0].encCap /\ r.decCap = ctx[0].decCap
        /\ r.table = ctx[0].table /\ r.snph = ctx[0].snph
    BY <1>2, <2>7 DEF ContextType
  <2>10. ctx'[0] = r /\ ctx'[1] = f /\ ctx'[2] = ctx[2] /\ DOMAIN ctx' = Levels
    <3>1. ctx' = [ctx EXCEPT ![0].nested = TRUE, ![1] = f]
      BY <2>2, <2>3, <2>5
    <3>2. PICK e : e = [ctx EXCEPT ![0].nested = TRUE]
      OBVIOUS
    <3>3. e[0] = r /\ e[2] = ctx[2] /\ DOMAIN e = Levels
      BY <1>2, <2>7, <3>2
    <3>4. ctx' = [e EXCEPT ![1] = f]
      BY <3>1, <3>2
    <3>5. QED
      BY <1>2, <3>3, <3>4
  <2>11. ctx' \in [Levels -> ContextType]
    <3>1. ctx' = [l \in Levels |-> ctx'[l]]
      BY <2>2, <2>10
    <3>2. \A l \in Levels : ctx'[l] \in ContextType
      BY <1>2, <2>6, <2>8, <2>10
    <3>3. QED
      BY <3>1, <3>2
  <2>12. CtxShape'
    BY <1>1, <1>2, <2>6, <2>9, <2>10, CallInContext DEF Contexted, CtxShape
  <2>13. RecordsTrue'
    BY <2>9, <2>10 DEF Contexted, RecordsTrue
  <2>14. Owned(0)' = Owned(0) \cup NestedParts(0)
    <3>1. NestedParts(0)' = NestedParts(0)
      BY <1>1 DEF NestedParts, NestedExtras
    <3>2. QED
      BY <1>4, <2>9, <2>10, <3>1 DEF Owned
  <2>15. Owned(1)' = Base(1)
    BY <2>6, <2>10 DEF Owned, Base
  <2>16. DOMAIN heap' = Owned(0)' \cup Owned(1)'
    BY <1>6, <1>14, <2>14, <2>15 DEF NestedMade
  <2>17. ArenasTrue(0)'
    BY <1>10, <2>9, <2>10 DEF Contexted, ArenasTrue
  <2>18. ArenasTrue(1)'
    BY <1>14, <2>3, <2>4, <2>6, <2>10 DEF ArenasTrue, NestedMade
  <2>19. Contexted'
    BY <1>1, <2>11, <2>12, <2>13, <2>16, <2>17, <2>18 DEF Contexted
  <2>20. PICK g \in SoundFrames : calls = <<g>> /\ g.level = 0
    <3>1. \A p, q \in SoundFrames : calls # <<p, q>>
      BY <1>1, <1>3, TopIs
    <3>2. QED
      BY <1>1, <3>1 DEF Called
  <2>21. g \in SoundFrames'
    <3>1. g \in FrameType
      BY DEF SoundFrames
    <3>2. QED
      BY <1>3, <1>11, <2>20, <3>1, FramesKept
  <2>22. Called'
    BY <2>2, <2>20, <2>21, <1>11 DEF Called, Undisturbed
  <2>23. Regioned'
    <3>1. /\ region \in RegionType /\ region.bytes \in 1 .. NphMaxN
          /\ (region.form = "dnPH" => region.t = 0)
      BY <1>1 DEF Regioned
    <3>2. /\ region' \in RegionType /\ region'.stage = "table" /\ region'.bytes = region.bytes
          /\ region'.form = region.form /\ region'.t = region.t
      BY <2>2, <3>1 DEF RegionType
    <3>3. Len(calls') = 1 /\ calls' # <<>> /\ ctx'[0].nested
      BY <1>1, <1>3, <2>2, <2>9, <2>10 DEF Depth
    <3>4. QED
      BY <3>1, <3>2, <3>3 DEF Regioned
  <2>24. QED
    BY <1>12, <2>19, <2>22, <2>23
<1>15. QED
  BY <1>9, <1>13, <1>14

-----------------------------------------------------------------------------
(* The theorems. *)

\* A new program has no context.
LEMMA Begins == Init => ContextInv
<1> SUFFICES ASSUME Init PROVE ContextInv
  OBVIOUS
<1>1. /\ kind = "none" /\ small \in BOOLEAN /\ ctx = Idle /\ heap = <<>>
      /\ holds = [l \in Levels |-> "nothing"] /\ calls = <<>> /\ region = NoRegion
      /\ last = [status |-> "none", zeroed |-> FALSE]
  BY DEF Init, Idle
<1>2. /\ NoContext \in ContextType /\ ~NoContext.live /\ ~NoContext.nested
      /\ \A t \in Tables : NoContext.snph[t] = <<>>
  BY DEF NoContext, ContextType
<1>3. /\ ctx \in [Levels -> ContextType]
      /\ ctx[0] = NoContext /\ ctx[1] = NoContext /\ ctx[2] = NoContext
  BY <1>1, <1>2 DEF Idle, Levels
<1>4. CtxShape
  BY <1>1, <1>2, <1>3 DEF CtxShape
<1>5. RecordsTrue /\ ArenasTrue(0) /\ ArenasTrue(1)
  BY <1>2, <1>3 DEF RecordsTrue, ArenasTrue
<1>6. DOMAIN heap = Owned(0) \cup Owned(1)
  BY <1>1, <1>2, <1>3 DEF Owned
<1>7. Contexted
  BY <1>1, <1>3, <1>4, <1>5, <1>6 DEF Contexted
<1>8. Called /\ Returned
  BY <1>1 DEF Called, Returned
<1>9. Regioned
  BY <1>1, Sizes, SizesAssumption DEF Regioned, NoRegion, RegionType
<1>10. QED
  BY <1>7, <1>8, <1>9 DEF ContextInv

\* Every step of the program keeps it.
LEMMA Steps == ContextInv /\ [Next]_vars => ContextInv'
<1> SUFFICES ASSUME ContextInv, [Next]_vars PROVE ContextInv'
  OBVIOUS
<1>1. CASE Next
  BY <1>1, CreateKeeps, FreeKeeps, HistogramKeeps, CallKeeps, EnsureKeeps, EnsureGrowsKeeps,
     EnsureFailsKeeps, FinishKeeps, StartRegionKeeps, NestedExistsKeeps, NestedRefusedKeeps,
     NestedCreateKeeps, DnphTableKeeps, SnphTableKeeps, NoSnphTableKeeps DEF Next
<1>2. CASE UNCHANGED vars
  <2>1. UNCHANGED <<kind, small, ctx, heap, holds, calls, region, last>>
    BY <1>2 DEF vars
  <2>2. CtxShape'
    BY <2>1 DEF ContextInv, Contexted, CtxShape
  <2>3. RecordsTrue' /\ ArenasTrue(0)' /\ ArenasTrue(1)'
    BY <2>1 DEF ContextInv, Contexted, RecordsTrue, ArenasTrue
  <2>4. Owned(0)' = Owned(0) /\ Owned(1)' = Owned(1)
    BY <2>1, OwnedKept DEF Levels
  <2>5. SoundFrames' = SoundFrames
    BY <2>1 DEF SoundFrames, Need, Arena
  <2>6. QED
    BY <2>1, <2>2, <2>3, <2>4, <2>5 DEF ContextInv, Contexted, Called, Regioned, Returned
<1>3. QED
  BY <1>1, <1>2

\* The inductive invariant holds throughout.
THEOREM ContextInvariant == Spec => []ContextInv
BY Begins, Steps, PTL DEF Spec

\* MemorySound, for every size of the constants and every pattern of failing allocations:
\* nothing leaks, nothing owned has been freed, a recorded capacity is the block's size, a
\* walk has an arena of its own that is large enough, and the histogram's bins fit
\* (scratch_create, pivco_nested_for_encoder, encode_scratch_ensure, scratch_free).
THEOREM MemoryIsSound == Spec => []MemorySound
BY ContextInvariant, GivesMemory, PTL

\* NestingSound: whatever a stream says, a child has no child, and an inner block is coded
\* with a table of the outer layout (pivco_nested_for_decoder, pivco_snph_table).
THEOREM NestingIsSound == Spec => []NestingSound
BY ContextInvariant, GivesNesting, PTL
=============================================================================
