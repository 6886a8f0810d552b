------------------------------ MODULE Contexts ------------------------------
(***************************************************************************)
(* An encoder or decoder context (src/pivco_huffman.c): the memory it owns *)
(* and what one call after another does to it.                             *)
(*                                                                         *)
(* A context owns two arenas that only grow, and, from the first nested    *)
(* region on, a child context with its own arenas, a staging buffer and a  *)
(* cache of static tables.  Every allocation may fail.  The outer walk     *)
(* keeps pointers into its arena while a region is coded by the child.     *)
(*                                                                         *)
(* An allocation is <<level, part, t>>: level 0 is the caller's context, 1 *)
(* its child; t tells the static tables apart and is 0 otherwise.  Sizes   *)
(* are the program's, in bytes.                                            *)
(***************************************************************************)
EXTENDS Integers, Sequences, FiniteSets

CONSTANTS WireMaxN,    \* PIVCO_WIRE_MAX_N
          MaxCodeLen,  \* PIVCO_MAX_CODE_LEN
          HistScratch, \* PIVCO_PRIM_HIST_SCRATCH_MAX
          Overread,    \* MERGE_OVERREAD
          ProbeCap,    \* PH_CTX_ALLOC_PROBE_CAP
          DecodePad,   \* DECODE_SCRATCH_ALIGN + DECODE_SCRATCH_SHIFT
          BlockSizes,  \* sizes of the caller's blocks
          Layouts,     \* flat layouts of the tables in use
          Tables,      \* indices of the static tables in use
          BadTables,   \* those whose lengths do not build
          MaxRegions   \* bound: nested regions of one call

NphMaxN == WireMaxN \div 8 + 1     \* PIVCO_NPH_MAX_N
BitmapBytes(n) == (n + 7) \div 8

ASSUME SizesAssumption ==
  /\ WireMaxN \in Nat \ {0} /\ MaxCodeLen \in Nat /\ HistScratch \in Nat
  /\ Overread \in 0 .. 64 /\ DecodePad \in Nat /\ ProbeCap \in Nat
  /\ HistScratch <= ProbeCap
ASSUME BlocksAssumption == BlockSizes \subseteq 1 .. WireMaxN
ASSUME TablesAssumption ==
  /\ Tables \subseteq Nat \ {0} /\ BadTables \subseteq Tables /\ MaxRegions \in Nat

VARIABLES kind,   \* none, encoder or decoder: what the caller holds
          small,  \* PH_CTX_ALLOC=1
          ctx,    \* pivco_scratch_t, by level
          heap,   \* live allocations, with their sizes
          holds,  \* what the arenas of a level were last used for
          calls,  \* calls in progress, the innermost first
          region, \* the nested region the innermost call is at
          last    \* what the caller's last call returned

vars == <<kind, small, ctx, heap, holds, calls, region, last>>

-----------------------------------------------------------------------------
Levels    == 0 .. 2      \* nothing ever reaches 2
NoContext == [live |-> FALSE, encCap |-> 0, decCap |-> 0, isChild |-> FALSE,
              nested |-> FALSE, table |-> "none", snph |-> [t \in Tables |-> <<>>]]
NoRegion  == [stage |-> "none", form |-> "none", bytes |-> 0, t |-> 0]

Block(l, part)  == <<l, part, 0>>
TableOf(l, t)   == <<l, "snph", t>>

\* The sizes asked for at creation and by a call on n symbols.
EncScratchBytes(n) == n + 64 + n * (MaxCodeLen + 2) + HistScratch
DecScratchBytes(n) == n * (MaxCodeLen + 2) + 64
EncodeNeed(n) == (n + 64) + n * (MaxCodeLen + 2) + (n * 2 + 4096)
DecodeNeed(n) == n * (MaxCodeLen + 2) + Overread + DecodePad

StartEncCap(n) == IF small THEN ProbeCap ELSE EncScratchBytes(n)
StartDecCap(n) == (IF small THEN ProbeCap ELSE DecScratchBytes(n)) + DecodePad

\* What malloc gives of the sizes asked for.
Malloc(h, sizes, fails) ==
  LET got == DOMAIN sizes \ fails
  IN  [x \in got \cup DOMAIN h |-> IF x \in got THEN sizes[x] ELSE h[x]]
Struct(x) == [y \in {x} |-> 1]
FreeAll(h, blocks) == [x \in DOMAIN h \ blocks |-> h[x]]

\* encoder_create and decoder_create: the new heap.  It holds the handle just
\* when the creation succeeded.
ScratchParts(l) == {Block(l, "scratch"), Block(l, "enc"), Block(l, "dec")}
ArenaSizes(l, n) == [x \in {Block(l, "enc"), Block(l, "dec")} |->
                      IF x = Block(l, "enc") THEN StartEncCap(n) ELSE StartDecCap(n)]
CreateAt(h, l, n, fails) ==
  LET handle  == Malloc(h, Struct(Block(l, "handle")), fails)
      scratch == Malloc(handle, Struct(Block(l, "scratch")), fails)
      arenas  == Malloc(scratch, ArenaSizes(l, n), fails)
  IN  IF Block(l, "handle") \notin DOMAIN handle THEN h
      ELSE IF Block(l, "scratch") \notin DOMAIN scratch
           THEN FreeAll(scratch, {Block(l, "handle")})
      ELSE IF ScratchParts(l) \subseteq DOMAIN arenas THEN arenas
      ELSE FreeAll(arenas, ScratchParts(l) \cup {Block(l, "handle")})

FreshContext(n, child) ==
  [NoContext EXCEPT !.live = TRUE, !.encCap = StartEncCap(n), !.decCap = StartDecCap(n),
                    !.isChild = child]

\* scratch_free with the handle: everything below level l too.
Freed(l) ==
  UNION {{Block(k, p) : p \in {"handle", "scratch", "enc", "dec", "nested", "out", "flipped"}}
           \cup {TableOf(k, t) : t \in Tables} : k \in {j \in Levels : j >= l}}

\* pivco_nested_for_encoder and pivco_nested_for_decoder on a context without a
\* child: the new heap, which holds the nested block just when they succeed.
NestedExtras(l) == IF kind = "encoder" THEN {Block(l, "out"), Block(l, "flipped")} ELSE {}
NestedParts(l)  == NestedExtras(l) \cup {Block(l, "nested")}
ExtraSizes(l) == [x \in NestedExtras(l) |->
                    IF x = Block(l, "out") THEN NphMaxN * 2 + 4096 ELSE NphMaxN]
CreateNested(h, l, fails) ==
  LET nested == Malloc(h, Struct(Block(l, "nested")), fails)
      all == Malloc(CreateAt(nested, l + 1, NphMaxN, fails), ExtraSizes(l), fails)
  IN  IF Block(l, "nested") \notin DOMAIN nested THEN h
      ELSE IF NestedExtras(l) \cup {Block(l + 1, "handle")} \subseteq DOMAIN all THEN all
      ELSE FreeAll(all, NestedParts(l) \cup Freed(l + 1))

-----------------------------------------------------------------------------
Init ==
  /\ kind = "none" /\ small \in BOOLEAN
  /\ ctx = [l \in Levels |-> NoContext]
  /\ heap = <<>>
  /\ holds = [l \in Levels |-> "nothing"]
  /\ calls = <<>> /\ region = NoRegion
  /\ last = [status |-> "none", zeroed |-> FALSE]

\* pivco_encoder_create, pivco_decoder_create.
Create(k) ==
  /\ kind = "none"
  /\ \E fails \in SUBSET (ScratchParts(0) \cup {Block(0, "handle")}) :
       heap' = CreateAt(heap, 0, WireMaxN, fails)
  /\ IF Block(0, "handle") \in DOMAIN heap'
     THEN kind' = k /\ ctx' = [ctx EXCEPT ![0] = FreshContext(WireMaxN, FALSE)]
     ELSE UNCHANGED <<kind, ctx>>
  /\ UNCHANGED <<small, holds, calls, region, last>>

\* pivco_encoder_free, pivco_decoder_free.
Free ==
  /\ kind # "none" /\ calls = <<>>
  /\ heap' = FreeAll(heap, Freed(0))
  /\ kind' = "none"
  /\ ctx' = [l \in Levels |-> NoContext]
  /\ holds' = [l \in Levels |-> "nothing"]
  /\ last' = [status |-> "none", zeroed |-> FALSE]
  /\ UNCHANGED <<small, calls, region>>

\* pivco_histogram for the caller: bins in the tail of the encode arena.
Histogram ==
  /\ kind = "encoder" /\ calls = <<>>
  /\ holds' = [holds EXCEPT ![0] = "bins"]
  /\ UNCHANGED <<kind, small, ctx, heap, calls, region, last>>

\* A call of pivco_encode or pivco_decode, before it has its arena (held = 0).
\* fse: the table lets the encoder nest; a decoder nests where the stream says so.
\* table: 0 for the table of the caller or of dnPH, t for a static one.
Frame(l, n, layout, t, fse) ==
  [level |-> l, n |-> n, layout |-> layout, table |-> t, held |-> 0,
   fse |-> fse, regions |-> 0, zeroed |-> FALSE]

Call ==
  /\ kind # "none" /\ calls = <<>>
  /\ \E n \in BlockSizes, layout \in Layouts : calls' = <<Frame(0, n, layout, 0, TRUE)>>
  /\ UNCHANGED <<kind, small, ctx, heap, holds, region, last>>

-----------------------------------------------------------------------------
Top == Head(calls)
AtCall  == calls # <<>> /\ region = NoRegion
Arena(l) == Block(l, IF kind = "encoder" THEN "enc" ELSE "dec")
Cap(l)  == IF kind = "encoder" THEN ctx[l].encCap ELSE ctx[l].decCap
Need(n) == IF kind = "encoder" THEN EncodeNeed(n) ELSE DecodeNeed(n)
WithCap(c, cap) == IF kind = "encoder" THEN [c EXCEPT !.encCap = cap]
                                       ELSE [c EXCEPT !.decCap = cap]

\* A call returns: the caller's with a status; the child's ends the region of
\* the call below it, whose bitmap a decoder zeroes unless the block was good.
Return(status, good) ==
  /\ calls' = LET below == Tail(calls) IN
              IF below = <<>> THEN below
              ELSE <<[Head(below) EXCEPT !.zeroed = @ \/ (kind = "decoder" /\ ~good)]>>
                     \o Tail(below)
  /\ region' = NoRegion
  /\ last' = IF Len(calls) = 1 THEN [status |-> status, zeroed |-> Top.zeroed] ELSE last

\* encode_scratch_ensure, decode_scratch_ensure: what the caller gets is an
\* address in a block of this size.
EnsureHeld(cap) ==
  /\ calls' = <<[Top EXCEPT !.held = cap]>> \o Tail(calls)
  /\ holds' = [holds EXCEPT ![Top.level] = "walk"]
  /\ UNCHANGED <<kind, small, region, last>>

MustGrow(l, n) == Need(n) > Cap(l)

Ensure ==
  /\ AtCall /\ Top.held = 0 /\ ~MustGrow(Top.level, Top.n)
  /\ EnsureHeld(Cap(Top.level))
  /\ UNCHANGED <<ctx, heap>>

EnsureGrows ==
  /\ AtCall /\ Top.held = 0 /\ MustGrow(Top.level, Top.n)
  /\ EnsureHeld(Need(Top.n))
  /\ heap' = [heap EXCEPT ![Arena(Top.level)] = Need(Top.n)]
  /\ ctx' = [ctx EXCEPT ![Top.level] = WithCap(@, Need(Top.n))]

\* realloc fails: the old block and its capacity stay.
ContextAfterFailure(l, n) == ctx

EnsureFails ==
  /\ AtCall /\ Top.held = 0 /\ MustGrow(Top.level, Top.n)
  /\ ctx' = ContextAfterFailure(Top.level, Top.n)
  /\ Return("null", FALSE)
  /\ UNCHANGED <<kind, small, heap, holds>>

\* The walk is over.  A child's block is good when it has the region's bytes and
\* length, which a corrupt payload need not.
Finish ==
  /\ AtCall /\ Top.held # 0
  /\ \E good \in BOOLEAN :
       /\ Top.level = 0 \/ kind = "encoder" => good
       /\ Return("ok", good)
  /\ UNCHANGED <<kind, small, ctx, heap, holds>>

-----------------------------------------------------------------------------
\* A nested region: an encoder tries dnPH or snPH on a bitmap in its walk; a
\* decoder meets their marker, before it has its arena when the bitmap of the
\* root goes first.  A decoder's table index is whatever the stream holds.
StartRegion ==
  /\ AtCall /\ Top.regions < MaxRegions
  /\ IF kind = "encoder" THEN Top.fse /\ Top.held # 0 ELSE TRUE
  /\ calls' = <<[Top EXCEPT !.regions = @ + 1]>> \o Tail(calls)
  /\ \/ region' = [stage |-> "nested", form |-> "dnPH", bytes |-> BitmapBytes(Top.n), t |-> 0]
     \/ \E t \in Tables \cup (IF kind = "decoder" THEN {0} ELSE {}) :
          region' = [stage |-> "nested", form |-> "snPH", bytes |-> BitmapBytes(Top.n), t |-> t]
  /\ UNCHANGED <<kind, small, ctx, heap, holds, last>>

\* No inner block after all: the encoder falls back, the decoder zeroes.
GiveUp ==
  /\ region' = NoRegion
  /\ calls' = <<[Top EXCEPT !.zeroed = @ \/ kind = "decoder"]>> \o Tail(calls)

AtStage(stage) == calls # <<>> /\ region.stage = stage

NestedExists ==
  /\ AtStage("nested") /\ ctx[Top.level].nested
  /\ region' = [region EXCEPT !.stage = "table"]
  /\ UNCHANGED <<kind, small, ctx, heap, holds, calls, last>>

\* Mutant: a child may nest as well.
AnyoneMayNest(l) == TRUE
MayNest(l) == ~ctx[l].isChild

NestedRefused ==
  /\ AtStage("nested") /\ ~ctx[Top.level].nested /\ ~MayNest(Top.level)
  /\ GiveUp
  /\ UNCHANGED <<kind, small, ctx, heap, holds, last>>

NestedCreate ==
  LET l == Top.level IN
  /\ AtStage("nested") /\ ~ctx[l].nested /\ MayNest(l) /\ l + 1 \in Levels
  /\ \E fails \in SUBSET (NestedParts(l) \cup ScratchParts(l + 1)
                            \cup {Block(l + 1, "handle")}) :
       heap' = CreateNested(heap, l, fails)
  /\ IF Block(l, "nested") \in DOMAIN heap'
     THEN /\ ctx' = [ctx EXCEPT ![l].nested = TRUE,
                                ![l + 1] = FreshContext(NphMaxN, TRUE)]
          /\ region' = [region EXCEPT !.stage = "table"]
          /\ UNCHANGED calls
     ELSE GiveUp /\ UNCHANGED ctx
  /\ UNCHANGED <<kind, small, holds, last>>

\* The child codes the bytes of the region with a table of the outer layout.
Descend ==
  /\ calls' = <<Frame(Top.level + 1, region.bytes, Top.layout, region.t, FALSE)>> \o calls
  /\ region' = NoRegion

\* The table of dnPH, rebuilt for every region: from the byte histogram (taken in
\* the child's arena), or from the lengths in the stream.  Either may not build,
\* which leaves a table nobody may use.
\* Mutant: the bins of the histogram in the outer walk's arena.
HistogramLevelOuter(l) == l
HistogramLevel(l) == l + 1

DnphTable ==
  LET l == Top.level IN
  /\ AtStage("table") /\ region.form = "dnPH"
  /\ holds' = IF kind = "encoder" THEN [holds EXCEPT ![HistogramLevel(l)] = "bins"] ELSE holds
  /\ \/ /\ ctx' = [ctx EXCEPT ![l].table = Top.layout]
        /\ Descend
     \/ /\ ctx' = [ctx EXCEPT ![l].table = "none"]
        /\ GiveUp
  /\ UNCHANGED <<kind, small, heap, last>>

\* pivco_snph_table: <<>> is NULL, <<built, recorded>> a table built for a layout
\* and the layout recorded for it.
Cached(entry, layout) == entry # <<>> /\ entry[2] = layout

SnphTable ==
  LET l == Top.level
      t == region.t
      entry == ctx[l].snph[t]
      built == <<Top.layout, Top.layout>>
  IN
  /\ AtStage("table") /\ region.form = "snPH" /\ t \in Tables
  /\ CASE Cached(entry, Top.layout) -> Descend /\ UNCHANGED <<ctx, heap>>
       [] ~Cached(entry, Top.layout) /\ t \notin BadTables ->
            /\ heap' = Malloc(heap, Struct(TableOf(l, t)), {})
            /\ ctx' = [ctx EXCEPT ![l].snph[t] = built]
            /\ Descend
       [] ~Cached(entry, Top.layout) /\ t \in BadTables ->
            /\ heap' = FreeAll(heap, {TableOf(l, t)})
            /\ ctx' = [ctx EXCEPT ![l].snph[t] = <<>>]
            /\ GiveUp
  /\ UNCHANGED <<kind, small, holds, last>>

\* No such table, or no memory for it.
NoSnphTable ==
  /\ AtStage("table") /\ region.form = "snPH"
  /\ region.t \in Tables => ctx[Top.level].snph[region.t] = <<>>
  /\ GiveUp
  /\ UNCHANGED <<kind, small, ctx, heap, holds, last>>

Next ==
  \/ \E k \in {"encoder", "decoder"} : Create(k)
  \/ Free \/ Histogram \/ Call
  \/ Ensure \/ EnsureGrows \/ EnsureFails \/ Finish
  \/ StartRegion \/ NestedExists \/ NestedRefused \/ NestedCreate
  \/ DnphTable \/ SnphTable \/ NoSnphTable

Spec == Init /\ [][Next]_vars

-----------------------------------------------------------------------------
ContextType ==
  [live : BOOLEAN, encCap : Nat, decCap : Nat, isChild : BOOLEAN, nested : BOOLEAN,
   table : Layouts \cup {"none"}, snph : [Tables -> {<<>>} \cup (Layouts \X Layouts)]]
FrameType ==
  [level : Levels, n : 1 .. WireMaxN, layout : Layouts, table : Tables \cup {0}, held : Nat,
   fse : BOOLEAN, regions : 0 .. MaxRegions, zeroed : BOOLEAN]

\* Types of the variables.
TypeOK ==
  /\ kind \in {"none", "encoder", "decoder"} /\ small \in BOOLEAN
  /\ ctx \in [Levels -> ContextType]
  /\ holds \in [Levels -> {"nothing", "bins", "walk"}]
  /\ \A i \in DOMAIN calls : calls[i] \in FrameType
  /\ region \in [stage : {"none", "nested", "table"}, form : {"none", "dnPH", "snPH"},
                 bytes : 0 .. NphMaxN, t : Tables \cup {0}]
  /\ last \in [status : {"none", "ok", "null"}, zeroed : BOOLEAN]

\* What the contexts' own pointers lead to.
Owned(l) ==
  IF ~ctx[l].live THEN {}
  ELSE ScratchParts(l) \cup {Block(l, "handle")}
         \cup (IF ctx[l].nested THEN NestedParts(l) ELSE {})
         \cup {TableOf(l, t) : t \in {u \in Tables : ctx[l].snph[u] # <<>>}}

\* Whatever fails and in whatever order, nothing leaks and nothing owned has
\* been freed: the live allocations are the ones the context's pointers lead to
\* (scratch_create, pivco_nested_for_encoder, pivco_snph_table, scratch_free).
HeapIsOwned == DOMAIN heap = UNION {Owned(l) : l \in Levels}

\* A recorded capacity is the size of the block it belongs to, also after a
\* growth that failed; the next call relies on it (encode_scratch_ensure,
\* decode_scratch_ensure).
CapsAreTrue ==
  \A l \in Levels : ctx[l].live =>
    heap[Block(l, "enc")] = ctx[l].encCap /\ heap[Block(l, "dec")] = ctx[l].decCap

\* While a call runs, the arena it took its pointers from is large enough, has
\* not moved, and holds nothing but the call's own data, whatever the regions it
\* codes through the child have done.
WalkUndisturbed ==
  \A i \in DOMAIN calls : LET f == calls[i] IN f.held # 0 =>
    /\ Need(f.n) <= f.held
    /\ heap[Arena(f.level)] = f.held
    /\ holds[f.level] = "walk"

\* The bins of a histogram fit in the tail of the encode arena of every encoder
\* there is (pivco_histogram).
HistogramFits == \A l \in Levels : ctx[l].live => HistScratch <= ctx[l].encCap

\* As long as an inner block is being coded, its table is there and is one built
\* for the layout of the outer table, though the static ones are cached across
\* calls with other tables and dnPH's is rebuilt for every region
\* (pivco_snph_table, codec_dnph_compress, codec_dnph_decompress).
InnerTableFitsOuter ==
  \A i \in DOMAIN calls : LET f == calls[i] IN f.level > 0 =>
    IF f.table = 0 THEN ctx[f.level - 1].table = f.layout
    ELSE LET entry == ctx[f.level - 1].snph[f.table] IN entry # <<>> /\ entry[1] = f.layout

\* A payload nests one level: a child never has a child, whatever a stream says
\* (pivco_nested_for_decoder).
OneLevel == \A i \in DOMAIN calls : calls[i].level <= 1 /\ ~ctx[1].nested

\* What pivco_nph.c says of a table that cannot be had: the caller falls back or
\* reports corruption.  So a decode that returns PIVCO_OK zeroed no bitmap.
FailureReported == last.status = "ok" => ~last.zeroed

\* The heap and the contexts' record of it agree.
HeapSound == TypeOK /\ HeapIsOwned /\ CapsAreTrue

\* Whoever works in an arena has it to himself and has room in it.
ArenasSound == WalkUndisturbed /\ HistogramFits

\* Memory is owned once, as large as recorded, and used by one walk at a time.
MemorySound == HeapSound /\ ArenasSound

\* A nested region is coded one level down, with a table of the outer layout.
NestingSound == InnerTableFitsOuter /\ OneLevel
=============================================================================
