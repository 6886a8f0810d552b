# TLA+ models of PivCo-Huffman

PivCo-Huffman stores a Huffman-coded block not as one code after the other but
by tree node: every inner node of the code tree carries one bit per symbol that
passes it (which child it goes to), and a decoder merges the children of a node
bottom-up with SIMD kernels. This directory holds TLA+ models of the codec, TLC
instances that check them, and TLAPS proofs.

Contents: 1 the system, 2 the modules and the code they model, 3 the runs and
their bounds, 4 the proofs, 5 where code and documentation disagree, 6 what is
not modelled, 7 the plan, 8 how to run everything.

## 1. The system

All of it is sequential C. A caller owns a context; no call returns before its
work is done and no state is shared by threads. What is hard is therefore not
scheduling but *agreement* (two walks, two table builds, the kernels of five
instruction sets, encoder and decoder of a file, each deriving the same thing
from different data, with nothing on the wire to resynchronise them), *reuse of
memory* (buffers that hold everything a recursion, a partition or a tournament
needs, in place) and *loads and stores that are wider than their data*.

| Component | Source (`src/src/`) | State | Operations | Modules |
|---|---|---|---|---|
| Decode walk | `pivco_huffman_codec.c` 900-1296 | recursion, `(out, tmp)` of each activation, the arena | enter, decode a leaf region, decode a child, merge | `DecodePlacement` |
| Both walks and the wire | `pivco_huffman_codec.c` 628-1296, `pivco_huffman_wire.h` | `ranks`, `tmp`, `region_buf`, markers, stream pointer | partition, recurse, emit; read, recurse, merge | `BlockCodec`, `BlockTransfer` |
| Coding of a region | `pivco_huffman_codec.c` 150-620, readers | staging halves, best so far, statistics | try, gate, swap, commit, unpack | `RegionCoding` |
| Bitmap coders | `pivco_k1.c`, `pivco_k2.c`, `pivco_fse.c`, `fse_xy_codec.h` | states, bit container, cursors | encode, decode | `BitContext`, `CursorFse` |
| Contexts | `pivco_huffman.c`, `pivco_huffman_common.h` | arenas, child contexts, table cache | create, grow, lend, reuse, destroy | `Contexts` |
| Table from frequencies | `huffman_table.c` 22-483 | two queues, length counts, Kraft sum | merge two, clamp, lengthen, shorten, deal | `CodeLengths` |
| Joint pass | `joint_lengths.c` | planes of the dynamic program, trail | group, sweep, backtrack, deal, adopt | `JointLengths` |
| Tables from lengths | `huffman_table.c` 485-1304 | chunks, schedule and rank cursors | sort, recurse, refuse | `TableDecode`, `HuffmanTable` |
| Shake pass | `shake_lengths.c` | candidates, prices, set of priced lengths | move, price, drop, pick | `ShakeLengths` |
| File codec | `pivcohuf_file.c` | table in force, `table_pending`, offsets | compress, decompress, bound | `FileCodec` |
| Kernels | `pivco_huffman_primitives_*.h`, `*_flat.h`, `*_pack.h`, `*vertical.h` | registers, cursors | merge, partition, count, pack, unpack | `MergeKernel`, `PartitionKernel`, `ByteHistogram`, `FlatKernel`, `VerticalKernel` |
| Traditional coder | `traditional_huffman.c` | 64-bit window, stream pointers | write, refill, look up, one stream or four | `TraditionalHuffman` |

How they interact: a file's segment gets lengths from a table build (shaken or
bent first, if the effort asks for it), both sides build tables from those
lengths, each block goes through the two walks, a walk calls the partition or
merge kernels per node and hands each node's bitmap and each flat region to the
region coder, which tries the bitmap coders; two of those (`dnPH`, `snPH`) encode the region
as a block of its own in a child context. The context owns every buffer of this.

Hard behaviours, component by component (each hazard is listed with its line and
the properties that answer it in `PROJECT.json`):

* *Decode walk.* Two buffers suffice for any tree because the larger child is
  decoded into the tail of its parent's output and merged forward over itself,
  and the smaller child's subtree borrows the prefix that is still empty:
  `ChildrenSurvive`, `BlockDecoded`, `ScratchSuffices`, `SymbolsExact`.
* *Both walks.* No record names its node. Order (larger child first, ties left),
  form (bitmap before or behind the children, depending on KrT) and content are
  derived on both sides: `WalksAgree`, `TransferSpec`; the encoder's own two
  buffers: `EncodeScratch`.
* *A region.* Seven coders compete through two halves of one staging buffer that
  are swapped when a candidate wins; the winner overwrites the raw region it was
  made from; the decoder has one marker byte and a layout to undo it:
  `BestCommitted`, `RoundTrip`, `InStep`, `CountersAgree`.
* *Bit streams.* Several states or cursors share one stream, read backwards by
  the decoder, through a word that is reloaded as rarely as the bounds on a
  symbol's bits allow; the last states may overrun: `TablesSound`,
  `IntactDecodes`, `StatesSafe`, `CursorsDecode`, `TraditionalSound`.
* *Contexts.* Any allocation may fail; the outer walk holds pointers into an arena
  while the child context works; the histogram borrows the encode arena; cached
  tables outlive the call they were made for: `MemorySound`, `NestingSound`.
* *Lengths.* Two queues replace a heap, the limiter counts by depth in 64 bins and is a greedy
  pair of loops with two escape breaks, the joint pass prunes and reuses its planes: `TwoQueues`,
  `BinsSuffice`, `LimiterSound`, `CheapestShape`, `LengthsKeepSound`.
* *Tables.* The decoder's one recursion never sees a code. It has to accept exactly the
  complete ones (`VerdictRight`) and come to the schedule of the encoder's quite different
  build, of whatever lengths the encoder makes (`SameTables`).
* *Shake pass.* Prices live in an array all candidates share and screened steps
  fill in part; candidates drop out of the race: `PricesAreTrue`, `LeadersRace`,
  `RaceRules`, `ResultDue`.
* *Files.* A segment may keep the table of an earlier one, the flag for a new
  table travels with the next block: `TablesFit`, `RoundTrip`, `OnlyCutRefused`.
* *Kernels.* Registers are wider than what is left, stores end in junk that the
  next store must cover, counters have eight bits, margins differ by engine, and a
  build compiles one engine only: `MergeSound`, `SplitSound`, `HistogramSound`,
  `FlatSound`, `VerticalSound`.

Several of these names are conjunctions of named parts, each with its own comment in
the module (`MemorySound == HeapSound /\ ArenasSound`); they are checked together
because they are asked of the same instance.

## 2. The modules

A name in a module is the name in the code wherever TLA+ allows it; `map` in
`PROJECT.json` gives the lines of every definition. Mutants (definitions that a
comment marks as such) are plausible bugs; each property fails under at least
one of them. Components that run one after the other in the code are composed by
`EXTENDS`: `Tables` (lengths, joint pass, both builds), `BitStreams` (the coders of
one bit stream) and `Kernels` (the kernels of a block) hold nothing but the hand-over
from one to the next, or the choice of one call while the others are at rest.

### DecodePlacement (`codec_decode_subtree`, `CODEC_DECODE_ENTRY`)

An explicit stack of activations over one address space: the arena from 0 and
the caller's `symbols` below 0. A cell holds `<<rec, j>>`, "the j-th symbol the
subtree of `rec` decodes to", or `Stale`. A leaf region writes its cells; a merge
that reads the cell it expects writes its own, one element per step, and anything else
writes `Stale`. So a property about content (`BlockDecoded`) follows from nothing
but placement. The stream does not appear: the split of a node is any number from
0 to K. The arena is stale at the start of every block. The entry function inlines the
root with placements of its own; `AtRoot` selects them in `FirstOut`, `FirstTmp`,
`SecondOut` and `SecondTmp`. Memory may run out: `Refuse` is the error return of a root
without arena or region buffer, `SkipRegion` the walk that goes on past a flat region it
could not expand, whose cells keep what they held; `outcome` records which it was. The in-place merge is the scalar one; that the vector
merges do the same on the same buffers is `MergeKernel`.

### BlockCodec and BlockTransfer (both walks, `pivco_huffman_wire.h`)

One block goes through the encode walk, the stream and the decode walk. Each walk is
a stack of pending calls, first one at the head, so that the order of records is that
of the calls. The encoder's `ranks` and `tmp` are one array `mem`, with the real
offsets, because a pending node's ranks wait there while its sibling's subtree
partitions. The stream is a sequence of records; each of `DecodeFlat`, `DecodeInner`,
`ReadBitmap`, ... has reading exactly the record it needs as its guard. A decoder that
derives another record than the one at the head is stuck: `InStep` fails, and so does
liveness. Per region the outcome of `codec_fse_try` is a nondeterministic choice.
`BlockTransfer` is what a caller sees: a block is sent, the same block arrives, and one
that was sent does arrive. `BlockCodec` implements it with `sent <- word` and
`received` the value of the finished walk. A schedule is any that satisfies `SchedOK`: a
preorder in 8-bit fields (`Preorder`) whose `param` separates the children's ranks
(`Ordered`) and whose codes are no longer than `MaxLen` (`Shallow`). `RanksOf` and `Kept`
(the partition loop) are recursive functions in the form of nested `IF`s: the prover does
not translate a recursion inside a `CASE`.

### RegionCoding (`codec_fse_try`, its callers, the region readers)

The choice that `BlockCodec` leaves open. One region with its sizes goes through the
candidates in the code's order, with their size thresholds, speed gates and flips; a
payload is the coder that made it, what it was made from and a length. The two
staging halves, `best`, the swap, the copy into the stream, the repacking of a flat
region between its layouts, the statistics and the readers with their failures are
modelled as they are; what a coder returns is any of a set of lengths, or a refusal.

### BitContext, CursorFse, TraditionalHuffman, BitStreams

The coders in full. `BitContext` builds the encoder's and the decoder's tables of a
k1 or k2 recipe, encodes a region in interleaved segments and decodes it, from an
intact or from a damaged payload. `CursorFse` is the wide FSE encoder and decoder
templates (`encode_x`, the x2..x16 shapes, the nibble decoder): which cursor owns
which symbol, when the container is flushed or reloaded, where the body ends and the
tail begins. `TraditionalHuffman` has the writer, both refills, the table lookup and
the loops of one stream and of four. What lies beyond the ends of a stream is any bit.

### Contexts (`pivco_huffman.c`, `pivco_huffman_common.h`)

A heap of owned allocations, each with its size; every allocation may fail. Actions are
the calls on a context (create, encode, decode, histogram, destroy) and, during a walk,
the regions that need a child context, a staging buffer or a cached table. Sizes are
the program's in bytes, so that every threshold lies where it does.

### CodeLengths, JointLengths, TableDecode, HuffmanTable, Tables

`CodeLengths`: `Gather` and `MergeTwo` are the two queues with the code's tie-breaks,
`Depths` the top-down pass; the limiter is `Clamp`, one `Lengthen` or `Shorten` per
loop turn with their exits (the breaks included), and `Deal`. The limiter counts lengths in
`Bins` bins (`int count[64]`); `Clamp` gives the counts of lengths that all have a bin, and
any counts at all when one has none. `Countable` frequencies, whose total is below
Fib[Bins + 2], never come to that (`BinsSuffice`). With 64 bins that is 27777890035288
occurrences; the code checks no total, so what is checked and proved of lengths is so of
totals below it. (Above it a leaf of depth 64 does exist, from 34335360355129 on: 66
symbols occurring 1, 1, 1, 1, 1, 4, 6, 10, 16, 26, ... times; its length would be counted past the end of
the array.) `JointLengths`: frequencies that saturate (`Weight`), the
grouping of symbols by effort, the dynamic program's sweeps row by row over one plane
with band, caps and pruning, `Backtrack` over the recorded trail, the deal, and the
guard. `TableDecode`: `Gen` is `dc_gen`, its activations a stack (take a chunk at its
depth, open a node, go right, close it, refuse); a chunk's depth is the byte the code keeps
it in, which wraps where a length has more symbols than codes. `HuffmanTable` has the
encoder's build (`BuildTableFinish`) as an operator.
`Tables` strings them together, and also gives the decoder's build every vector of
lengths that a stream could hold.

### ShakeLengths (`shake_lengths.c`)

Kraft-preserving moves on candidates, the filter of lengths already priced (by hash, in
a set of bounded size), screened and full pricing block by block in the shared array,
the halving of the race, the pick, and every early return. What a block costs is a
constant function, so that the properties hold for any.

### FileCodec (`pivcohuf_compress_impl`, `pivcohuf_decompress_impl`, the bound)

One action per turn of the compressor's loop: `KeepTable`, `FirstTable` or `NewTable`
at a segment boundary, `EncodeBlock` otherwise; `FailCompress` and `FailDecompress`
are the returns after a call that fails. Blocks carry the code lengths they were
encoded with; decoding under other lengths gives `Garbage`. `LoseTail` is not in the
code: between the calls storage may lose the end of the file.

### Registers, MergeKernel, PartitionKernel, ByteHistogram, FlatKernel, VerticalKernel, Kernels

A register is a function from lanes to what each holds: the child's side and position, the
rank's index, the byte. A step loads, shuffles by the kernels' own index tables and
stores whole registers, also the lanes that are junk. `MergeKernel` and
`PartitionKernel` have the step widths of the four backends, NEON's load-ahead
and the tails. `ByteHistogram` has bins, bursts, the carry-save adders, the eight-,
sixteen- and 32-bit counters at reduced widths. `FlatKernel` keeps the stopping
condition of each loop of each pack and unpack kernel at its real constants and
abstracts shuffles to the bytes they touch. `VerticalKernel` has the block layouts of
flat regions: the gates, the span computation and every engine's kernels with their literal
shifts and masks. A bit is the set of code bits it is the union of, so that a bit a 16-bit
shift lets in from the neighbouring lane shows; a symbol lookup is the index bits it
consults. The ymm kernels have the literals of the zmm kernels (they were compared
one by one) and NEON's inserts have their shifts, so one table of rows serves all three.

## 3. The runs

| Run | Distinct states | Instance | What it shows |
|---|---|---|---|
| `decode_placement` | 537k | blocks of 1..8 symbols, five schedules; every split of every node, memory running out anywhere | no decoded child is overwritten, the arena's bounds hold, the block is decoded or the failed region alone is wrong |
| `block_codec` | 537k | blocks of up to 4 symbols over five schedules, KrT 0, 2, 4, FSE on and off, every outcome per region | the walks agree; the codec implements `BlockTransfer` |
| `region_coding` | 1518k | ten kinds of region, four sets of enabled coders, lengths around every gate | the best candidate that passes its gate is committed and undone |
| `bit_streams` | 334k | see below | an intact payload decodes whatever lies past its ends |
| `padding_suffices` | | the same | finding 3 (violation expected) |
| `contexts` | 299k | six block sizes around every size threshold, two tables, one of them bad, two regions a block | nothing leaks or moves under a walk; cached tables fit |
| `contexts_zeroed` | | the same | finding 2 (violation expected) |
| `tables` | 154k | see below | optimal, then limited within the limiter's bins, then bent lengths; exactly the complete codes are accepted, and on those both builds agree |
| `rare_shorter` | | the same, plain effort | finding 1 (violation expected) |
| `shake_lengths` | 40k | four symbols, three blocks, four starts, set of three priced lengths | prices stay true, the cheapest comes back, every call returns |
| `file_codec` | 115k | every file of up to six bytes over three values and of eight over two, blocks of 2, `seg_blocks` 0, 1, 2 | tables, flags, bound, truncation |
| `kernels` | 1119k | see below | every kernel yields what the scalar code yields, within its memory |

Why the bounds are enough:

* *decode_placement.* A clash needs a larger child, a smaller one with a subtree
  that partitions again, and an odd K somewhere: depth 4 and K up to 8 give every
  parity and every order at three nested levels. The theorems hold for all sizes.
* *block_codec.* With N up to 4 both orders and the tie occur at two nested
  levels, children become empty, KrT lies below, between and above the node
  sizes, and flat regions of two and of three bits occur. The raw region of a
  naturally packed table cannot be told from a coded one, so the instance has only
  tables of another layout. Two blocks follow each other (`NextBlock`).
* *region_coding.* The candidates meet only through the best length so far and the
  half that holds it, so a few lengths on each side of each gate give every order of
  wins. Thresholds are the program's, but for the k=1 coder's, which a build may lower.
* *bit_streams.* Bytes of 3 bits and tables of 16 states; three segments with a short
  last one; a word of 12 bits for which two symbols between flushes are the most that
  fit; bodies shorter than, as long as and longer than the cadence; counts just below, at
  and above half the table, where a symbol of zero bits appears. Traditional: bytes of
  2 bits, windows of 8, a code with every length up to 3, inputs below one turn of the
  four-stream loop and beyond it.
* *contexts.* A block size on each side of each threshold: one symbol, the probe cap,
  the encoder's preallocation, the largest the wire can say.
* *tables.* Seven occurring symbols make trees of six levels; clamping to 4 bits moves
  four leaves, the first loop overshoots and the second is entered; with a heavy symbol above
  nine light ones (`Lopsided`) the overshoot is more than one turn of the second loop makes good,
  and its second step is taken. The limiter
  has twelve bins instead of 64, and `Deep` has the least frequencies whose tree fills the last
  one (thirteen symbols on one spine, a total of 287 where Fib[14] is 377), and their neighbours. The joint
  pass gets two to eight symbols of weights 1, 4 and from 30 up, which saturate at 24, codes of at most 4 bits, flat
  chunks of at most 2^3, prices in tenths of a bit so that they are integers, kappa 0 as the
  library sets it, and a guard whose time model is any; the outcome "no shape" of
  `Backtrack` never occurs with feasible inputs. Vectors: all of five symbols with lengths up
  to one too long, and all growing ones of eight symbols.
* *shake_lengths.* Four candidates halve twice; the set fills up; one pair of
  lengths does not encode in one block; zero steps, an unused symbol and a failing call occur.
* *file_codec.* Eight bytes are four blocks and at two blocks a segment two segments;
  at one block a segment a table can be kept, switched and kept again. A table costs
  one bit here instead of 1024, so that both outcomes of the keep test occur.
* *kernels.* Registers of four lanes (mask bytes of two bits) keep two widths of steps
  and a tail on 11 and 15 elements; bins of two morsels with counters that wrap at 8 fill,
  burst and carry within 150 bytes; the flat kernels are at their real constants up to 210
  codes, two turns of the widest loop and every remainder; vertical groups have two
  lanes, since a 16-bit shift joins no more than a pair, and region sizes are one
  narrow block and one wide block with and without what follows.

*Deadlock.* It is checked in `decode_placement`, `block_codec`, `file_codec`, `contexts`,
`tables` and `kernels`. In `kernels` it is the termination check: only a kernel that has
come to the end of its data may stutter (`CallOver`), so a residue that no loop takes is
a deadlock. `region_coding`, `shake_lengths` and `bit_streams` model one call that returns and
stop there.

*Fairness.* The code is one thread that runs a call to its end, so a specification has
weak fairness of the steps of a call (`Step`, `Compress \/ Decompress`, `MakeLengths`,
`Reconstruct`, the shake's `Next`) and none of the caller: whether another block or file
comes, whether storage loses a tail, and whether a call fails is never assumed. In `Tables`
the joint pass's step is named by its guard (`Onward`), which every one of its steps
changes. The liveness properties say that a call that was started returns; in `BlockCodec`,
that a block that was sent arrives.

## 4. The proofs

| Module | Theorems | For every |
|---|---|---|
| `DecodePlacement_proofs` | `Invariance`, `TypeCorrect`, `ChildrenAlwaysSurvive`, `DecodeCorrect`, `ArenaSuffices` (the code's "2 N" comment), `HighWaterMark` ("1.5 N"), `ScratchAlwaysSuffices`, `SymbolsWrittenExactly` | block size and set of well-formed schedules |
| `RegionCoding_proofs` | `TypeCorrect`, `RegionRoundTrip`, `RegionInStep`, `RegionNeverGrows`, `ShortestWins`, `BestIsCommitted`, `CountersAlwaysAgree` | region, table, set of enabled coders and outcome of the coders |
| `Lengths_proofs` | of the shake pass: `TypeCorrect`, `LeadersStay`, `PricesStayTrue`, `FrozenAlways`, `CodeAlwaysComplete`, `RaceInvariant`, `RaceRuled`, `CheapestAlways`, `CallerSafe`, `ResultIsDue`; of the lengths from frequencies: `QueueStaysSorted`, `BinsAlwaysSuffice`, `CodesComplete`; of the decoder's build: `AcceptsCompleteCodes`, `BuiltLengthsAccepted` | alphabet, block costs, hash, number of blocks, starts and steps; alphabet, longest code and countable frequencies; lengths |
| `Kernels_proofs` | `FlatReadsBounded`, `FlatPacked`, `FlatSafe`, `MergeCorrect`, `SplitCorrect`, `HistogramCorrect` | engine, depth and region length; backend, register width, bitmap, routing, form and node length; input of bytes, alignment, sizes of bins, buffers, bursts, counters and chunks |
| `BlockCodec_proofs` | `WalkInvariant`, `ScratchSuffices`, `WalksAgreeAlways`, `TransferSafety` | set of schedules, blocks, thresholds, layouts and outcome of every coding attempt |
| `Contexts_proofs` | `ContextInvariant`, `MemoryIsSound`, `NestingIsSound` | buffer sizes, set of tables and layouts, block sizes and pattern of failing allocations |
| `FileCodec_proofs` | `FileInvariant`, `FileRoundTrip`, `FileOnlyCutRefused`, `FileCodable`, `FileTablesFit` | input, block size, segment policy, table size and table build that gives every byte that occurs a code |

The arguments:

* *Decode walk.* None of the safety properties is inductive: `ChildrenSurvive` alone
  says nothing of what a deeper activation is about to write. `IInv` adds `Progress` (a
  split within K, cursors in range), `Placed` (below the root an activation's `out`, K
  cells, and `tmp`, K/2 cells, are disjoint and within the arena), `Waiting` (the stack
  is a chain of calls, each where its caller's split puts it), `Nested` (what an
  activation owns is owned by all its callers and holds none of the cells they still
  have to read; this is the heart) and `MergedPrefix`. Why K/2 cells of `tmp` are enough
  is the arithmetic of `FirstPlacement` and `SecondPlacement`. What is proved of contents holds
  unless a region was skipped for want of memory, what is proved of placement always. The only assumption is that
  a schedule has the records it refers to.
* *Both walks.* Three facts are proved at once, because each needs the others.
  `OrderOf` is the order of the records that schedule, block and KrT determine. A state of a
  walk is a pair, the records still to come and the buffers decoded so far; `Link` says what
  one pending call does to such a pair from its start to its end, `Leads` the same of
  a stack of calls. The invariant `WalkInv` says that the pending calls lead from what is
  left to the end of the block: for the encoder, that the stream and what the calls will
  still write are the order (`Encoded`); for the decoder, that the stream is what the calls
  will read, and that they end with the block as the only buffer (`Decoded`). Replacing
  a node by its header, bitmap and children preserves `Leads` (`PushedLead`, `OpenedLead`),
  which is where a tie that goes right on one side only would break the proof. That a merge
  undoes a partition is `MergeFull` and `MergeLeaf`, by counting (`KeptCount`); that the
  marker prefix is read back is `MarkersRead`. For the encoder's memory every pending node
  is `Ready` (its cells hold the symbols below its record) and any two pending calls are
  `Apart` (their cells are disjoint and the later one's lie below the `tmp` of the earlier, which
  partitions into it; their ranks are disjoint); a call's `tmp` is at most the block times one
  more than its depth, from which `TmpSuffices` follows. Assumed of the constants are
  `SchedsAssumption` (`SchedOK`, what the table builds guarantee), `NumbersAssumption` and
  `WordsAssumption` (a block is not empty, at most `MaxN` long and made of the root's ranks).
* *Contexts.* `ContextInv` says that what the two levels of contexts own is exactly the heap
  (so a leak and a use after release are the same violation), that capacities are what was
  allocated, that at most two calls are in progress, the second one the child's, and that a
  region belongs to the innermost call. Each kind of change of the heap (a context created
  or not, an arena grown, a child created, a table set, a level freed) has one lemma that says
  what it adds or takes and that it touches nothing else. Assumed are that the sizes are
  numbers and the bins fit the probe's arena (`SizesAssumption`), that blocks fit the wire
  (`BlocksAssumption`) and that tables are numbered from 1 (`TablesAssumption`).
* *Region.* The invariant ties the half that holds the best payload to the halves the
  remaining candidates may write, and the best length to the set of results so far; the
  tournament lemma is an induction on the candidates tried, by the steps of the machine.
  `Counted` says that the best so far was counted as a try and that the counters of commits
  are zero until a choice is made and one in one slot from then on.
* *Shake.* The shared price array is the difficulty: the invariant says which part of it
  belongs to which candidate at each step of pricing. That a leader is never dropped needs
  the candidates' number and their set to agree (`FiniteSetTheorems`). A swap, a split and a
  join leave the Kraft sum alone because they shift halves of two or three shares
  (`MovesKeepCode`, from `SumTwo` and `SumThree`). `Halved` bounds the candidates before round
  r by 2^(Rounds - 1 - r): there are rounds enough (`RoundsEnough`) and a halving that
  rounds the number kept up still halves the power. `Spent` adds to the steps made what the
  candidates still ahead in the round may make; a turn that ends or a candidate that is out
  takes from one side what it leaves on the other. Assumed is that the alphabet is finite.
* *Lengths from frequencies.* `LengthsSpec` is one call of the length builder, from any countable frequencies
  (a total below Fib[Bins + 2]).
  `BuildInv` goes phase by phase. While the tree grows (`Merging`), every node is either
  queued or has a later parent, and every inner node two children; a turn takes two heads
  (`HeadTaken`) and makes their parent. The nodes whose parent comes later than k, weighted by
  their depths, fill the code space for every k from the root down (`LeavesFill`), so the leaves do:
  the code is complete at any depth (`DepthsFill`), and if no leaf is too deep that is all
  (`ShallowComplete`). Queues stay sorted because some weight m separates them (`Apart`): nothing
  queued is lighter and no inner node heavier than 2 m; the head taken is the lightest of both
  (`HeadLightest`).
  That a length has a bin (`BinsAlwaysSuffice`) is the Fibonacci growth of weights up the tree: a
  node's uncle was still queued when the node was taken, so it weighs no less (`Weighed`,
  `WeightsKept`), and a grandparent weighs at least what node and parent do together
  (`MergedWeights`). Up from a leaf of depth Bins this makes Fib[Bins + 2] at the root
  (`DeepIsHeavy`), which is more than all frequencies together (`DepthsBinned`).
  Otherwise the limiter's sum starts at or above the target, by less than the codes it has of
  the longest length, because each clamped leaf adds less than one unit (`ClampBooks`).
  `Near` keeps that distance, above or below: lengthening a code changes the sum by a power of
  two which divides what is left of the excess once the codes of the longest length are taken out
  (`KraftParts`), so there are more of them than the step is large and an overshoot stays below
  their number (`LengthenNears`). The break
  that "shouldn't happen" never does: with nothing left to lengthen the sum is the number of codes,
  which the alphabet bounds (`KraftFloor`). A gap smaller than the codes that can fill it is
  closed exactly, so the second loop's break is never taken (`ShortenFits`, `ShortenedFull`).
  The deal cuts the places of the symbols into stretches as long as the counts say
  (`LengthsCut`), which gives every length as often as the books do (`DealCompletes`).
  Assumed are a finite alphabet (`AlphabetAssumption`) that fits (`LimitAssumption`), more bins
  than a code has bits (`BinsAssumption`) and, as a guard of the call, a countable total.
  `CodesComplete` ends where the joint pass starts; `Tables` checks the property behind it, too.
* *The decoder's build.* `DecodeSpec` is one call of it, on any lengths at all. The argument is
  the sharing out of the code space. A chunk that is taken uses what its depth is worth
  (`Places`), an open call of `dc_gen` is owed what its own depth is worth, and one that has come
  back from its left child the right half (`Owed`); `Balance` says that what the taken chunks use
  and the open calls are owed is always the whole space. When the recursion returns nothing is
  owed, so the lengths taken fill the space, and they are all the lengths iff no chunk is left
  (`FinishesRightly`). When a call finds no chunk, something is owed that the lengths do not have;
  when it finds a chunk above it or is itself too deep, the lengths are no code, because
  `NoneSkipped` keeps the next chunk of the sorted row at or below the call that looks at it
  (`RejectsRightly`). That the chunks of a row use what the lengths do is
  `ChunksTakeTheCode`: the bits of a count make up the count (`BitsMakeUp`), and a depth that a
  byte cannot hold belongs to no complete code (`DepthWraps`, `RowIsChunked`). A lone leaf is
  never a right child: that call begins behind a chunk at least as deep, and of two chunks of one
  depth the stable sort has the longer length, which is no lone leaf, last. `TablesSpec` puts
  the length builder before the build; `BuiltLengthsAccepted` needs of it only that lengths which
  are done change no more (`Together`). Assumed are an alphabet of at most 256 symbols and lengths that
  fit a nibble (`WidthAssumption`).
* *Flat kernels.* Each loop's stopping condition is weighed against its registers' reach
  once (a finite table); the invariant then says where in the region a loop can be: on a
  whole byte, with the margin its predecessors left.
* *Merges.* `MergeInv` says what every cell of the node's buffer holds: behind the merge the
  symbol the bitmap routes there, before it what it held at first, the larger child in its
  tail. So a register loaded from that child at its cursor is whole (`Intact`), because the
  merge never gets ahead of it (`Cursors`), and the store that follows lies behind it. That the
  index tables pick the right lanes is `X86Picks`, `NeonPicks` and `ExpandPicks`, from the
  positions of ones and zeros in a mask; `RegisterLane` carries them to the bitmap by counting
  (`OnesJoin`). How far a register reaches past its child's end is `ReachBounds`.
* *Partitions.* `SplitInv` says that the ranks taken so far are at the front of their side's
  buffer, each at the count of those before it (`SideFirst`), that the ranks not yet loaded
  are untouched (`Ahead`), that a set loaded ahead is the next one (`SetAhead`), and which bits
  of the bitmap are already clear (`BitsSoFar`). Every table of every backend packs one side of
  a chunk (`CombPacks`, `PackedRPacks`, `CompressedPacks`, together `RowsPack`); a chunk starts
  at the count of its side so far (`ChunkStarts`). `ChunksPack` is the heart: the stores of a
  step overlap, and the last one to a cell is the one whose rank belongs there, because a later
  chunk starts behind the ranks of an earlier one (`ChunkLater`), and none reaches past the
  ranks the step has loaded. The padding is clean because the tail clears a byte when it
  enters it, and vector steps take whole bytes (`WholeBytes`).
* *Histogram.* `Exact` says nothing of the middle of a round, so `HistInv` adds a `Ledger`: a
  byte passed is in the result, in its bin's wide counter or in its bin's buffer, and what is
  not in the result is of this round, which is shorter than a wide counter's modulus. While
  a bin is counted, `TreeHolds` equates the cells its vectors covered with what the planes
  weigh and eight times the narrow and wide counters; a full adder keeps that weight
  (`Adds`, from two half adders; `TreeAdds`), and a narrow counter gets at most one carry a
  lane and vector of a burst (`TreeShape`), so it does not wrap. `RowHolds` counts a
  compressed vector by the places of its bytes, `RowsStored` shows that it disturbs no cell
  in use, of its own bin or another. Assumed are the divisibilities and bounds of the sizes
  (`CountAssumption`), an offset within a vector (`OffsetsAssumption`) and that an input is
  made of bytes (`InputsAssumption`).
* *File.* The records alone must tell the decoder its table: `Records` says that each
  record's table is the one its flag brings or, without a flag, that of the record before,
  and `Encoding` that an unflagged table of the encoder is the one in force; from both,
  `Decoding` follows the decoder's table through the file. `Segment` keeps a segment's end
  on a block boundary, so that no block outgrows the segment its table was built for. The
  hypothesis `BuildCodes` is, for blocks whose frequencies are countable, what `CodesComplete` proves of the lengths,
  `BuiltLengthsAccepted` of the decoder's build of them and `SameTables` checks of the table;
  `MCFileCodec` evaluates it for the build the run uses.
  For the two bounds of `TablesFit`, `FitInv` says that while the encoder is in segment s it
  has made at most s tables, one it still owes included, and has spent at most what s fresh
  tables and their segments cost. A kept table is one the code found no dearer than a fresh
  one; that its estimate from the histogram is what the blocks of the segment then cost is
  `HistogramBits` (a histogram's bits are its bytes' bits) and `BlockRun` (the blocks of a
  segment are a run of its bytes). Sums are `SumOver` of `FiniteSums`, so the alphabet is
  assumed finite; the counts of blocks and segments are rounded divisions (`BoundCounts`).

Recursion over data: the library's induction theorems take an operator as a parameter, which
the provers cannot instantiate. `SetInduction` in `BlockCodec_proofs` gives induction the form of
a set that holds 0 and the successors of its members; the recursive functions of that
module are unfolded with it (`KeptUnfolds`, `RanksUnfold`, `OrderUnfolds`). `FiniteSums` does
the same over subsets of a finite set: the sums of `MapThenSumSet` exist (`SumExists`), do not
depend on the order their elements are taken in (`SumTakes`), agree where their terms do
(`SumAgrees`), can be grouped by a feature of the elements (`TotalByFeature`) and renamed
(`TotalRenamed`); powers of two are counted as subsets of an interval (`PowerDoubles`).

Only model-checked: liveness, also that of `BlockTransfer` (`TransferSafety` is its initial
states and steps; fairness is out of the prover's reach), what `RECURSIVE` operators compute
(`BuildTableFinish`, so that the decoder's table is the encoder's, where `AcceptsCompleteCodes`
proves that there is one; optimality over all codes and shapes: of `TwoQueues` only the order of
the queues is proved), what the joint pass leaves of the lengths, and the
modules without a `_proofs` module (of the kernels: the vertical layout).

## 5. Where code and documentation disagree

With a run that shows it:

1. *Rarer, but shorter* (`rare_shorter`). The comment in `limit_code_lengths` promises the
   shortest lengths to the most frequent symbols. It deals them by clamped length and then
   by symbol value; among clamped symbols frequency no longer counts. The code stays
   complete; a few bits are lost.
2. *A region that cannot be decoded* (`contexts_zeroed`). `pivco_nph.c` 110-111 and
   `docs/FSE-V0.md` 257-259 have it reported as corruption; the reader zeroes the bitmap and
   the block is returned with `PIVCO_OK`.
3. *Eight bytes of padding* (`padding_suffices`). The comment at `traditional_huffman.c` 32-33
   calls the eight-byte load always safe with eight bytes behind the stream. Once the pointer
   has run into the padding the next load goes beyond it. The symbols are right all the same.

Seen while modelling, without a run of their own:

* A lone symbol is accepted at any length; `pivco_huffman.h` 558-559 says lengths that are
  not a complete code are corrupt (`RejectsIncomplete` excepts it).
* The last block of a file is encoded at its own size; `pivcohuf_file.h` 77-80 says the
  encoder pads it.
* The preallocated encode arena serves blocks of up to 61187 symbols and then grows, contrary to
  `pivco_huffman.h` 435-437.
* A region that is not committed counts in the statistics although
  `pivco_huffman_codec.c` 409 says it does not.
* After an allocation failure in a region's reader the decoder goes on and returns `PIVCO_OK`,
  contrary to the comment at `pivco_huffman_codec.c` 1063 (`SkipRegion`).
* The NEON unpack of 3-bit codes loads 4 bytes past its region although the comment at
  `pivco_huffman_primitives_neon.h` 410 excludes it; SSE loads 10 past with 2-bit
  and, as AVX2, 7 past with 3-bit codes. All are within the decoder's slack (`ReadExcess`).
* A hash collision in the shake pass turns down lengths that were never tried; the comment at
  `shake_lengths.c` 84 allows for duplicates only.
* The comments at `fse_xy_codec.h` 162-165 and 254-256 count five decodes to a container also for
  shapes where a reload leaves only 60 bits of it (x6, x10, x12, x16, which no table uses).
* The `largeLimit` condition at `pivco_fse.c` 85-91 is stricter than decoding needs: a symbol
  costs zero bits only when it has more than half of the table.

## 6. What is not modelled

* *FSE itself* and the stored tables of `dHuf0` and `dnPH`: a third-party library (`ext/fse`),
  used through its contract. In `RegionCoding` a coder's payload is opaque; `BitStreams` checks the coders.
* *When k1 and k2 flush*: `EncodeRound` folds the cadence of `pivco_k1.c` 391-413 (and of
  `pivco_k2.c`), which decides no bit of the stream as long as the 64-bit container holds what is
  written between two flushes, at most four symbols of `PIVCO_K1_TABLELOG` (10) bits behind seven
  left over. A cadence is modelled, and checked, in `CursorFse` only.
* *Leaf-pair and count kernels*: plain maps without state.
* *The joint pass's floating point* and its decode-time estimate.
* *Malformed streams*: decoders are given what an encoder wrote, possibly truncated between blocks,
  except for the context coders (damaged payloads) and the decoder's table build (any lengths).
* *Agreement on the raw block format*: a caller who decodes a block with a table of another layout
  or tree mode gets other symbols; the interface asks for the same one and the file format records it.
* *Research tree modes* (naive, fused, canonical flat), *versions 0.8 and 0.9* of the file format,
  the effort dispatch, the timing variants of the file calls.
* *Profiling and instrumentation*, the *command line* (file I/O around two calls), and most of the
  repository by size: `bench/` (including variants of the kernels kept for comparison), `extras/`
  (experiments, a copy of LZ4, test data), `web/` and `examples/`.

## 7. The plan

Done, in this order: `DecodePlacement` with its proofs, `BlockCodec` over `BlockTransfer`,
the table builds, `FileCodec` and `FlatKernel` with their proofs, `Contexts`, `RegionCoding` and
`ShakeLengths` with theirs, the bit-stream coders, the other kernels, the joint pass, the
proofs about `BlockCodec`, those about the histogram, the file's bounds, the length builder and
the decoder's build of a table, the limiter's bins.

Left, in this order:

1. `JointLengths`: that the trail's chunks fill the code space, which would carry `CodesComplete`
   and `BuiltLengthsAccepted` through the joint pass.
2. `FileCodec`: the older versions a decoder still reads; `BlockCodec` with `RegionCoding` in place of its choice.

## 8. How to run

    tlc -workers 2 -config DecodePlacement.cfg MCDecodePlacement
    tlapm DecodePlacement_proofs.tla

and so for every entry of `runs` in `PROJECT.json`. The longest runs (`block_codec`, `tables`,
`kernels`) take about two minutes, each module of proofs one to three, `Kernels_proofs` five,
`BlockCodec_proofs` six and `Lengths_proofs` nine. `rare_shorter`,
`contexts_zeroed` and `padding_suffices` end with the violation they are there to show.
