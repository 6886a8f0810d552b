----------------------------- MODULE BlockCodec -----------------------------
(***************************************************************************)
(* One block through the encode walk (codec_encode_node) and the decode    *)
(* walk (codec_decode_subtree) of src/pivco_huffman_codec.c.               *)
(*                                                                         *)
(* No byte of the stream says which node it belongs to: each side derives  *)
(* the order and the form of every record from what it has seen so far.    *)
(* The model keeps the stream as a sequence of records (block_N, marker    *)
(* prefix, K_right header, bitmap, flat region); a decoder that meets      *)
(* another record than the one it derives stops.  Symbols are the tree's   *)
(* in-order ranks; a walk is a stack of pending calls, the next one first. *)
(***************************************************************************)
EXTENDS Integers, Sequences, FiniteSets

CONSTANTS Scheds,   \* schedules of the tables in use
          Layouts,  \* flat layouts (pivco_flat_layout_t)
          KrtCodes, \* codes of the K_right thresholds in use, 0 .. 17
          Words(_), \* the blocks, as ranks, coded with a table of a schedule
          MaxN,     \* largest block
          MaxLen    \* longest code of a schedule (PIVCO_MAX_CODE_LEN)

Natural == "natural"    \* PIVCO_FLAT_NATURAL, the layout of coded regions
Garbage == -1           \* a stale cell, or a code unpacked in a wrong layout

VARIABLES table,   \* the encoder's table: sched, layout, krtCode, fse
          word,    \* the block's symbols, as ranks
          phase,   \* idle, encode, send, decode or done
          work,    \* pending calls of the walk, the next one first
          mem,     \* the encoder's ranks buffer and, from N on, tmp
          stream,  \* the block's records (decoding: those not read yet)
          markers, \* node_markers of the side that runs
          krt,     \* KrT of the side that runs
          vals     \* decoded child buffers not merged yet, newest first

vars == <<table, word, phase, work, mem, stream, markers, krt, vals>>

-----------------------------------------------------------------------------
N     == Len(word)
sched == table.sched
KrT(c) == IF c = 0 THEN 0 ELSE 2^(c - 1)
Cells == 0 .. (MaxN + MaxN * MaxLen - 1)

\* The ranks below a record.  A leaf is no record: its rank is in its parent's.
RanksOf(s) ==
  LET below[r \in DOMAIN s] ==
        IF s[r].kind = "FLAT" THEN s[r].param .. (s[r].param + 2^s[r].flat - 1)
        ELSE IF s[r].kind = "BOTH_LEAVES" THEN {s[r].param, s[r].param + 1}
        ELSE IF s[r].kind = "LEAF_LEFT" THEN {s[r].param} \cup below[r + 1]
        ELSE below[r + 1] \cup below[r + s[r].right]
  IN  below

Ranks == 0 .. 255       \* PIVCO_MAX_SYMBOLS of them: uint8_t
Inner(rec) == rec.kind \in {"LEAF_LEFT", "FULL"}
RightOf(s, r) == IF s[r].kind = "FULL" THEN r + s[r].right ELSE r + 1

\* A schedule is the preorder of a code tree, in 8-bit fields: the ranks of a
\* right child are above the record's param and those of a left child are not.
Preorder(s) ==
  /\ \E last \in Ranks : DOMAIN s = 0 .. last
  /\ \A r \in DOMAIN s :
       /\ s[r].kind \in {"FLAT", "BOTH_LEAVES", "LEAF_LEFT", "FULL"} /\ s[r].param \in Ranks
       /\ Inner(s[r]) => r + 1 \in DOMAIN s
       /\ s[r].kind = "FULL" => s[r].right \in Ranks \ {0} /\ r + s[r].right \in DOMAIN s

Ordered(s) ==
  \A r \in DOMAIN s :
    /\ RanksOf(s)[r] # {} /\ RanksOf(s)[r] \subseteq Ranks
    /\ Inner(s[r]) => \A v \in RanksOf(s)[RightOf(s, r)] : v > s[r].param
    /\ s[r].kind = "FULL" => \A v \in RanksOf(s)[r + 1] : v <= s[r].param

\* No code is longer than MaxLen: a node with a bitmap is above that depth.
DepthOK(s, depth) ==
  /\ depth[0] = 0
  /\ \A r \in DOMAIN s :
       /\ s[r].kind # "FLAT" => depth[r] < MaxLen
       /\ Inner(s[r]) => depth[RightOf(s, r)] = depth[r] + 1
       /\ s[r].kind = "FULL" => depth[r + 1] = depth[r] + 1
Shallow(s) == \E depth \in [DOMAIN s -> 0 .. MaxLen] : DepthOK(s, depth)

SchedOK(s) == Preorder(s) /\ Ordered(s) /\ Shallow(s)

ASSUME SchedsAssumption  == \A s \in Scheds : SchedOK(s)
ASSUME NumbersAssumption ==
  /\ MaxN \in Nat \ {0} /\ MaxLen \in Nat \ {0} /\ KrtCodes \subseteq 0 .. 17
ASSUME WordsAssumption ==
  \A s \in Scheds : \A w \in Words(s) :
    w \in Seq(RanksOf(s)[0]) /\ Len(w) \in 1 .. MaxN

\* FSE markers: raw, a table picked for the skew of the bitmap (the static
\* tables and snPH, whose bitmap is inverted when the right side is the
\* majority) or a table fitted to the region (nibble, k1, k2, dHuf0, dnPH).
Raw    == [form |-> "raw", xor |-> FALSE]
Fitted == [form |-> "fitted", xor |-> FALSE]
Skewed(nl, nr) == [form |-> "skewed", xor |-> nr > nl]

MarkerNodes == {r \in DOMAIN sched : sched[r].kind # "FLAT"}
NoMarkers   == [r \in DOMAIN sched |-> Raw]

Ones(bm)   == Cardinality({i \in DOMAIN bm : bm[i]})
Flip(bm)   == [i \in DOMAIN bm |-> ~bm[i]]
XorIf(x, bm) == IF x THEN Flip(bm) ELSE bm

\* Where the bitmap goes, which child goes first (each side has its own test of
\* that), what the children of a node take for tmp.
BitmapGoesFirst(n)    == n < krt
\* Mutants: ties go right on one side; a level takes a slice of its own for each half.
TiesGoRight(nr, nl)       == nr >= nl
ChildTmpTwice(tmp, nr)    == tmp + nr + N

EncodeRightFirst(nr, nl) == nr > nl
DecodeRightFirst(kr, kl) == kr > kl
ChildTmp(tmp, nr)     == tmp + nr
RightRec(r) == RightOf(sched, r)

\* The records of a block.
BlockNRec(n)      == [type |-> "block_N", n |-> n]
KrRec(k)          == [type |-> "K_right", k |-> k]
BitmapRec(mk, bm) == [type |-> "bitmap", coded |-> mk.form # "raw", bits |-> XorIf(mk.xor, bm)]
FlatRec(coded, layout, codes) ==
  [type |-> "flat", coded |-> coded, layout |-> layout, codes |-> codes]

-----------------------------------------------------------------------------
\* Calls of the encode walk.
NodeCall(r, at, n, tmp) == [op |-> "node", rec |-> r, at |-> at, n |-> n, tmp |-> tmp]
BitmapCall(r, bm)       == [op |-> "bitmap", rec |-> r, bm |-> bm]

\* The elements of a sequence that are in S, in order.
Kept(seq, S) ==
  LET kept[i \in 0 .. Len(seq)] ==
        IF i = 0 THEN <<>>
        ELSE IF seq[i] \in S THEN Append(kept[i - 1], seq[i]) ELSE kept[i - 1]
  IN  kept
Keep(seq, S) == Kept(seq, S)[Len(seq)]
Above(p) == {v \in Ranks : v > p}
NotAbove(p) == {v \in Ranks \cup {Garbage} : v <= p}

Segment(at, n) == [i \in 1 .. n |-> mem[at + i - 1]]
Put(seq, at, m) ==
  [x \in Cells |-> IF x \in at .. (at + Len(seq) - 1) THEN seq[x - at + 1] ELSE m[x]]

Running(p, op) == phase = p /\ work # <<>> /\ Head(work).op = op

NoTable == [sched |-> <<>>, layout |-> Natural, krtCode |-> 0, fse |-> FALSE]

Init ==
  /\ table = NoTable
  /\ word = <<>> /\ phase = "idle" /\ work = <<>>
  /\ mem = [x \in Cells |-> Garbage]
  /\ stream = <<>> /\ markers = <<>> /\ krt = 0 /\ vals = <<>>

\* CODEC_ENCODE_ENTRY up to its call of the walk.
StartBlock(t, w) ==
  /\ phase = "idle"
  /\ table' = t /\ word' = w
  /\ phase' = "encode"
  /\ mem' = Put(w, 0, mem)
  /\ work' = <<NodeCall(0, 0, Len(w), Len(w))>>
  /\ markers' = [r \in DOMAIN t.sched |-> Raw]
  /\ krt' = KrT(t.krtCode)
  /\ UNCHANGED <<stream, vals>>

EncodeEmpty ==
  /\ Running("encode", "node") /\ Head(work).n = 0
  /\ work' = Tail(work)
  /\ UNCHANGED <<table, word, phase, mem, stream, markers, krt, vals>>

\* A flat region, packed naturally for an FSE attempt and, when that does not
\* commit, packed again in the table's layout.
EncodeFlat(coded) ==
  /\ Running("encode", "node")
  /\ LET c == Head(work) IN
       /\ c.n > 0 /\ sched[c.rec].kind = "FLAT"
       /\ coded => table.fse
       /\ LET local == [i \in 1 .. c.n |-> mem[c.at + i - 1] - sched[c.rec].param]
          IN  stream' = Append(stream,
                          FlatRec(coded, IF coded THEN Natural ELSE table.layout, local))
  /\ work' = Tail(work)
  /\ UNCHANGED <<table, word, phase, mem, markers, krt, vals>>

\* A node with a bitmap: partition, then K_right header or bitmap, then the
\* children, larger first, then the bitmap of a node at or above KrT.
EncodeNode ==
  /\ Running("encode", "node")
  /\ LET c     == Head(work)
         rec   == sched[c.rec]
         seg   == Segment(c.at, c.n)
         right == Keep(seg, Above(rec.param))
         left  == Keep(seg, NotAbove(rec.param))
         nr    == Len(right)
         bitmap == <<BitmapCall(c.rec, [i \in 1 .. c.n |-> seg[i] > rec.param])>>
         tmp   == ChildTmp(c.tmp, nr)
         leftCall  == <<NodeCall(c.rec + 1, c.at, c.n - nr, tmp)>>
         rightCall == <<NodeCall(RightRec(c.rec), c.tmp, nr, tmp)>>
         children  == IF rec.kind = "BOTH_LEAVES" THEN <<>>
                      ELSE IF rec.kind = "LEAF_LEFT" THEN rightCall
                      ELSE IF EncodeRightFirst(nr, c.n - nr) THEN rightCall \o leftCall
                      ELSE leftCall \o rightCall
     IN  /\ c.n > 0 /\ rec.kind # "FLAT"
         /\ mem' = IF rec.kind = "BOTH_LEAVES" THEN mem
                   ELSE IF rec.kind = "LEAF_LEFT" THEN Put(right, c.tmp, mem)
                   ELSE Put(left, c.at, Put(right, c.tmp, mem))
         /\ work' = (IF BitmapGoesFirst(c.n) THEN bitmap \o children ELSE children \o bitmap)
                      \o Tail(work)
         /\ stream' = IF ~BitmapGoesFirst(c.n) /\ rec.kind # "BOTH_LEAVES"
                      THEN Append(stream, KrRec(nr)) ELSE stream
  /\ UNCHANGED <<table, word, phase, markers, krt, vals>>

\* codec_emit_bitmap with the outcome of codec_fse_try.
EmitBitmap(mk) ==
  /\ Running("encode", "bitmap")
  /\ LET c  == Head(work)
         nr == Ones(c.bm)
         nl == Len(c.bm) - nr
     IN  /\ mk = Raw \/ (table.fse /\ (mk = Fitted \/ (nl # nr /\ mk = Skewed(nl, nr))))
         /\ markers' = [markers EXCEPT ![c.rec] = mk]
         /\ stream' = Append(stream, BitmapRec(mk, c.bm))
  /\ work' = Tail(work)
  /\ UNCHANGED <<table, word, phase, mem, krt, vals>>

-----------------------------------------------------------------------------
\* The marker prefix: nothing without marker nodes, one byte when no node is
\* coded, else a presence set and the markers of its nodes in index order.
Index(r, S) == Cardinality({q \in S : q <= r})

WriteMarkerPrefix ==
  LET coded == {r \in MarkerNodes : markers[r] # Raw}
      value(i) == markers[CHOOSE r \in coded : Index(r, coded) = i]
  IN  IF MarkerNodes = {} THEN <<>>
      ELSE <<[type |-> "prefix", code |-> table.krtCode, present |-> coded,
              values |-> [i \in 1 .. Cardinality(coded) |-> value(i)]]>>

\* The end of CODEC_ENCODE_ENTRY: block_N and the prefix go ahead of the regions.
FinishEncode ==
  /\ phase = "encode" /\ work = <<>>
  /\ stream' = <<BlockNRec(N)>> \o WriteMarkerPrefix \o stream
  /\ phase' = "send"
  /\ UNCHANGED <<table, word, work, mem, markers, krt, vals>>

\* CODEC_DECODE_ENTRY: block_N, read_marker_prefix and the root's call.  KrT
\* comes from the block, never from the decoder's table.
StartDecode ==
  /\ phase = "send"
  /\ LET prefix == stream[2]
         noPrefix == MarkerNodes = {}
     IN  /\ markers' = [r \in DOMAIN sched |->
                          IF ~noPrefix /\ r \in prefix.present
                          THEN prefix.values[Index(r, prefix.present)] ELSE Raw]
         /\ krt' = IF noPrefix THEN 0 ELSE KrT(prefix.code)
         /\ stream' = SubSeq(stream, IF noPrefix THEN 2 ELSE 3, Len(stream))
  /\ work' = <<[op |-> "subtree", rec |-> 0, K |-> Head(stream).n]>>
  /\ phase' = "decode"
  /\ UNCHANGED <<table, word, mem, vals>>

-----------------------------------------------------------------------------
\* What the walk reads next at call c, and whether that is what the stream
\* holds.
ReadsBitmap(c) ==
  stream # <<>> /\ Head(stream).type = "bitmap" /\ Len(Head(stream).bits) = c.K
                /\ Head(stream).coded = (markers[c.rec] # Raw)
ReadsKr(c)   == stream # <<>> /\ Head(stream).type = "K_right" /\ Head(stream).k <= c.K
ReadsFlat(c) == stream # <<>> /\ Head(stream).type = "flat" /\ Len(Head(stream).codes) = c.K
Reads(c) ==
  IF c.op = "merge" THEN c.early # <<>> \/ ReadsBitmap(c)
  ELSE IF c.K = 0 THEN TRUE
  ELSE IF sched[c.rec].kind = "FLAT" THEN ReadsFlat(c)
  ELSE IF sched[c.rec].kind = "BOTH_LEAVES" \/ BitmapGoesFirst(c.K) THEN ReadsBitmap(c)
  ELSE ReadsKr(c)

ReadBitmap(c) == XorIf(markers[c.rec].xor, Head(stream).bits)

SubtreeCall(r, k) == [op |-> "subtree", rec |-> r, K |-> k]
AtSubtree(kinds) ==
  Running("decode", "subtree") /\ Head(work).K > 0
    /\ sched[Head(work).rec].kind \in kinds /\ Reads(Head(work))

DecodeEmpty ==
  /\ Running("decode", "subtree") /\ Head(work).K = 0
  /\ work' = Tail(work)
  /\ vals' = <<(<<>>)>> \o vals
  /\ UNCHANGED <<table, word, phase, mem, stream, markers, krt>>

\* The unpack kernel follows from the region's own marker: coded regions are
\* natural, raw ones in the table's layout.
\* Mutant: the table's layout for every region.
UnpackTableLayout(region) == table.layout

UnpackLayout(region) == IF region.coded THEN Natural ELSE table.layout

DecodeFlat ==
  /\ AtSubtree({"FLAT"})
  /\ LET c == Head(work)
         region == Head(stream)
         symbol(i) == IF UnpackLayout(region) = region.layout
                      THEN sched[c.rec].param + region.codes[i] ELSE Garbage
     IN  vals' = <<[i \in 1 .. c.K |-> symbol(i)]>> \o vals
  /\ work' = Tail(work) /\ stream' = Tail(stream)
  /\ UNCHANGED <<table, word, phase, mem, markers, krt>>

DecodeBothLeaves ==
  /\ AtSubtree({"BOTH_LEAVES"})
  /\ LET c  == Head(work)
         bm == ReadBitmap(c)
     IN  vals' = <<[i \in 1 .. c.K |-> sched[c.rec].param + (IF bm[i] THEN 1 ELSE 0)]>> \o vals
  /\ work' = Tail(work) /\ stream' = Tail(stream)
  /\ UNCHANGED <<table, word, phase, mem, markers, krt>>

\* LEAF_LEFT and FULL: K_right from the header, or as the popcount of a bitmap
\* that goes first; then the children, larger first, and the merge.
DecodeInner ==
  /\ AtSubtree({"LEAF_LEFT", "FULL"})
  /\ LET c     == Head(work)
         rec   == sched[c.rec]
         early == IF BitmapGoesFirst(c.K) THEN ReadBitmap(c) ELSE <<>>
         kr    == IF BitmapGoesFirst(c.K) THEN Ones(early) ELSE Head(stream).k
         kl    == c.K - kr
         leftCall  == <<SubtreeCall(c.rec + 1, kl)>>
         rightCall == <<SubtreeCall(RightRec(c.rec), kr)>>
         rightFirst == rec.kind = "LEAF_LEFT" \/ DecodeRightFirst(kr, kl)
         children == IF rec.kind = "LEAF_LEFT" THEN rightCall
                     ELSE IF rightFirst THEN rightCall \o leftCall
                     ELSE leftCall \o rightCall
         merge == [op |-> "merge", rec |-> c.rec, K |-> c.K, early |-> early,
                   rightFirst |-> rightFirst]
     IN  work' = children \o <<merge>> \o Tail(work)
  /\ stream' = Tail(stream)
  /\ UNCHANGED <<table, word, phase, mem, markers, krt, vals>>

\* prim_merge_vec_vec and prim_merge_cst_vec: the i-th bit says which child the
\* i-th symbol comes from.  A child too short for the bitmap yields garbage.
\* Mutant: the sides are swapped.
MergeVecsSwapped(bm, left, right) ==
  [i \in DOMAIN bm |->
     LET ones == Ones(SubSeq(bm, 1, i))
         pick(v, j) == IF j <= Len(v) THEN v[j] ELSE Garbage
     IN  IF ~bm[i] THEN pick(right, i - ones) ELSE pick(left, ones)]
MergeVecs(bm, left, right) ==
  [i \in DOMAIN bm |->
     LET ones == Ones(SubSeq(bm, 1, i))
         pick(v, j) == IF j <= Len(v) THEN v[j] ELSE Garbage
     IN  IF bm[i] THEN pick(right, ones) ELSE pick(left, i - ones)]

MergeChildren ==
  /\ Running("decode", "merge") /\ Reads(Head(work))
  /\ LET c     == Head(work)
         rec   == sched[c.rec]
         bm    == IF c.early # <<>> THEN c.early ELSE ReadBitmap(c)
         full  == rec.kind = "FULL"
         right == IF full /\ c.rightFirst THEN vals[2] ELSE vals[1]
         left  == IF ~full THEN [i \in 1 .. c.K |-> rec.param]
                  ELSE IF c.rightFirst THEN vals[1] ELSE vals[2]
     IN  /\ vals' = <<MergeVecs(bm, left, right)>>
                       \o SubSeq(vals, IF full THEN 3 ELSE 2, Len(vals))
         /\ stream' = IF c.early # <<>> THEN stream ELSE Tail(stream)
  /\ work' = Tail(work)
  /\ UNCHANGED <<table, word, phase, mem, markers, krt>>

FinishDecode ==
  /\ phase = "decode" /\ work = <<>>
  /\ phase' = "done"
  /\ UNCHANGED <<table, word, work, mem, stream, markers, krt, vals>>

\* The caller drops the block; the contexts are ready for the next one.
NextBlock ==
  /\ phase = "done"
  /\ table' = NoTable /\ word' = <<>> /\ phase' = "idle"
  /\ mem' = [x \in Cells |-> Garbage]
  /\ stream' = <<>> /\ markers' = <<>> /\ krt' = 0 /\ vals' = <<>>
  /\ UNCHANGED work

TablesOf(s) == [sched : {s}, layout : Layouts, krtCode : KrtCodes, fse : BOOLEAN]

Markers == {Raw, Fitted, Skewed(0, 1), Skewed(1, 0)}

EncodeStep == EncodeEmpty \/ (\E coded \in BOOLEAN : EncodeFlat(coded)) \/ EncodeNode
                \/ (\E mk \in Markers : EmitBitmap(mk)) \/ FinishEncode
DecodeStep == StartDecode \/ DecodeEmpty \/ DecodeFlat \/ DecodeBothLeaves
                \/ DecodeInner \/ MergeChildren \/ FinishDecode
Step == EncodeStep \/ DecodeStep

Next == Step \/ NextBlock
          \/ \E s \in Scheds : \E t \in TablesOf(s), w \in Words(s) : StartBlock(t, w)

\* Both walks are loops of one thread: a block that was started goes on.
Spec == Init /\ [][Next]_vars /\ WF_vars(Step)

-----------------------------------------------------------------------------
\* Properties

TypeOK ==
  /\ phase \in {"idle", "encode", "send", "decode", "done"}
  /\ word \in Seq(Nat) /\ N <= MaxN
  /\ DOMAIN mem = Cells
  /\ phase = "encode" => \A i \in DOMAIN work : work[i].op \in {"node", "bitmap"}
  /\ phase = "decode" => \A i \in DOMAIN work : work[i].op \in {"subtree", "merge"}
  /\ \A i \in DOMAIN work : work[i].rec \in DOMAIN sched
  /\ krt \in {0} \cup {KrT(c) : c \in KrtCodes}

\* Every pending node of the encode walk still finds its ranks: the block's
\* symbols that lie below its record, in order.  The left child waits in the
\* parent's buffer and the right one in tmp while the sibling's subtree
\* partitions its own ranks, in place and into the tmp both share.
RanksSurvive ==
  phase = "encode" =>
    \A i \in DOMAIN work :
      work[i].op = "node" =>
        Segment(work[i].at, work[i].n) = Keep(word, RanksOf(sched)[work[i].rec])

\* tmp holds "one right-half per recursion level" (CODEC_ENCODE_ENTRY): no node
\* has its ranks or its right half outside the arena.
TmpSuffices ==
  phase = "encode" =>
    \A i \in DOMAIN work :
      work[i].op = "node" /\ work[i].n > 0 =>
        work[i].at + work[i].n <= N + N * MaxLen
          /\ (sched[work[i].rec].kind # "FLAT" => work[i].tmp + work[i].n <= N + N * MaxLen)

\* "more records" of the stream than it holds, or other ones, are never read:
\* the decoder meets exactly the record it derives from the markers, KrT and the
\* splits, and when it is over it has read the whole stream.
InStep ==
  /\ phase = "decode" /\ work # <<>> => Reads(Head(work))
  /\ phase = "done" => stream = <<>>

\* The decoded block is the encoded one, whatever the tables, thresholds,
\* layouts and coded regions.
RoundTrip == phase = "done" => vals = <<word>>

\* The codec implements the transfer of a block, including that every block that
\* was started arrives.
received == IF phase = "done" THEN vals[1] ELSE <<>>
Transfer == INSTANCE BlockTransfer WITH
              Block <- UNION {Words(s) : s \in Scheds}, Nothing <- <<>>,
              sent <- word, received <- received
TransferSpec == Transfer!Spec

\* The encode walk's two buffers hold what they have to, where there is room for it.
EncodeScratch == TypeOK /\ RanksSurvive /\ TmpSuffices

\* The two walks agree on every record of the stream and on the block.
WalksAgree == InStep /\ RoundTrip
=============================================================================
