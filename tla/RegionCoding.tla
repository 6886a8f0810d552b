---------------------------- MODULE RegionCoding ----------------------------
(***************************************************************************)
(* The coding of one region of a block: an internal node's bitmap or a     *)
(* flat subtree's packed bits (codec_fse_try and its callers in            *)
(* src/pivco_huffman_codec.c, the readers in src/pivco_huffman_wire.h).    *)
(*                                                                         *)
(* The raw region is already in the stream.  Seven coders are tried in     *)
(* order into two staging halves; the one that holds the best payload so   *)
(* far is kept by swapping the halves, and the winner overwrites the raw   *)
(* bytes.  The decoder has the marker alone to tell it what it reads.      *)
(*                                                                         *)
(* What a coder returns is any length of Lens or a refusal: a payload is   *)
(* the coder that wrote it, whether it coded the flipped bits, and its     *)
(* length.  Lengths are in bytes.                                          *)
(***************************************************************************)
EXTENDS Integers, Sequences, FiniteSets

CONSTANTS Requests,   \* regions: [internal, root, nbytes, n, left, right, depth]
          FlagSets,   \* sets of coders a table may enable
          Layouts,    \* flat layouts of a table
          Lens,       \* payload lengths a coder may return, by the region's bytes
          Freq,       \* pivco_fse_freq, in thousandths
          MinBytes,   \* smallest region a coder is tried on; a build may override it
          StackBytes  \* PIVCO_WIRE_MAX_N / 8 + 1: staged without a heap block

Coders  == <<"static", "nibble", "k1", "k2", "dHuf0", "dnPH", "snPH">>
Natural == "natural"

Max(a, b) == IF a >= b THEN a ELSE b

ASSUME RequestsAssumption ==
  Requests \subseteq [internal : BOOLEAN, root : BOOLEAN, nbytes : Nat \ {0}, n : Nat,
                      left : Nat, right : Nat, depth : Nat]
\* A bitmap has the bytes its symbols take and splits them; a flat region
\* brings no counts.
ASSUME CountsAssumption ==
  \A r \in Requests :
    IF r.internal THEN /\ r.n > 0 /\ r.left + r.right = r.n
                       /\ r.n <= 8 * r.nbytes
                  ELSE r.n = 0 /\ r.left = 0 /\ r.right = 0 /\ r.depth = 0
ASSUME SizesAssumption ==
  /\ \A r \in Requests : Lens[r.nbytes] \subseteq Nat \ {0}
  /\ StackBytes \in Nat
ASSUME FlagsAssumption ==
  /\ FlagSets \subseteq SUBSET {Coders[i] : i \in 1 .. 7}
  /\ Layouts # {} /\ Natural \in Layouts
ASSUME MinBytesAssumption == MinBytes \in [{Coders[i] : i \in 1 .. 7} -> Nat]
ASSUME FreqAssumption == Freq \in Seq(Nat)

VARIABLES req,     \* the region being coded
          table,   \* [enabled, flags, layout]
          pc,      \* "pack", "try", "commit", "repack", "read", "done"
          next,    \* the candidate to try
          half,    \* the two staging halves
          best,    \* the half best_out points at; the other is try_out
          bestId, bestXor, bestLen,
          region,  \* what the stream holds
          marker,
          cursor,  \* bytes of the region in the stream
          stats,   \* g_pivco_fse_attempt and g_pivco_fse_commit
          got,     \* what the decoder made of the region
          results  \* history: what the coders returned

encode == <<half, best, bestId, bestXor, bestLen>>
vars == <<req, table, pc, next, half, best, bestId, bestXor, bestLen, region, marker,
          cursor, stats, got, results>>

-----------------------------------------------------------------------------
NumTables == Len(Freq)
Slots     == 0 .. NumTables + 6
\* The ids of candidates 2 to 7.
IdAt(i)   == NumTables + i - 1

\* One over the gain: 0.20, 0.25 and 0.10.
GainInverse == [nibble |-> 5, k1 |-> 5, k2 |-> 5, dHuf0 |-> 4, dnPH |-> 10, snPH |-> 10]

\* codec_table_len_bound.
LenBound(c, nbytes) ==
  LET keep == nbytes - nbytes \div GainInverse[c] IN IF keep > 2 THEN keep - 2 ELSE 0

Major(r)  == Max(r.left, r.right)
Skewed(r) == r.n > 0 /\ 1000 * Major(r) >= 625 * r.n
\* pivco_fse_select_table: the largest table not above the skew, else 0.
SelectTable(r) ==
  LET fit == {i \in 1 .. NumTables : Freq[i] * r.n <= 1000 * Major(r)}
  IN  IF fit = {} THEN 0 ELSE CHOOSE i \in fit : \A j \in fit : j <= i
Flip(r) == r.right > r.left

\* Mutant: a gate on the whole code's bits, which deep nodes pass at any size.
FastEnoughUncounted(r, len) == 20 * (r.depth * r.n + 8 * len) <= 20 * (r.depth + 1) * r.n
\* The speed gate of the static tables:
\* (depth + (len + 2) * 8 / n) / (depth + 1) <= 0.95.
FastEnough(r, len) ==
  20 * (r.depth * r.n + 8 * (len + 2)) <= 19 * (r.depth + 1) * r.n

\* Is candidate c tried on this region?
Applies(c) ==
  /\ c \in table.flags
  /\ req.nbytes >= MinBytes[c]
  /\ c \in {"static", "dnPH", "snPH"} => req.internal
  /\ c \in {"static", "snPH"} => Skewed(req) /\ SelectTable(req) >= 1

Payload(id, xor, len) == [id |-> id, xor |-> xor, len |-> len]
Junk == Payload(0, FALSE, 0)   \* an unset or partly written half

\* What coder c can return: never more than the raw bytes, but for the nested
\* forms, which are held to the staging half.
Outputs(c) ==
  {len \in Lens[req.nbytes] :
     len < IF c \in {"dnPH", "snPH"} THEN 2 * req.nbytes + 65 ELSE req.nbytes}

Raw(layout) == [form |-> "raw", layout |-> layout, payload |-> Junk]
Count(what, slot) == [stats EXCEPT ![what][slot] = @ + 1]

-----------------------------------------------------------------------------
Init ==
  /\ req \in Requests
  /\ table \in [enabled : BOOLEAN, flags : FlagSets, layout : Layouts]
  /\ pc = "pack" /\ next = 1
  /\ half = [h \in 0 .. 1 |-> Junk] /\ best = 0
  /\ bestId = 0 /\ bestXor = FALSE /\ bestLen = 0
  /\ region = Raw("none") /\ marker = [id |-> 0, xor |-> FALSE] /\ cursor = 0
  /\ stats = [attempt |-> [s \in Slots |-> 0], commit |-> [s \in Slots |-> 0]]
  /\ got = [status |-> "none", good |-> FALSE, used |-> 0]
  /\ results = {}

\* codec_flat_fse_eligible.
FlatEligible ==
  /\ table.enabled
  /\ \E c \in {"nibble", "k1", "k2", "dHuf0"} :
       c \in table.flags /\ req.nbytes >= MinBytes[c]

PackLayout == IF FlatEligible THEN Natural ELSE table.layout

\* The raw region and its marker (0) go into the stream; whether an attempt
\* follows is the table's word.  The staging is on the stack for what an
\* internal node can hold, else on the heap, where it can be refused.
Pack ==
  /\ pc = "pack"
  /\ region' = Raw(IF req.internal THEN Natural ELSE PackLayout)
  /\ cursor' = req.nbytes
  /\ LET attempt == IF req.internal THEN table.enabled ELSE FlatEligible
     IN  \/ attempt /\ pc' = "try"
         \/ attempt /\ req.nbytes > StackBytes /\ pc' = "repack"
         \/ ~attempt /\ pc' = "read"
  /\ UNCHANGED <<req, table, next, encode, marker, stats, got, results>>

Advance == IF next = 7 THEN pc' = "commit" /\ next' = 7 ELSE pc' = "try" /\ next' = next + 1

\* A candidate its gates leave out.
Skip ==
  /\ pc = "try" /\ ~Applies(Coders[next])
  /\ Advance
  /\ UNCHANGED <<req, table, encode, region, marker, cursor, stats, got, results>>

\* Candidate 1.  The copy handed to the coder, flipped when the right side is
\* the majority, borrows the try half; the payload goes to the best half.
\* Mutant: the attempt is not counted.
TryStaticUncounted ==
  /\ pc = "try" /\ next = 1 /\ Applies("static")
  /\ LET id == SelectTable(req)
     IN  /\ stats' = stats
         /\ \/ /\ half' = [h \in 0 .. 1 |-> Junk]
               /\ UNCHANGED <<bestId, bestXor, bestLen, results>>
            \/ \E len \in Outputs("static") :
                 /\ half' = [half EXCEPT ![best] = Payload(id, Flip(req), len), ![1 - best] = Junk]
                 /\ results' = {[at |-> 1, len |-> len]}
                 /\ IF FastEnough(req, len)
                    THEN bestId' = id /\ bestXor' = Flip(req) /\ bestLen' = len
                    ELSE UNCHANGED <<bestId, bestXor, bestLen>>
  /\ pc' = "try" /\ next' = 2
  /\ UNCHANGED <<req, table, best, region, marker, cursor, got>>
TryStatic ==
  /\ pc = "try" /\ next = 1 /\ Applies("static")
  /\ LET id == SelectTable(req)
     IN  /\ stats' = Count("attempt", id)
         /\ \/ /\ half' = [h \in 0 .. 1 |-> Junk]
               /\ UNCHANGED <<bestId, bestXor, bestLen, results>>
            \/ \E len \in Outputs("static") :
                 /\ half' = [half EXCEPT ![best] = Payload(id, Flip(req), len), ![1 - best] = Junk]
                 /\ results' = {[at |-> 1, len |-> len]}
                 /\ IF FastEnough(req, len)
                    THEN bestId' = id /\ bestXor' = Flip(req) /\ bestLen' = len
                    ELSE UNCHANGED <<bestId, bestXor, bestLen>>
  /\ pc' = "try" /\ next' = 2
  /\ UNCHANGED <<req, table, best, region, marker, cursor, got>>

\* The length a later candidate must stay below.
Limit(c) ==
  IF bestId >= 1 /\ bestLen < LenBound(c, req.nbytes) THEN bestLen ELSE LenBound(c, req.nbytes)

\* Mutant: the halves stay as they are when a candidate wins.
SwapNothing == best
Swap == 1 - best

\* k=1 and k=2 are not called with no room, as a limit of 0 means none to them.
\* Only a build with smaller thresholds gets there.
Called(c) == c \in {"k1", "k2"} => Limit(c) > 0

XorOf(c) == c = "snPH" /\ Flip(req)

\* Candidates 2 to 7: the payload goes to the try half, and the halves are
\* swapped when it is the best.
TryFitted ==
  /\ pc = "try" /\ next > 1
  /\ LET c == Coders[next]
     IN  /\ Applies(c)
         /\ IF Called(c) THEN stats' = Count("attempt", IdAt(next)) ELSE stats' = stats
         /\ \/ /\ Called(c)
               /\ half' = [half EXCEPT ![1 - best] = Junk]
               /\ UNCHANGED <<best, bestId, bestXor, bestLen, results>>
            \/ /\ ~Called(c)
               /\ UNCHANGED <<half, best, bestId, bestXor, bestLen, results>>
            \/ /\ Called(c)
               /\ \E len \in Outputs(c) :
                    /\ half' = [half EXCEPT ![1 - best] = Payload(IdAt(next), XorOf(c), len)]
                    /\ results' = results \cup {[at |-> next, len |-> len]}
                    /\ IF len < Limit(c)
                       THEN /\ best' = Swap
                            /\ bestId' = IdAt(next) /\ bestXor' = XorOf(c) /\ bestLen' = len
                       ELSE UNCHANGED <<best, bestId, bestXor, bestLen>>
  /\ Advance
  /\ UNCHANGED <<req, table, region, marker, cursor, got>>

\* codec_fse_commit: marker, length and payload over the raw bytes.
Marker == [id |-> bestId, xor |-> bestXor]
\* Mutant: the cursor stays past the raw bytes.
CommitRawLength ==
  /\ pc = "commit" /\ bestId >= 1
  /\ marker' = Marker
  /\ region' = [form |-> "coded", layout |-> region.layout, payload |-> half[best]]
  /\ cursor' = cursor
  /\ stats' = Count("commit", bestId)
  /\ pc' = "read"
  /\ UNCHANGED <<req, table, next, encode, got, results>>
Commit ==
  /\ pc = "commit" /\ bestId >= 1
  /\ marker' = Marker
  /\ region' = [form |-> "coded", layout |-> region.layout, payload |-> half[best]]
  /\ cursor' = 2 + bestLen
  /\ stats' = Count("commit", bestId)
  /\ pc' = "read"
  /\ UNCHANGED <<req, table, next, encode, got, results>>

Decline ==
  /\ pc = "commit" /\ bestId < 1
  /\ stats' = Count("commit", 0)
  /\ pc' = "repack"
  /\ UNCHANGED <<req, table, next, encode, region, marker, cursor, got, results>>

\* A flat region no coder took goes back to the configured layout.
RawLayout == IF req.internal THEN region.layout ELSE table.layout
Repack ==
  /\ pc = "repack"
  /\ region' = Raw(RawLayout)
  /\ pc' = "read"
  /\ UNCHANGED <<req, table, next, encode, marker, cursor, stats, got, results>>

-----------------------------------------------------------------------------
\* The coders' decoders, by the marker's id; the nested forms are for bitmaps
\* only.  True when the region's own bits come out.
Decompressed(id, payload) ==
  payload.id = id /\ id >= 1 /\ (~req.internal => id <= IdAt(5))

\* codec_read_bitmap: flipped back when the marker says so.
ReadBitmap ==
  /\ pc = "read" /\ req.internal
  /\ got' = IF marker.id = 0
            THEN [status |-> "ok", good |-> region.form = "raw", used |-> req.nbytes]
            ELSE [status |-> "ok", used |-> 2 + region.payload.len,
                  good |-> /\ Decompressed(marker.id, region.payload)
                           /\ marker.xor = region.payload.xor]
  /\ pc' = "done"
  /\ UNCHANGED <<req, table, next, encode, region, marker, cursor, stats, results>>

\* wire_read_flat_region and the unpacking its caller picks: a coded region is
\* natural-packed whatever the table's layout, and the marker's flip bit is not
\* looked at.
UnpackLayout(coded) == IF coded THEN Natural ELSE table.layout
ReadFlat ==
  /\ pc = "read" /\ ~req.internal
  /\ LET coded == marker.id # 0
         bits  == IF coded THEN Decompressed(marker.id, region.payload) /\ ~region.payload.xor
                           ELSE region.form = "raw"
     IN  got' = [status |-> "ok", good |-> bits /\ UnpackLayout(coded) = region.layout,
                 used |-> IF coded THEN 2 + region.payload.len ELSE req.nbytes]
  /\ pc' = "done"
  /\ UNCHANGED <<req, table, next, encode, region, marker, cursor, stats, results>>

\* The buffer of a coded flat region cannot be had.  Only a flat root says so.
FlatNoMemory ==
  /\ pc = "read" /\ ~req.internal /\ marker.id # 0
  /\ got' = [status |-> IF req.root THEN "corrupt" ELSE "ok", good |-> FALSE,
             used |-> 2 + region.payload.len]
  /\ pc' = "failed"
  /\ UNCHANGED <<req, table, next, encode, region, marker, cursor, stats, results>>

Next == Pack \/ Skip \/ TryStatic \/ TryFitted \/ Commit \/ Decline \/ Repack
          \/ ReadBitmap \/ ReadFlat \/ FlatNoMemory
Spec == Init /\ [][Next]_vars

-----------------------------------------------------------------------------
TypeOK ==
  /\ req \in Requests
  /\ table \in [enabled : BOOLEAN, flags : FlagSets, layout : Layouts]
  /\ pc \in {"pack", "try", "commit", "repack", "read", "done", "failed"} /\ next \in 1 .. 7
  /\ half \in [0 .. 1 -> [id : Slots, xor : BOOLEAN, len : Nat]]
  /\ best \in 0 .. 1
  /\ bestId \in Slots /\ bestXor \in BOOLEAN /\ bestLen \in Nat
  /\ marker \in [id : Slots, xor : BOOLEAN] /\ cursor \in Nat
  /\ region.form \in {"raw", "coded"} /\ region.payload \in [id : Slots, xor : BOOLEAN, len : Nat]

\* The decoder gets the bits the encoder had, in the layout it unpacks, whatever
\* coder won: the staging halves, the flip, the marker and the two layouts of a
\* flat region agree across codec_fse_try, codec_encode_node and the readers.
RoundTrip == pc = "done" => got.good

\* The decoder reads on exactly where the encoder wrote on: the next region of
\* the block starts at the same byte on both sides, also when reading failed.
InStep == pc \in {"done", "failed"} => got.used = cursor

\* The candidates that pass the gate they have on their own.
GateOf(i, len) ==
  IF i = 1 THEN FastEnough(req, len) ELSE len < LenBound(Coders[i], req.nbytes)
Passed == {r \in results : GateOf(r.at, r.len)}

\* The committed payload is the shortest of those that pass their own gates, the
\* earliest of equals: swapping the halves and lowering the limit lose no
\* candidate and keep no worse one.  It holds of the candidates tried so far.
SmallestGatedWins ==
  IF Passed = {} THEN bestId = 0
  ELSE \E w \in Passed :
         /\ \A r \in Passed : w.len < r.len \/ (w.len = r.len /\ w.at <= r.at)
         /\ bestLen = w.len
         /\ bestId = IF w.at = 1 THEN SelectTable(req) ELSE IdAt(w.at)

\* A coded region, its length bytes included, takes fewer bytes than the raw one
\* it overwrites, so the region never outgrows the room the walk reserved; the
\* static tables have no byte bound and owe this to the speed gate.
CodedIsSmaller == cursor <= req.nbytes /\ (region.form = "coded" => cursor < req.nbytes)

\* The counters of slot id count committed payloads among the tries of that
\* coder, and every try of a region counts once, in slot 0 when none won.
CountersAgree ==
  /\ \A s \in Slots \ {0} : stats.commit[s] <= stats.attempt[s]
  /\ pc \in {"repack", "read", "done"} /\ results # {} =>
       Cardinality({s \in Slots : stats.commit[s] = 1}) = 1

\* The inductive invariant of the proofs.  What best_out holds is what best_id,
\* best_xor and best_len say, and only what a flat region's reader can undo.
Staged ==
  bestId >= 1 =>
    /\ half[best] = Payload(bestId, bestXor, bestLen)
    /\ bestLen + 2 < req.nbytes
    /\ ~req.internal => bestId <= IdAt(5) /\ ~bestXor

\* The layout the region is packed in, by where the walk is.
Packed ==
  /\ pc \in {"try", "commit"} =>
       region = Raw(IF req.internal THEN Natural ELSE PackLayout) /\ cursor = req.nbytes
  /\ pc \in {"try", "commit"} /\ ~req.internal => FlatEligible
  /\ pc = "repack" =>
       /\ cursor = req.nbytes /\ region.form = "raw"
       /\ req.internal => region = Raw(Natural)

\* What the reader finds: the raw bytes in the table's layout, or the payload the
\* marker names, natural-packed.
Readable ==
  /\ pc \in {"pack", "try", "commit", "repack"} => marker = [id |-> 0, xor |-> FALSE]
  /\ pc \in {"read", "done", "failed"} =>
       \/ /\ marker.id = 0 /\ cursor = req.nbytes
          /\ region = Raw(IF req.internal THEN Natural ELSE table.layout)
       \/ /\ marker.id >= 1 /\ cursor < req.nbytes
          /\ region = [form |-> "coded", layout |-> Natural,
                       payload |-> Payload(marker.id, marker.xor, cursor - 2)]
          /\ ~req.internal => marker.id <= IdAt(5) /\ ~marker.xor

\* Nothing is in the stream before the region is.
Fresh == pc = "pack" => cursor = 0 /\ region = Raw("none")

\* What was returned came from the candidates before the next one.
Earlier ==
  /\ results \subseteq [at : 1 .. 7, len : Nat]
  /\ pc = "pack" => results = {}
  /\ pc = "try" => \A r \in results : r.at < next
  /\ \A r \in results : r.at = 1 => SelectTable(req) >= 1

\* Nothing is chosen before the first candidate.
Chosen == pc = "pack" \/ (pc = "try" /\ next = 1) => bestId = 0 /\ bestXor = FALSE

\* The counters by where the walk is: nothing is committed before a choice is made,
\* the best so far was counted as a try, and a choice counts once.
Unit(slot) == [s \in Slots |-> IF s = slot THEN 1 ELSE 0]
Counted ==
  /\ stats \in [attempt : [Slots -> Nat], commit : [Slots -> Nat]]
  /\ bestId >= 1 => stats.attempt[bestId] >= 1
  /\ \/ /\ stats.commit = [s \in Slots |-> 0]
        /\ pc \in {"pack", "repack", "read", "done", "failed"} => results = {}
     \/ /\ pc \in {"repack", "read", "done", "failed"}
        /\ \E slot \in Slots :
             /\ stats.commit = Unit(slot)
             /\ slot # 0 => stats.attempt[slot] >= 1

\* What is committed is the best candidate and pays.
BestCommitted == TypeOK /\ SmallestGatedWins /\ CodedIsSmaller
=============================================================================
