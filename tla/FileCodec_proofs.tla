-------------------------- MODULE FileCodec_proofs --------------------------
(***************************************************************************)
(* What a file owes its caller, for every input, block size, segment       *)
(* policy, table size and table build: every byte of a block has a code in *)
(* the table of its block, the decoder is under the table each block was   *)
(* encoded with when it meets it, so that an accepted file is the input,   *)
(* and a file that kept its tail is accepted; and a file never holds more  *)
(* tables than segments, nor more bits than under a fresh table for each.  *)
(***************************************************************************)
EXTENDS FileCodec, FiniteSums, FiniteSetTheorems, SequenceTheorems, TLAPS

\* What is asked of pivco_build_table: a length for every byte value, and a
\* positive one for each that occurs.
Table == [Alphabet -> Nat]
BuildCodes ==
  \A f \in Table : Build(f) \in Table /\ CanCode(f, Build(f))

-----------------------------------------------------------------------------
(* The inductive invariant. *)

Phases == {"idle", "compress", "stored", "decompress", "ok", "error", "failed"}
BlockRecord == [new : Seq(Lens), with : Lens, data : Seq(Alphabet)]
FileRecord == [size : Nat, body : Nat, first : Lens, blocks : Seq(BlockRecord)]

Shapes ==
  /\ phase \in Phases /\ in \in Seq(Alphabet) /\ seg \in Nat
  /\ off \in Nat /\ segEnd \in Nat /\ table \in Lens /\ pending \in BOOLEAN
  /\ file \in FileRecord /\ code \in Lens /\ out \in Seq(Seq(Alphabet))
  /\ file.size = Len(in)

NBlocksHeld == Len(file.blocks)

\* Between files nothing is left of the last one.
Idle ==
  phase = "idle" =>
    /\ in = <<>> /\ off = 0 /\ segEnd = 0 /\ table = <<>> /\ pending = FALSE
    /\ file = NoFile /\ out = <<>>

\* The place k whole blocks into the input, or its end.
Place(k) == Smaller(k * BlockSize, Len(in))

\* The k-th block of the input.
Slice(k) == SubSeq(in, Place(k - 1) + 1, Place(k))

\* The table the records before k + 1 leave in force.
InForce(k) == IF k = 0 THEN file.first ELSE file.blocks[k].with

\* Each record holds its block and says, by its flag or by silence, its table.
Records ==
  \A k \in 1 .. NBlocksHeld :
    /\ file.blocks[k].data = Slice(k)
    /\ file.blocks[k].with = TakesTable(InForce(k - 1), file.blocks[k])
    /\ (k - 1) * BlockSize < Len(in)

\* The encoder stands behind the blocks it wrote, and an unflagged table is the one in force.
Encoding ==
  phase = "compress" =>
    /\ off = Place(NBlocksHeld)
    /\ table = <<>> => NBlocksHeld = 0 /\ off = segEnd /\ ~pending
    /\ table # <<>> /\ ~pending => table = InForce(NBlocksHeld)

\* A segment ends where a block does, and its table codes what is left of it.
Segment ==
  phase = "compress" =>
    /\ \E m \in Nat : segEnd = Place(m)
    /\ off <= segEnd
    /\ \A j \in (off + 1) .. segEnd : table[in[j]] > 0

\* What is stored covers the input unless it lost its tail.
Stored ==
  phase \in {"stored", "decompress", "ok"} =>
    /\ NBlocksHeld <= file.body /\ Len(in) <= file.body * BlockSize
    /\ phase = "stored" => out = <<>>

\* The decoder has the blocks it has read, under the table in force.
Decoding ==
  phase \in {"decompress", "ok"} =>
    /\ NBlocksHeld = file.body /\ Len(out) <= NBlocksHeld
    /\ code = InForce(Len(out))
    /\ \A k \in 1 .. Len(out) : out[k] = file.blocks[k].data
    /\ phase = "ok" => Len(in) <= Len(out) * BlockSize

FileInv ==
  /\ Shapes /\ Idle /\ Records /\ Encoding /\ Segment /\ Stored /\ Decoding
  /\ phase = "compress" => out = <<>>
  /\ Codable /\ OnlyCutRefused

-----------------------------------------------------------------------------
(* Block boundaries, histograms and segment ends. *)

\* A block further is a block more, up to the end, and no place lies between two blocks.
LEMMA Places ==
  ASSUME in \in Seq(Alphabet)
  PROVE  /\ Place(0) = 0
         /\ \A k \in Nat : Place(k) \in Nat /\ Place(k) <= Len(in)
         /\ \A k \in Nat : Place(k) < Len(in) =>
              Place(k) = k * BlockSize /\ Smaller(Place(k) + BlockSize, Len(in)) = Place(k + 1)
         /\ \A k, m \in Nat : Place(k) < Place(m) => Place(k + 1) <= Place(m)
<1>1. Len(in) \in Nat /\ BlockSize \in Nat /\ BlockSize > 0
  BY FileAssumption
<1>2. ASSUME NEW k \in Nat
      PROVE  /\ k * BlockSize \in Nat
             /\ (k + 1) * BlockSize = k * BlockSize + BlockSize
  BY <1>1
<1>3. ASSUME NEW k \in Nat, NEW m \in Nat, k < m
      PROVE  (k + 1) * BlockSize <= m * BlockSize
  <2>1. PICK d \in Nat : m = (k + 1) + d
    <3>1. m - (k + 1) \in Nat /\ m = (k + 1) + (m - (k + 1))
      BY <1>3
    <3>2. QED
      BY <3>1
  <2>2. d * BlockSize \in Nat
    BY <1>2
  <2>3. m * BlockSize = (k + 1) * BlockSize + d * BlockSize
    BY <2>1, <1>1
  <2>4. QED
    BY <2>2, <2>3, <1>1, <1>2
<1>4. Place(0) = 0
  BY <1>1 DEF Place, Smaller
<1>5. ASSUME NEW k \in Nat
      PROVE  /\ Place(k) \in Nat /\ Place(k) <= Len(in)
             /\ Place(k) < Len(in) =>
                  Place(k) = k * BlockSize /\ Smaller(Place(k) + BlockSize, Len(in)) = Place(k + 1)
  BY <1>1, <1>2 DEF Place, Smaller
<1>6. ASSUME NEW k \in Nat, NEW m \in Nat, Place(k) < Place(m)
      PROVE  Place(k + 1) <= Place(m)
  <2>1. CASE k < m
    <3>1. k * BlockSize \in Nat /\ (k + 1) * BlockSize \in Nat /\ m * BlockSize \in Nat
      BY <1>1, <1>2
    <3>2. (k + 1) * BlockSize <= m * BlockSize
      BY <1>3, <2>1
    <3>3. QED
      BY <3>1, <3>2, <1>1 DEF Place, Smaller
  <2>2. CASE m <= k
    <3>1. m * BlockSize <= k * BlockSize
      <4>1. CASE m = k
        BY <4>1, <1>2
      <4>2. CASE m < k
        BY <4>2, <1>3, <1>2, <1>1
      <4>3. QED
        BY <4>1, <4>2, <2>2
    <3>2. QED
      BY <3>1, <1>6, <1>1, <1>2 DEF Place, Smaller
  <2>3. QED
    BY <2>1, <2>2
<1>7. QED
  BY <1>4, <1>5, <1>6

\* A histogram has a count for every byte value, and a positive one for each that occurs.
LEMMA Histograms ==
  ASSUME in \in Seq(Alphabet), NEW lo \in Nat, NEW hi \in Nat, hi <= Len(in)
  PROVE  /\ Histogram(lo, hi) \in Table
         /\ \A j \in (lo + 1) .. hi : Histogram(lo, hi)[in[j]] > 0
<1> DEFINE At(a) == {j \in (lo + 1) .. hi : in[j] = a}
<1>1. ASSUME NEW a \in Alphabet
      PROVE  /\ IsFiniteSet(At(a)) /\ Cardinality(At(a)) \in Nat
             /\ At(a) # {} => Cardinality(At(a)) > 0
  <2>1. IsFiniteSet((lo + 1) .. hi)
    BY FS_Interval
  <2>2. At(a) \subseteq (lo + 1) .. hi
    OBVIOUS
  <2>3. IsFiniteSet(At(a))
    BY <2>1, <2>2, FS_Subset
  <2> HIDE DEF At
  <2>4. Cardinality(At(a)) \in Nat
    BY <2>3, FS_CardinalityType
  <2>5. At(a) # {} => Cardinality(At(a)) # 0
    BY <2>3, FS_EmptySet
  <2>6. QED
    BY <2>3, <2>4, <2>5
<1>2. Histogram(lo, hi) \in Table
  BY <1>1 DEF Histogram, Table
<1>3. ASSUME NEW j \in (lo + 1) .. hi
      PROVE  Histogram(lo, hi)[in[j]] > 0
  <2>1. j \in 1 .. Len(in) /\ lo # hi
    OBVIOUS
  <2>2. in[j] \in Alphabet
    BY <2>1
  <2>3. j \in At(in[j])
    OBVIOUS
  <2>4. Histogram(lo, hi)[in[j]] = Cardinality(At(in[j]))
    BY <2>1, <2>2 DEF Histogram
  <2>5. QED
    BY <1>1, <2>2, <2>3, <2>4
<1>4. QED
  BY <1>2, <1>3

\* The next segment starts where the last one ended and ends where a block does.
LEMMA SegEnds ==
  ASSUME in \in Seq(Alphabet), seg \in Nat, NEW n \in Nat, off = Place(n)
  PROVE  /\ SegEnd \in Nat /\ off <= SegEnd /\ SegEnd <= Len(in)
         /\ \E m \in Nat : SegEnd = Place(m)
<1>1. Len(in) \in Nat /\ BlockSize \in Nat /\ BlockSize > 0 /\ seg * BlockSize \in Nat
  BY FileAssumption
<1>2. off \in Nat /\ off <= Len(in)
  BY Places
<1>3. SegEnd \in Nat /\ off <= SegEnd /\ SegEnd <= Len(in)
  BY <1>1, <1>2 DEF SegEnd, Smaller
<1>4. \E m \in Nat : SegEnd = Place(m)
  <2>1. CASE SegEnd = Len(in)
    <3>1. Len(in) <= Len(in) * BlockSize
      <4>1. PICK b \in Nat : BlockSize = b + 1
        <5>1. BlockSize - 1 \in Nat /\ BlockSize = (BlockSize - 1) + 1
          BY <1>1
        <5>2. QED
          BY <5>1
      <4>2. Len(in) * b \in Nat /\ Len(in) * BlockSize = Len(in) * b + Len(in)
        BY <4>1, <1>1
      <4>3. QED
        BY <4>2, <1>1
    <3>2. Place(Len(in)) = Len(in)
      BY <3>1, <1>1 DEF Place, Smaller
    <3>3. QED
      BY <2>1, <3>2, <1>1
  <2>2. CASE SegEnd # Len(in)
    <3>1. seg # 0 /\ SegEnd = off + seg * BlockSize /\ off + seg * BlockSize < Len(in)
      BY <2>2, <1>1, <1>2 DEF SegEnd, Smaller
    <3>2. off = n * BlockSize
      BY <3>1, <1>1, <1>2, Places
    <3>3. (n + seg) * BlockSize = n * BlockSize + seg * BlockSize
      BY <1>1
    <3>4. Place(n + seg) = SegEnd
      BY <3>1, <3>2, <3>3, <1>1 DEF Place, Smaller
    <3>5. QED
      BY <3>4
  <2>3. QED
    BY <2>1, <2>2
<1>5. QED
  BY <1>3, <1>4

-----------------------------------------------------------------------------
(* The invariant is inductive. *)

\* The empty sequence is a table there is not yet, and a sequence of anything.
LEMMA Nothing == <<>> \in Lens /\ Len(<<>>) = 0 /\ (\A S : <<>> \in Seq(S))
<1>1. <<>> \in Lens
  BY DEF Lens
<1>2. Len(<<>>) = 0
  OBVIOUS
<1>3. ASSUME NEW S PROVE <<>> \in Seq(S)
  OBVIOUS
<1>4. QED
  BY <1>1, <1>2, <1>3

LEMMA FileInit == Init => FileInv
<1> SUFFICES ASSUME Init PROVE FileInv
  OBVIOUS
<1>1. NoFile \in FileRecord /\ NoFile.blocks = <<>> /\ NoFile.size = 0
  BY DEF NoFile, FileRecord, Lens
<1>2. Shapes
  <2>1. /\ in \in Seq(Alphabet) /\ out \in Seq(Seq(Alphabet)) /\ table \in Lens /\ code \in Lens
        /\ file.size = Len(in)
    BY <1>1, Nothing DEF Init
  <2>2. QED
    BY <1>1, <2>1 DEF Init, Shapes, Phases
<1>3. Idle /\ Records /\ Encoding /\ Segment /\ Stored /\ Decoding
  BY <1>1 DEF Init, Idle, Records, Encoding, Segment, Stored, Decoding, NBlocksHeld
<1>4. Codable /\ OnlyCutRefused
  BY <1>1 DEF Init, Codable, OnlyCutRefused
<1>5. QED
  BY <1>2, <1>3, <1>4 DEF Init, FileInv

\* A step that leaves the file's records and the input alone keeps what they say.
LEMMA SameRecords ==
  ASSUME Records, Codable, in' = in, file'.blocks = file.blocks,
         file.blocks = <<>> \/ file'.first = file.first
  PROVE  Records' /\ Codable'
<1>1. ASSUME NEW k PROVE Slice(k)' = Slice(k)
  BY DEF Slice, Place
<1>2. ASSUME NEW k \in 1 .. NBlocksHeld PROVE InForce(k - 1)' = InForce(k - 1)
  BY DEF InForce, NBlocksHeld
<1>3. NBlocksHeld' = NBlocksHeld
  BY DEF NBlocksHeld
<1>4. Records'
  BY <1>1, <1>2, <1>3 DEF Records
<1>5. Codable'
  BY DEF Codable
<1>6. QED
  BY <1>4, <1>5

LEMMA StartCompressKeeps ==
  ASSUME FileInv, NEW i \in Inputs, NEW s \in SegBlocks, StartCompress(i, s)
  PROVE  FileInv'
<1>1. i \in Seq(Alphabet) /\ s \in Nat
  BY FileAssumption
<1>2. /\ off = 0 /\ segEnd = 0 /\ table = <<>> /\ pending = FALSE /\ file = NoFile /\ out = <<>>
      /\ code \in Lens
  BY DEF FileInv, Idle, Shapes, StartCompress
<1>3. /\ file' \in FileRecord /\ file'.size = Len(i) /\ file'.blocks = <<>>
  <2>1. file' = [size |-> Len(i), body |-> 0, first |-> <<>>, blocks |-> <<>>]
    BY <1>2 DEF StartCompress, NoFile
  <2>2. Len(i) \in Nat
    BY <1>1
  <2>3. QED
    BY <2>1, <2>2, Nothing DEF FileRecord
<1>4. /\ in' = i /\ seg' = s /\ phase' = "compress"
      /\ off' = 0 /\ segEnd' = 0 /\ table' = <<>> /\ pending' = FALSE /\ out' = <<>> /\ code' = code
  BY <1>2 DEF StartCompress
<1>5. Shapes'
  <2>1. out' \in Seq(Seq(Alphabet)) /\ table' \in Lens
    BY <1>3, <1>4, Nothing
  <2>2. QED
    BY <1>1, <1>2, <1>3, <1>4, <2>1 DEF Shapes, Phases
<1>6. NBlocksHeld' = 0 /\ Place(0)' = 0 /\ 0 \in Nat
  BY <1>1, <1>3, <1>4, FileAssumption DEF NBlocksHeld, Place, Smaller
<1>7. Records' /\ Codable'
  BY <1>3, <1>4, <1>6 DEF Records, Codable
<1>8. Encoding' /\ Segment'
  BY <1>3, <1>4, <1>6 DEF Encoding, Segment
<1>9. Idle' /\ Stored' /\ Decoding' /\ OnlyCutRefused'
  BY <1>3, <1>4 DEF Idle, Stored, Decoding, OnlyCutRefused
<1>10. QED
  BY <1>4, <1>5, <1>7, <1>8, <1>9 DEF FileInv

\* The three ways a segment gets its table.
LEMMA SegmentKeeps ==
  ASSUME FileInv, BuildCodes, KeepTable \/ FirstTable \/ NewTable
  PROVE  FileInv'
<1> DEFINE hist == Histogram(off, SegEnd)
<1>1. /\ phase = "compress" /\ off = segEnd /\ in \in Seq(Alphabet) /\ seg \in Nat
      /\ off \in Nat /\ NBlocksHeld \in Nat /\ off = Place(NBlocksHeld)
  BY DEF FileInv, Shapes, Encoding, KeepTable, FirstTable, NewTable, AtSegment, MoreInput,
         NBlocksHeld, FileRecord
<1>2. /\ SegEnd \in Nat /\ off <= SegEnd /\ SegEnd <= Len(in)
      /\ \E m \in Nat : SegEnd = Place(m)
  BY <1>1, SegEnds
<1>3. hist \in Table /\ \A j \in (off + 1) .. SegEnd : hist[in[j]] > 0
  BY <1>1, <1>2, Histograms
<1>4. ASSUME NEW j \in (off + 1) .. SegEnd PROVE in[j] \in Alphabet
  BY <1>1, <1>2
<1>5. Build(hist) \in Table /\ CanCode(hist, Build(hist))
  BY <1>3 DEF BuildCodes
<1>6. /\ phase' = phase /\ in' = in /\ seg' = seg /\ off' = off /\ segEnd' = SegEnd
      /\ code' = code /\ out' = out
  BY DEF KeepTable, FirstTable, NewTable
<1>7. table' \in Lens /\ CanCode(hist, table')
  <2>1. CASE KeepTable
    BY <2>1 DEF KeepTable, Keeps, FileInv, Shapes
  <2>2. CASE FirstTable
    BY <2>2, <1>5 DEF FirstTable, Lens, Table
  <2>3. CASE NewTable
    BY <2>3, <1>5 DEF NewTable, Lens, Table
  <2>4. QED
    BY <2>1, <2>2, <2>3
<1>8. table' # <<>>
  <2>1. CASE KeepTable
    BY <2>1 DEF KeepTable
  <2>2. CASE FirstTable \/ NewTable
    <3>1. table' = Build(hist)
      BY <2>2 DEF FirstTable, NewTable
    <3>2. DOMAIN table' = Alphabet
      BY <3>1, <1>5 DEF Table
    <3>3. DOMAIN <<>> = {}
      OBVIOUS
    <3>4. QED
      BY <3>2, <3>3, FileAssumption
  <2>3. QED
    BY <2>1, <2>2
<1>9. /\ file' \in FileRecord /\ file'.blocks = file.blocks /\ file'.size = file.size
      /\ file'.body = file.body
  <2>1. CASE FirstTable
    BY <2>1, <1>5 DEF FirstTable, FileInv, Shapes, FileRecord, Lens, Table
  <2>2. CASE KeepTable \/ NewTable
    BY <2>2 DEF KeepTable, NewTable, FileInv, Shapes
  <2>3. QED
    BY <2>1, <2>2
<1>10. /\ pending' \in BOOLEAN
       /\ file.blocks = <<>> \/ file'.first = file.first
       /\ ~pending' => table' = InForce(NBlocksHeld)'
  <2>1. CASE KeepTable
    BY <2>1, <1>1 DEF KeepTable, FileInv, Shapes, Encoding, InForce, NBlocksHeld
  <2>2. CASE FirstTable
    <3>1. NBlocksHeld = 0 /\ file.blocks = <<>>
      BY <2>2, <1>1 DEF FirstTable, FileInv, Encoding, NBlocksHeld, Shapes, FileRecord
    <3>2. file'.first = table'
      BY <2>2 DEF FirstTable, FileInv, Shapes, FileRecord
    <3>3. QED
      BY <2>2, <3>1, <3>2, <1>9 DEF FirstTable, FileInv, Shapes, InForce, NBlocksHeld
  <2>3. CASE NewTable
    BY <2>3 DEF NewTable
  <2>4. QED
    BY <2>1, <2>2, <2>3
<1>11. Shapes'
  BY <1>1, <1>2, <1>6, <1>7, <1>9, <1>10 DEF FileInv, Shapes
<1>12. Records' /\ Codable'
  BY <1>6, <1>9, <1>10, SameRecords DEF FileInv
<1>13. Encoding'
  BY <1>1, <1>6, <1>8, <1>9, <1>10 DEF Encoding, NBlocksHeld, Place
<1>14. Segment'
  <2>1. (\E m \in Nat : segEnd = Place(m))'
    BY <1>2, <1>6 DEF Place
  <2>2. ASSUME NEW j \in (off + 1) .. SegEnd PROVE table'[in[j]] > 0
    BY <1>3, <1>4, <1>7 DEF CanCode
  <2>3. QED
    BY <2>1, <2>2, <1>2, <1>6 DEF Segment
<1>15. Idle' /\ Stored' /\ Decoding' /\ OnlyCutRefused' /\ out' = <<>>
  BY <1>1, <1>6 DEF FileInv, Idle, Stored, Decoding, OnlyCutRefused
<1>16. QED
  BY <1>11, <1>12, <1>13, <1>14, <1>15 DEF FileInv

\* A block is appended whose table is the segment's and whose flag says so.
LEMMA EncodeBlockKeeps ==
  ASSUME FileInv, EncodeBlock
  PROVE  FileInv'
<1>0. PICK n \in Nat : n = NBlocksHeld
  BY DEF FileInv, Shapes, FileRecord, NBlocksHeld
<1> DEFINE end == Smaller(off + BlockSize, Len(in))
           b   == [new  |-> IF pending THEN <<table>> ELSE <<>>,
                   with |-> table, data |-> SubSeq(in, off + 1, end)]
<1>1. /\ phase = "compress" /\ off # segEnd /\ off < Len(in) /\ in \in Seq(Alphabet)
      /\ off \in Nat /\ table \in Lens /\ n \in Nat /\ off = Place(n)
      /\ file \in FileRecord /\ file.blocks \in Seq(BlockRecord) /\ pending \in BOOLEAN
      /\ Len(in) \in Nat
  BY <1>0 DEF FileInv, Shapes, Encoding, EncodeBlock, FileRecord
<1>2. end = Place(n + 1) /\ off = n * BlockSize /\ n * BlockSize < Len(in)
  BY <1>1, Places
<1>3. end \in Nat /\ end <= Len(in) /\ off < end
  BY <1>1, FileAssumption DEF Smaller
<1>4. end <= segEnd
  <2>1. PICK m \in Nat : segEnd = Place(m)
    BY <1>1 DEF FileInv, Segment
  <2>2. Place(n) < Place(m)
    BY <2>1, <1>1 DEF FileInv, Shapes, Segment
  <2>3. QED
    BY <2>1, <2>2, <1>1, <1>2, Places
<1>5. /\ b.with = table /\ b.data = SubSeq(in, off + 1, end)
      /\ b.new = IF pending THEN <<table>> ELSE <<>>
  OBVIOUS
<1>6. b \in BlockRecord
  <2>1. SubSeq(in, off + 1, end) \in Seq(Alphabet)
    BY <1>1, <1>3
  <2>2. <<table>> \in Seq(Lens) /\ <<>> \in Seq(Lens)
    BY <1>1, Nothing
  <2>3. b.new \in Seq(Lens)
    BY <1>5, <2>2
  <2>4. QED
    BY <1>1, <2>1, <2>2, <2>3 DEF BlockRecord
<1> HIDE DEF b
<1>7. /\ file'.blocks = Append(file.blocks, b) /\ file' \in FileRecord
      /\ file'.size = file.size /\ file'.body = file.body /\ file'.first = file.first
  <2>1. file' = [file EXCEPT !.blocks = Append(@, b)]
    BY DEF EncodeBlock, b
  <2>2. Append(file.blocks, b) \in Seq(BlockRecord)
    BY <1>1, <1>6
  <2>3. QED
    BY <1>1, <2>1, <2>2 DEF FileRecord
<1>8. /\ phase' = phase /\ in' = in /\ seg' = seg /\ segEnd' = segEnd /\ table' = table
      /\ code' = code /\ out' = out /\ off' = end /\ pending' = FALSE
  BY DEF EncodeBlock, AfterBlock
<1>9. /\ NBlocksHeld' = n + 1 /\ file'.blocks[n + 1] = b
      /\ \A k \in 1 .. n : file'.blocks[k] = file.blocks[k]
  BY <1>0, <1>1, <1>6, <1>7 DEF NBlocksHeld
<1>10. Shapes'
  BY <1>1, <1>3, <1>7, <1>8 DEF FileInv, Shapes
<1>11. Records'
  <2>1. ASSUME NEW k PROVE Slice(k)' = Slice(k)
    BY <1>8 DEF Slice, Place
  <2>2. ASSUME NEW k \in 0 .. n PROVE InForce(k)' = InForce(k)
    <3>1. CASE k = 0
      BY <3>1, <1>7 DEF InForce
    <3>2. CASE k # 0
      <4>1. k \in 1 .. n
        BY <3>2
      <4>2. QED
        BY <3>2, <4>1, <1>9 DEF InForce
    <3>3. QED
      BY <3>1, <3>2
  <2>3. ASSUME NEW k \in 1 .. n
        PROVE  /\ file'.blocks[k].data = Slice(k)
               /\ file'.blocks[k].with = TakesTable(InForce(k - 1), file'.blocks[k])
               /\ (k - 1) * BlockSize < Len(in)
    BY <1>0, <1>9 DEF FileInv, Records
  <2>4. Slice(n + 1) = b.data
    <3>1. (n + 1) - 1 = n
      BY <1>1
    <3>2. QED
      BY <3>1, <1>1, <1>2, <1>5 DEF Slice
  <2>5. TakesTable(InForce(n), b) = table
    <3>1. CASE pending
      BY <3>1, <1>5 DEF TakesTable
    <3>2. CASE ~pending
      <4>1. table # <<>> /\ table = InForce(n)
        BY <3>2, <1>0, <1>1 DEF FileInv, Encoding
      <4>2. QED
        BY <4>1, <3>2, <1>5 DEF TakesTable
    <3>3. QED
      BY <3>1, <3>2
  <2>6. ASSUME NEW k \in 1 .. (n + 1)
        PROVE  /\ file'.blocks[k].data = Slice(k)
               /\ file'.blocks[k].with = TakesTable(InForce(k - 1), file'.blocks[k])
               /\ (k - 1) * BlockSize < Len(in)
    <3>1. CASE k \in 1 .. n
      BY <3>1, <2>3
    <3>2. CASE k = n + 1
      <4>1. k - 1 = n
        BY <3>2, <1>1
      <4>2. QED
        BY <3>2, <4>1, <1>2, <1>5, <1>9, <2>4, <2>5
    <3>3. QED
      BY <3>1, <3>2, <1>1
  <2>7. ASSUME NEW k \in 1 .. (n + 1) PROVE InForce(k - 1)' = InForce(k - 1)
    BY <2>2, <1>1
  <2>8. QED
    BY <2>1, <2>6, <2>7, <1>8, <1>9 DEF Records
<1>12. Codable'
  <2>1. ASSUME NEW j \in DOMAIN b.data PROVE b.with[b.data[j]] > 0
    <3>1. j \in 1 .. (end - off) /\ b.data[j] = in[off + j]
      BY <1>1, <1>3, <1>5
    <3>2. off + j \in (off + 1) .. segEnd
      BY <3>1, <1>1, <1>3, <1>4 DEF FileInv, Shapes
    <3>3. QED
      BY <3>1, <3>2, <1>1, <1>5 DEF FileInv, Segment
  <2>2. DOMAIN file'.blocks = 1 .. (n + 1) /\ DOMAIN file.blocks = 1 .. n
    BY <1>0, <1>1, <1>6, <1>7 DEF NBlocksHeld
  <2>3. ASSUME NEW k \in 1 .. (n + 1), NEW j \in DOMAIN file'.blocks[k].data
        PROVE  file'.blocks[k].with[file'.blocks[k].data[j]] > 0
    <3>1. CASE k \in 1 .. n
      BY <3>1, <2>2, <1>9 DEF FileInv, Codable
    <3>2. CASE k = n + 1
      BY <3>2, <2>1, <1>9
    <3>3. QED
      BY <3>1, <3>2, <1>1
  <2>4. QED
    BY <2>2, <2>3 DEF Codable
<1>13. Encoding'
  <2>1. InForce(n + 1)' = table
    BY <1>1, <1>5, <1>9 DEF InForce
  <2>2. off' = Place(n + 1)'
    BY <1>2, <1>8 DEF Place
  <2>3. table # <<>>
    BY <1>1 DEF FileInv, Encoding
  <2>4. QED
    BY <2>1, <2>2, <2>3, <1>8, <1>9 DEF Encoding
<1>14. Segment'
  <2>1. (\E m \in Nat : segEnd = Place(m))'
    BY <1>1, <1>8 DEF FileInv, Segment, Place
  <2>2. \A j \in (end + 1) .. segEnd : j \in (off + 1) .. segEnd
    BY <1>1, <1>3, <1>10, <1>8 DEF Shapes
  <2>3. QED
    BY <2>1, <2>2, <1>1, <1>4, <1>8 DEF FileInv, Segment
<1>15. Idle' /\ Stored' /\ Decoding' /\ OnlyCutRefused' /\ out' = <<>>
  BY <1>1, <1>8 DEF FileInv, Idle, Stored, Decoding, OnlyCutRefused
<1>16. QED
  BY <1>10, <1>11, <1>12, <1>13, <1>14, <1>15 DEF FileInv

\* The encoder stops when the blocks cover the input.
LEMMA FinishCompressKeeps ==
  ASSUME FileInv, FinishCompress
  PROVE  FileInv'
<1>1. /\ phase = "compress" /\ in \in Seq(Alphabet) /\ Len(in) \in Nat /\ off \in Nat
      /\ NBlocksHeld \in Nat /\ off = Place(NBlocksHeld) /\ ~MoreInput /\ file \in FileRecord
  BY DEF FileInv, Shapes, Encoding, FinishCompress, NBlocksHeld, FileRecord
<1>2. Len(in) <= NBlocksHeld * BlockSize
  <2>1. ~(off < Len(in))
    BY <1>1 DEF MoreInput
  <2>2. NBlocksHeld * BlockSize \in Nat
    BY <1>1, FileAssumption
  <2>3. QED
    BY <2>1, <2>2, <1>1 DEF Place, Smaller
<1>3. /\ phase' = "stored" /\ in' = in /\ seg' = seg /\ off' = off /\ segEnd' = segEnd
      /\ table' = table /\ pending' = pending /\ code' = code /\ out' = out /\ out = <<>>
  BY <1>1 DEF FinishCompress, encVars, FileInv
<1>4. /\ file' \in FileRecord /\ file'.blocks = file.blocks /\ file'.first = file.first
      /\ file'.size = file.size /\ file'.body = NBlocksHeld
  BY <1>1 DEF FinishCompress, FileRecord, NBlocksHeld
<1>5. Shapes'
  BY <1>3, <1>4 DEF FileInv, Shapes, Phases
<1>6. Records' /\ Codable'
  BY <1>3, <1>4, SameRecords DEF FileInv
<1>7. Stored'
  BY <1>1, <1>2, <1>3, <1>4 DEF Stored, NBlocksHeld
<1>8. Idle' /\ Encoding' /\ Segment' /\ Decoding' /\ OnlyCutRefused'
  BY <1>3 DEF Idle, Encoding, Segment, Decoding, OnlyCutRefused
<1>9. QED
  BY <1>3, <1>5, <1>6, <1>7, <1>8 DEF FileInv

\* A file without its last record is a file whose other records are the same.
LEMMA LoseTailKeeps ==
  ASSUME FileInv, LoseTail
  PROVE  FileInv'
<1> DEFINE n == NBlocksHeld
<1>1. /\ phase = "stored" /\ file \in FileRecord /\ file.blocks \in Seq(BlockRecord)
      /\ file.blocks # <<>> /\ out = <<>>
  BY DEF FileInv, Shapes, LoseTail, FileRecord, Stored
<1>2. n \in Nat /\ n > 0
  BY <1>1 DEF NBlocksHeld
<1>3. /\ phase' = phase /\ in' = in /\ seg' = seg /\ off' = off /\ segEnd' = segEnd
      /\ table' = table /\ pending' = pending /\ code' = code /\ out' = out
  BY DEF LoseTail, encVars
<1>4. /\ file' \in FileRecord /\ file'.blocks = SubSeq(file.blocks, 1, n - 1)
      /\ file'.first = file.first /\ file'.size = file.size /\ file'.body = file.body
  <2>1. SubSeq(file.blocks, 1, n - 1) \in Seq(BlockRecord)
    BY <1>1, <1>2 DEF NBlocksHeld
  <2>2. file' = [file EXCEPT !.blocks = SubSeq(@, 1, n - 1)]
    BY DEF LoseTail, NBlocksHeld
  <2>3. QED
    BY <1>1, <2>1, <2>2 DEF FileRecord
<1>5. /\ NBlocksHeld' = n - 1 /\ DOMAIN file'.blocks = 1 .. (n - 1)
      /\ DOMAIN file.blocks = 1 .. n
      /\ \A k \in 1 .. (n - 1) : file'.blocks[k] = file.blocks[k]
  BY <1>1, <1>2, <1>4 DEF NBlocksHeld
<1>6. Shapes'
  BY <1>3, <1>4 DEF FileInv, Shapes
<1>7. Records'
  <2>1. ASSUME NEW k PROVE Slice(k)' = Slice(k)
    BY <1>3 DEF Slice, Place
  <2>2. ASSUME NEW k \in 1 .. (n - 1) PROVE InForce(k - 1)' = InForce(k - 1)
    BY <1>2, <1>4, <1>5 DEF InForce
  <2>3. ASSUME NEW k \in 1 .. (n - 1) PROVE k \in 1 .. n
    BY <1>2
  <2>4. QED
    BY <2>1, <2>2, <2>3, <1>3, <1>5 DEF FileInv, Records
<1>8. Codable'
  BY <1>2, <1>5 DEF FileInv, Codable
<1>9. Stored'
  BY <1>1, <1>2, <1>3, <1>4, <1>5 DEF FileInv, Stored, Shapes, FileRecord
<1>10. Idle' /\ Encoding' /\ Segment' /\ Decoding' /\ OnlyCutRefused'
  BY <1>1, <1>3 DEF Idle, Encoding, Segment, Decoding, OnlyCutRefused
<1>11. QED
  BY <1>1, <1>3, <1>6, <1>7, <1>8, <1>9, <1>10 DEF FileInv

\* The decoder starts under the first table, or refuses a file that is short.
LEMMA StartDecompressKeeps ==
  ASSUME FileInv, StartDecompress
  PROVE  FileInv'
<1>1. /\ phase = "stored" /\ file \in FileRecord /\ NBlocksHeld \in Nat /\ out = <<>>
      /\ NBlocksHeld <= file.body /\ file.body \in Nat
  BY DEF FileInv, Shapes, StartDecompress, FileRecord, Stored, NBlocksHeld
<1>2. /\ in' = in /\ seg' = seg /\ off' = off /\ segEnd' = segEnd /\ table' = table
      /\ pending' = pending /\ file' = file /\ out' = out
  BY DEF StartDecompress, encVars
<1>3. Records' /\ Codable'
  BY <1>2, SameRecords DEF FileInv
<1>4. CASE NBlocksHeld < file.body
  <2>1. phase' = "error" /\ code' = code
    BY <1>4 DEF StartDecompress, NBlocksHeld
  <2>2. Shapes'
    BY <2>1, <1>2 DEF FileInv, Shapes, Phases
  <2>3. OnlyCutRefused'
    BY <1>2, <1>4 DEF OnlyCutRefused, NBlocksHeld
  <2>4. Idle' /\ Encoding' /\ Segment' /\ Stored' /\ Decoding'
    BY <2>1 DEF Idle, Encoding, Segment, Stored, Decoding
  <2>5. QED
    BY <1>3, <2>1, <2>2, <2>3, <2>4 DEF FileInv
<1>5. CASE ~(NBlocksHeld < file.body)
  <2>1. phase' = "decompress" /\ code' = file.first
    BY <1>5 DEF StartDecompress, NBlocksHeld
  <2>2. Shapes'
    BY <1>1, <2>1, <1>2 DEF FileInv, Shapes, Phases, FileRecord
  <2>3. Stored'
    BY <1>1, <1>2, <2>1 DEF FileInv, Stored, NBlocksHeld
  <2>4. Decoding'
    <3>1. Len(out) = 0
      BY <1>1
    <3>2. InForce(0)' = code' /\ NBlocksHeld' = NBlocksHeld
      BY <1>2, <2>1 DEF InForce, NBlocksHeld
    <3>3. QED
      BY <3>1, <3>2, <1>1, <1>2, <1>5, <2>1 DEF Decoding, InForce
  <2>5. Idle' /\ Encoding' /\ Segment' /\ OnlyCutRefused'
    BY <2>1 DEF Idle, Encoding, Segment, OnlyCutRefused
  <2>6. QED
    BY <1>3, <2>1, <2>2, <2>3, <2>4, <2>5 DEF FileInv
<1>6. QED
  BY <1>4, <1>5

\* The next block is decoded under the table it was encoded with.
LEMMA DecodeBlockKeeps ==
  ASSUME FileInv, DecodeBlock
  PROVE  FileInv'
<1>0. PICK d \in Nat : d = Len(out)
  BY DEF FileInv, Shapes
<1>1. /\ phase = "decompress" /\ file \in FileRecord /\ file.blocks \in Seq(BlockRecord)
      /\ out \in Seq(Seq(Alphabet)) /\ d < NBlocksHeld /\ NBlocksHeld \in Nat
  BY <1>0 DEF FileInv, Shapes, FileRecord, DecodeBlock, Unread, NBlocksHeld
<1>2. /\ phase' = phase /\ in' = in /\ seg' = seg /\ off' = off /\ segEnd' = segEnd
      /\ table' = table /\ pending' = pending /\ file' = file
  BY DEF DecodeBlock, encVars
<1>3. Block = file.blocks[d + 1] /\ Block \in BlockRecord /\ d + 1 \in 1 .. NBlocksHeld
  BY <1>0, <1>1 DEF Block, NBlocksHeld
<1>4. TakesTable(code, Block) = Block.with
  <2>1. code = InForce(d)
    BY <1>0, <1>1 DEF FileInv, Decoding
  <2>2. (d + 1) - 1 = d
    BY <1>0
  <2>3. file.blocks[d + 1].with = TakesTable(InForce((d + 1) - 1), file.blocks[d + 1])
    BY <1>3 DEF FileInv, Records
  <2>4. QED
    BY <2>1, <2>2, <2>3, <1>3
<1>5. code' = Block.with /\ out' = Append(out, Block.data)
  BY <1>4 DEF DecodeBlock, Decoded
<1>6. Block.with \in Lens /\ Block.data \in Seq(Alphabet)
  BY <1>3 DEF BlockRecord
<1>7. /\ out' \in Seq(Seq(Alphabet)) /\ Len(out') = d + 1 /\ out'[d + 1] = Block.data
      /\ \A k \in 1 .. d : out'[k] = out[k]
  BY <1>0, <1>1, <1>5, <1>6
<1>8. Shapes'
  BY <1>2, <1>5, <1>6, <1>7 DEF FileInv, Shapes
<1>9. Records' /\ Codable'
  BY <1>2, SameRecords DEF FileInv
<1>10. Stored'
  BY <1>1, <1>2 DEF FileInv, Stored, NBlocksHeld
<1>11. Decoding'
  <2>1. code' = InForce(d + 1)'
    BY <1>0, <1>2, <1>3, <1>5 DEF InForce
  <2>2. NBlocksHeld' = NBlocksHeld /\ NBlocksHeld = file.body /\ d + 1 <= NBlocksHeld
    BY <1>0, <1>1, <1>2 DEF FileInv, Decoding, NBlocksHeld
  <2>3. ASSUME NEW k \in 1 .. (d + 1) PROVE out'[k] = file.blocks[k].data
    <3>1. CASE k \in 1 .. d
      BY <3>1, <1>0, <1>1, <1>7 DEF FileInv, Decoding
    <3>2. CASE k = d + 1
      BY <3>2, <1>3, <1>7
    <3>3. QED
      BY <3>1, <3>2, <1>0
  <2>4. QED
    BY <2>1, <2>2, <2>3, <1>1, <1>2, <1>7 DEF Decoding
<1>12. Idle' /\ Encoding' /\ Segment' /\ OnlyCutRefused'
  BY <1>1, <1>2 DEF Idle, Encoding, Segment, OnlyCutRefused
<1>13. QED
  BY <1>1, <1>2, <1>8, <1>9, <1>10, <1>11, <1>12 DEF FileInv

\* The decoder stops when it has the size the header names, or the records are at an end.
LEMMA FinishDecompressKeeps ==
  ASSUME FileInv, FinishDecompress
  PROVE  FileInv'
<1>1. /\ phase = "decompress" /\ in \in Seq(Alphabet) /\ Len(in) \in Nat /\ Len(out) \in Nat
      /\ file.size = Len(in) /\ NBlocksHeld \in Nat /\ NBlocksHeld = file.body
      /\ Len(out) <= NBlocksHeld /\ Len(in) <= file.body * BlockSize
  BY DEF FileInv, Shapes, FinishDecompress, FileRecord, Stored, Decoding, NBlocksHeld
<1>2. Len(out) * BlockSize \in Nat
  BY <1>1, FileAssumption
<1>3. Len(in) <= Len(out) * BlockSize
  <2>1. CASE Len(out) < NBlocksHeld
    <3>1. ~(Written < file.size)
      BY <2>1 DEF FinishDecompress, Unread, NBlocksHeld
    <3>2. QED
      BY <3>1, <1>1, <1>2 DEF Written, Smaller
  <2>2. CASE Len(out) = NBlocksHeld
    BY <2>2, <1>1
  <2>3. QED
    BY <2>1, <2>2, <1>1
<1>4. Written = file.size
  BY <1>1, <1>2, <1>3 DEF Written, Smaller
<1>5. /\ phase' = "ok" /\ in' = in /\ seg' = seg /\ off' = off /\ segEnd' = segEnd
      /\ table' = table /\ pending' = pending /\ file' = file /\ code' = code /\ out' = out
  BY <1>4 DEF FinishDecompress, encVars
<1>6. Shapes'
  BY <1>5 DEF FileInv, Shapes, Phases
<1>7. Records' /\ Codable'
  BY <1>5, SameRecords DEF FileInv
<1>8. Stored' /\ Decoding'
  BY <1>1, <1>3, <1>5 DEF FileInv, Stored, Decoding, NBlocksHeld, InForce
<1>9. Idle' /\ Encoding' /\ Segment' /\ OnlyCutRefused'
  BY <1>5 DEF Idle, Encoding, Segment, OnlyCutRefused
<1>10. QED
  BY <1>5, <1>6, <1>7, <1>8, <1>9 DEF FileInv

\* A call that fails leaves everything as it is.
LEMMA FailKeeps ==
  ASSUME FileInv, FailCompress \/ FailDecompress
  PROVE  FileInv'
<1>1. /\ phase' = "failed" /\ in' = in /\ seg' = seg /\ off' = off /\ segEnd' = segEnd
      /\ table' = table /\ pending' = pending /\ file' = file /\ code' = code /\ out' = out
  BY DEF FailCompress, FailDecompress, encVars
<1>2. Shapes'
  BY <1>1 DEF FileInv, Shapes, Phases
<1>3. Records' /\ Codable'
  BY <1>1, SameRecords DEF FileInv
<1>4. Idle' /\ Encoding' /\ Segment' /\ Stored' /\ Decoding' /\ OnlyCutRefused'
  BY <1>1 DEF Idle, Encoding, Segment, Stored, Decoding, OnlyCutRefused
<1>5. QED
  BY <1>1, <1>2, <1>3, <1>4 DEF FileInv

LEMMA AgainKeeps ==
  ASSUME FileInv, Again
  PROVE  FileInv'
<1>1. NoFile \in FileRecord /\ NoFile.blocks = <<>> /\ NoFile.size = 0
  BY Nothing DEF NoFile, FileRecord
<1>2. /\ phase' = "idle" /\ in' = <<>> /\ seg' = 0 /\ off' = 0 /\ segEnd' = 0
      /\ table' = <<>> /\ pending' = FALSE /\ file' = NoFile /\ code' = <<>> /\ out' = <<>>
  BY DEF Again
<1>3. Shapes'
  <2>1. /\ in' \in Seq(Alphabet) /\ out' \in Seq(Seq(Alphabet)) /\ table' \in Lens
        /\ code' \in Lens /\ file'.size = Len(in')
    BY <1>1, <1>2, Nothing
  <2>2. QED
    BY <1>1, <1>2, <2>1 DEF Shapes, Phases
<1>4. Idle' /\ Records' /\ Encoding' /\ Segment' /\ Stored' /\ Decoding'
  BY <1>1, <1>2 DEF Idle, Records, Encoding, Segment, Stored, Decoding, NBlocksHeld
<1>5. Codable' /\ OnlyCutRefused'
  BY <1>1, <1>2 DEF Codable, OnlyCutRefused
<1>6. QED
  BY <1>2, <1>3, <1>4, <1>5 DEF FileInv

LEMMA FileNext == BuildCodes => (FileInv /\ [Next]_vars => FileInv')
<1> SUFFICES ASSUME BuildCodes, FileInv, [Next]_vars PROVE FileInv'
  OBVIOUS
<1>1. ASSUME NEW i \in Inputs, NEW s \in SegBlocks, StartCompress(i, s) PROVE FileInv'
  BY <1>1, StartCompressKeeps
<1>2. CASE KeepTable \/ FirstTable \/ NewTable
  BY <1>2, SegmentKeeps
<1>3. CASE EncodeBlock
  BY <1>3, EncodeBlockKeeps
<1>4. CASE FinishCompress
  BY <1>4, FinishCompressKeeps
<1>5. CASE StartDecompress
  BY <1>5, StartDecompressKeeps
<1>6. CASE DecodeBlock
  BY <1>6, DecodeBlockKeeps
<1>7. CASE FinishDecompress
  BY <1>7, FinishDecompressKeeps
<1>8. CASE FailCompress \/ FailDecompress
  BY <1>8, FailKeeps
<1>9. CASE LoseTail
  BY <1>9, LoseTailKeeps
<1>10. CASE Again
  BY <1>10, AgainKeeps
<1>11. CASE UNCHANGED vars
  <2>1. /\ phase' = phase /\ in' = in /\ seg' = seg /\ off' = off /\ segEnd' = segEnd
        /\ table' = table /\ pending' = pending /\ file' = file /\ code' = code /\ out' = out
    BY <1>11 DEF vars
  <2>2. Shapes' /\ Records' /\ Codable'
    BY <2>1, SameRecords DEF FileInv, Shapes
  <2>3. Idle' /\ Encoding' /\ Segment' /\ Stored' /\ Decoding' /\ OnlyCutRefused'
    BY <2>1 DEF FileInv, Idle, Encoding, Segment, Stored, Decoding, OnlyCutRefused,
                NBlocksHeld, Place, InForce
  <2>4. QED
    BY <2>1, <2>2, <2>3 DEF FileInv
<1>12. QED
  BY <1>1, <1>2, <1>3, <1>4, <1>5, <1>6, <1>7, <1>8, <1>9, <1>10, <1>11
  DEF Next, Compress, Decompress

-----------------------------------------------------------------------------
(* What follows from it. *)

\* Byte j is byte r of block q + 1, and block q + 1 begins before it ends.
LEMMA BlockOf ==
  ASSUME in \in Seq(Alphabet), NEW j \in DOMAIN in
  PROVE  LET q == (j - 1) \div BlockSize
             r == ((j - 1) % BlockSize) + 1
         IN  /\ q \in Nat /\ q * BlockSize < Len(in) /\ r \in DOMAIN Slice(q + 1)
             /\ Slice(q + 1)[r] = in[j]
<1> DEFINE q == (j - 1) \div BlockSize
           m == (j - 1) % BlockSize
<1>1. BlockSize \in Nat /\ BlockSize > 0 /\ j - 1 \in Nat /\ Len(in) \in Nat /\ j <= Len(in)
  BY FileAssumption
<1>2. q \in Nat /\ m \in Nat /\ m < BlockSize /\ j - 1 = q * BlockSize + m
  <2>1. \A a, b \in Nat : b > 0 =>
          a \div b \in Nat /\ a % b \in Nat /\ a % b < b /\ a = (a \div b) * b + (a % b)
    BY SMT
  <2>2. QED
    BY <1>1, <2>1
<1> HIDE DEF q, m
<1>3. q * BlockSize \in Nat /\ (q + 1) * BlockSize = q * BlockSize + BlockSize /\ (q + 1) - 1 = q
  BY <1>1, <1>2
<1>4. Place(q) = q * BlockSize /\ q * BlockSize < Len(in)
  BY <1>1, <1>2, <1>3 DEF Place, Smaller
<1>5. /\ Place(q + 1) \in Nat /\ Place(q + 1) <= Len(in)
      /\ q * BlockSize + m + 1 <= Place(q + 1)
  BY <1>1, <1>2, <1>3 DEF Place, Smaller
<1>6. Slice(q + 1) = SubSeq(in, q * BlockSize + 1, Place(q + 1))
  BY <1>3, <1>4 DEF Slice
<1>7. m + 1 \in DOMAIN Slice(q + 1) /\ Slice(q + 1)[m + 1] = in[q * BlockSize + (m + 1)]
  BY <1>1, <1>2, <1>3, <1>4, <1>5, <1>6
<1>8. q * BlockSize + (m + 1) = j
  BY <1>1, <1>2, <1>3
<1>9. QED
  BY <1>2, <1>4, <1>7, <1>8 DEF q, m

\* An accepted file has the input's blocks in their places.
LEMMA InvGivesRoundTrip == FileInv => RoundTrip
<1> SUFFICES ASSUME FileInv, phase = "ok", NEW j \in DOMAIN in
             PROVE  LET k == (j - 1) \div BlockSize + 1
                        i == ((j - 1) % BlockSize) + 1
                    IN  k \in DOMAIN out /\ i \in DOMAIN out[k] /\ out[k][i] = in[j]
  BY DEF RoundTrip
<1> DEFINE q == (j - 1) \div BlockSize
           i == ((j - 1) % BlockSize) + 1
<1>1. /\ in \in Seq(Alphabet) /\ Len(in) \in Nat /\ out \in Seq(Seq(Alphabet))
      /\ Len(out) \in Nat /\ NBlocksHeld \in Nat /\ Len(out) <= NBlocksHeld
      /\ Len(in) <= Len(out) * BlockSize /\ BlockSize \in Nat
  BY FileAssumption DEF FileInv, Shapes, FileRecord, Decoding, NBlocksHeld
<1>2. /\ q \in Nat /\ q * BlockSize < Len(in) /\ i \in DOMAIN Slice(q + 1)
      /\ Slice(q + 1)[i] = in[j]
  BY <1>1, BlockOf
<1> HIDE DEF q, i
<1>3. q < Len(out)
  <2>1. SUFFICES ASSUME Len(out) <= q PROVE FALSE
    BY <1>1, <1>2
  <2>2. PICK e \in Nat : q = Len(out) + e
    <3>1. q - Len(out) \in Nat /\ q = Len(out) + (q - Len(out))
      BY <2>1, <1>1, <1>2
    <3>2. QED
      BY <3>1
  <2>3. /\ e * BlockSize \in Nat /\ Len(out) * BlockSize \in Nat
        /\ q * BlockSize = Len(out) * BlockSize + e * BlockSize
    BY <2>2, <1>1
  <2>4. QED
    BY <2>3, <1>1, <1>2
<1>4. q + 1 \in 1 .. Len(out) /\ q + 1 \in 1 .. NBlocksHeld
  BY <1>1, <1>2, <1>3
<1>5. out[q + 1] = Slice(q + 1)
  BY <1>4 DEF FileInv, Decoding, Records
<1>6. q + 1 \in DOMAIN out
  BY <1>1, <1>4
<1>7. QED
  BY <1>2, <1>5, <1>6 DEF q, i

\* Under a table build that gives every byte that occurs a code, the invariant holds throughout.
THEOREM FileInvariant == BuildCodes => (Spec => []FileInv)
<1> SUFFICES ASSUME BuildCodes PROVE Spec => []FileInv
  OBVIOUS
<1>1. FileInv /\ [Next]_vars => FileInv'
  BY FileNext
<1>2. QED
  BY <1>1, FileInit, PTL DEF Spec

\* Whatever the block size, the segment policy and the tables, an accepted file gives back
\* the input, each block where its number puts it.
THEOREM FileRoundTrip == BuildCodes => (Spec => []RoundTrip)
  BY FileInvariant, InvGivesRoundTrip, PTL

\* Only a file that lost its tail is refused.
THEOREM FileOnlyCutRefused == BuildCodes => (Spec => []OnlyCutRefused)
<1>1. FileInv => OnlyCutRefused
  BY DEF FileInv
<1>2. QED
  BY <1>1, FileInvariant, PTL

\* Every byte of every block has a code in the table the block is coded with.
THEOREM FileCodable == BuildCodes => (Spec => []Codable)
<1>1. FileInv => Codable
  BY DEF FileInv
<1>2. QED
  BY <1>1, FileInvariant, PTL

-----------------------------------------------------------------------------
(* What tables and blocks add up to. *)

\* The end of the g-th segment: a segment further, up to the end of the input.
Step == IF seg = 0 THEN Len(in) ELSE seg * BlockSize
Edge(g) == Smaller(g * Step, Len(in))

\* The g-th segment's counts, and its cost under a fresh table.
SegmentCounts(g) == Histogram((g - 1) * Step, Edge(g))
Fresh(g) == Bits(SegmentCounts(g), Build(SegmentCounts(g))) + TableBits
FreshUpTo(s) == SumOf([g \in 1 .. s |-> Fresh(g)])

\* A table the encoder has made and not yet written.
Owed == IF pending THEN 1 ELSE 0

\* The bits of a sequence of blocks and of a run of bytes under a table; and what the
\* file costs once the rest of the segment is written.
BlocksBits(s) == SumOf([k \in DOMAIN s |-> BlockBits(s[k])])
Run(s, T, lo, hi) == SumOf([j \in (lo + 1) .. hi |-> T[s[j]]])
Spent == BlocksBits(file.blocks) + Run(in, table, off, segEnd)
            + TableBits * (1 + Cardinality(Flagged) + Owed)

\* What is read is what was stored, and the encoder stays within its segment.
Bounds == off <= segEnd /\ segEnd <= Len(in) /\ Len(out) <= NBlocksHeld

\* Every block has a table.
Tabled == \A k \in 1 .. NBlocksHeld : file.blocks[k].with \in Table

\* The encoder is in segment s: there are at most s tables, and up to the end of the
\* segment the file costs no more than with a fresh table for each of the s segments.
Reckoned ==
  table # <<>> =>
    \E s \in 1 .. NSegs :
      /\ segEnd = Edge(s) /\ 1 + Cardinality(Flagged) + Owed <= s
      /\ phase = "compress" /\ in # <<>> => Spent <= FreshUpTo(s)

FitInv == Bounds /\ Tabled /\ Reckoned /\ NeverDearer

-----------------------------------------------------------------------------
(* Sums of lengths. *)

LEMMA SumOfIs ==
  ASSUME NEW g
  PROVE  SumOf(g) = SumOver(DOMAIN g, g)
BY DEF SumOf, SumOver

\* A byte more is one more of its value.
Count(lo, h, a) == Cardinality({j \in (lo + 1) .. h : in[j] = a})

LEMMA CountOneMore ==
  ASSUME NEW lo \in Nat, NEW h \in Nat, lo <= h, NEW a
  PROVE  /\ Count(lo, h, a) \in Nat
         /\ Count(lo, h + 1, a) = Count(lo, h, a) + (IF in[h + 1] = a THEN 1 ELSE 0)
<1> DEFINE At(n) == {j \in (lo + 1) .. n : in[j] = a}
<1>0. ASSUME NEW n PROVE Count(lo, n, a) = Cardinality(At(n))
  BY DEF Count
<1>1. ASSUME NEW n \in Nat PROVE IsFiniteSet(At(n)) /\ Cardinality(At(n)) \in Nat
  <2>1. IsFiniteSet((lo + 1) .. n)
    BY FS_Interval
  <2>2. At(n) \subseteq (lo + 1) .. n
    OBVIOUS
  <2> HIDE DEF At
  <2> QED BY <2>1, <2>2, FS_Subset, FS_CardinalityType
<1>2. h + 1 \notin At(h) /\ At(h + 1) = IF in[h + 1] = a THEN At(h) \cup {h + 1} ELSE At(h)
  OBVIOUS
<1> HIDE DEF At
<1>3. CASE in[h + 1] = a
  <2>1. Cardinality(At(h) \cup {h + 1}) = Cardinality(At(h)) + 1
    BY <1>1, <1>2, FS_AddElement
  <2> QED BY <1>0, <1>1, <1>2, <1>3, <2>1
<1>4. CASE in[h + 1] # a
  BY <1>0, <1>1, <1>2, <1>4
<1> QED BY <1>3, <1>4

\* Counts times lengths add up to the lengths of the bytes.
LEMMA HistogramBits ==
  ASSUME in \in Seq(Alphabet), NEW lo \in Nat, NEW hi \in Nat, lo < hi, hi <= Len(in),
         NEW T \in Table
  PROVE  Bits(Histogram(lo, hi), T) = SumOf([j \in (lo + 1) .. hi |-> T[in[j]]])
<1> DEFINE count(h) == [a \in Alphabet |-> Count(lo, h, a)]
           C(h) == [a \in Alphabet |-> count(h)[a] * T[a]]
           V == [j \in (lo + 1) .. hi |-> T[in[j]]]
           W == {d \in Nat : lo + d <= hi =>
                   SumOver(Alphabet, C(lo + d)) = SumOver((lo + 1) .. (lo + d), V)}
<1>1. IsFiniteSet(Alphabet)
  BY FileAssumption
<1>2. \A j \in (lo + 1) .. hi : in[j] \in Alphabet
  OBVIOUS
<1>3. \A a \in Alphabet : T[a] \in Nat
  BY DEF Table
<1>4. \A j \in (lo + 1) .. hi : V[j] = T[in[j]] /\ V[j] \in Int
  BY <1>2, <1>3
<1>5. ASSUME NEW h \in Nat, lo <= h, NEW a \in Alphabet
      PROVE  /\ count(h)[a] \in Nat /\ C(h)[a] = count(h)[a] * T[a] /\ C(h)[a] \in Int
             /\ count(h + 1)[a] = count(h)[a] + (IF in[h + 1] = a THEN 1 ELSE 0)
  <2>1. /\ count(h)[a] \in Nat
        /\ count(h + 1)[a] = count(h)[a] + (IF in[h + 1] = a THEN 1 ELSE 0)
    BY <1>5, CountOneMore
  <2> HIDE DEF count
  <2> QED BY <1>3, <2>1
<1>6. \A a \in Alphabet : count(lo)[a] = 0
  <2>1. \A a : {j \in (lo + 1) .. lo : in[j] = a} = {}
    OBVIOUS
  <2> QED BY <2>1, FS_EmptySet DEF Count
<1>7. 0 \in W
  <2>1. lo + 0 = lo /\ (lo + 1) .. (lo + 0) = {}
    OBVIOUS
  <2>2. \A a \in Alphabet : C(lo)[a] = 0
    <3> HIDE DEF count
    <3> QED BY <1>3, <1>6
  <2>3. SumOver(Alphabet, C(lo)) = 0
    <3> HIDE DEF C
    <3> QED BY <1>1, <2>2, TotalNone
  <2>4. SumOver({}, V) = 0
    <3> HIDE DEF V
    <3>1. IsFiniteSet({})
      BY FS_EmptySet
    <3> QED BY <3>1, TotalRules
  <2> HIDE DEF C, V
  <2> QED BY <2>1, <2>3, <2>4
<1>8. ASSUME NEW d \in Nat, d \in W PROVE d + 1 \in W
  <2>1. SUFFICES ASSUME lo + (d + 1) <= hi
                 PROVE  SumOver(Alphabet, C(lo + (d + 1))) = SumOver((lo + 1) .. (lo + (d + 1)), V)
    OBVIOUS
  <2>2. PICK h \in Nat : h = lo + d /\ h + 1 = lo + (d + 1) /\ lo <= h
    OBVIOUS
  <2>3. PICK x \in Alphabet : x = in[h + 1]
    BY <1>2, <2>1, <2>2
  <2>4. SumOver(Alphabet, C(h)) = SumOver((lo + 1) .. h, V)
    BY <1>8, <2>1, <2>2
  <2> HIDE DEF W
  <2>5. /\ \A a \in Alphabet : C(h)[a] \in Int /\ C(h + 1)[a] \in Int
        /\ \A a \in Alphabet \ {x} : C(h + 1)[a] = C(h)[a]
        /\ C(h + 1)[x] = C(h)[x] + T[x]
    <3> HIDE DEF C, count
    <3>1. \A a \in Alphabet : C(h)[a] \in Int /\ C(h)[a] = count(h)[a] * T[a] /\ count(h)[a] \in Nat
      BY <1>5, <2>2
    <3>2. \A a \in Alphabet : C(h + 1)[a] \in Int /\ C(h + 1)[a] = count(h + 1)[a] * T[a]
      BY <1>5, <2>2
    <3>3. \A a \in Alphabet : count(h + 1)[a] = count(h)[a] + (IF x = a THEN 1 ELSE 0)
      BY <1>5, <2>2, <2>3
    <3>4. (count(h)[x] + 1) * T[x] = count(h)[x] * T[x] + T[x]
      <4>1. PICK n \in Nat, l \in Int : n = count(h)[x] /\ l = T[x]
        BY <1>3, <3>1
      <4>2. (n + 1) * l = n * l + l
        OBVIOUS
      <4> QED BY <4>1, <4>2
    <3>5. \A a \in Alphabet \ {x} : count(h + 1)[a] = count(h)[a]
      BY <3>1, <3>3
    <3>6. \A a \in Alphabet \ {x} : C(h + 1)[a] = C(h)[a]
      BY <3>1, <3>2, <3>5
    <3>7. C(h + 1)[x] = C(h)[x] + T[x]
      <4>1. count(h + 1)[x] = count(h)[x] + 1
        BY <3>3
      <4> QED BY <3>1, <3>2, <3>4, <4>1
    <3> QED BY <3>1, <3>2, <3>6, <3>7
  <2> HIDE DEF C, V
  <2>6. PICK f, g : f = C(h) /\ g = C(h + 1)
    OBVIOUS
  <2>7. Alphabet \in SUBSET Alphabet /\ IsFiniteSet(Alphabet \ {x})
    BY <1>1, FS_Subset
  <2>8. SumOver(Alphabet, f) = f[x] + SumOver(Alphabet \ {x}, f) /\ SumOver(Alphabet \ {x}, f) \in Int
    <3>1. \A a \in Alphabet : f[a] \in Int
      BY <2>5, <2>6
    <3>2. /\ \A A \in SUBSET Alphabet : SumOver(A, f) \in Int
          /\ \A A \in SUBSET Alphabet : \A a \in A : SumOver(A, f) = f[a] + SumOver(A \ {a}, f)
      BY ONLY <1>1, <3>1, TotalRules
    <3> QED BY ONLY <2>3, <3>2
  <2>9. SumOver(Alphabet, g) = g[x] + SumOver(Alphabet \ {x}, g)
    <3>1. \A a \in Alphabet : g[a] \in Int
      BY <2>5, <2>6
    <3>2. \A A \in SUBSET Alphabet : \A a \in A : SumOver(A, g) = g[a] + SumOver(A \ {a}, g)
      BY ONLY <1>1, <3>1, TotalRules
    <3> QED BY ONLY <2>3, <3>2
  <2>10. SumOver(Alphabet \ {x}, g) = SumOver(Alphabet \ {x}, f)
    BY <2>5, <2>6, <2>7, TotalSame
  <2>11. f[x] \in Int /\ T[x] \in Int /\ g[x] = f[x] + T[x]
    BY <1>3, <2>5, <2>6
  <2>12. SumOver(Alphabet, g) = SumOver(Alphabet, f) + T[x]
    BY <2>8, <2>9, <2>10, <2>11
  <2>13. SumOver((lo + 1) .. (h + 1), V) = V[h + 1] + SumOver((lo + 1) .. h, V)
    <3>1. PICK R : R = (lo + 1) .. (h + 1)
      OBVIOUS
    <3>2. R \in SUBSET R /\ h + 1 \in R /\ R \ {h + 1} = (lo + 1) .. h
      BY <2>2, <3>1
    <3>3. IsFiniteSet(R)
      BY <3>1, <2>2, FS_Interval
    <3>4. \A j \in R : V[j] \in Int
      BY <1>4, <2>1, <2>2, <3>1
    <3>5. SumOver(R, V) = V[h + 1] + SumOver(R \ {h + 1}, V)
      BY <3>2, <3>3, <3>4, TotalRules
    <3> QED BY <3>1, <3>2, <3>5
  <2>14. V[h + 1] = T[x] /\ SumOver((lo + 1) .. h, V) \in Int
    <3>1. V[h + 1] = T[x]
      BY <1>4, <2>1, <2>2, <2>3
    <3>2. SumOver(Alphabet, f) \in Int
      BY <2>8, <2>11
    <3> QED BY <2>4, <2>6, <3>1, <3>2
  <2> QED BY <2>2, <2>4, <2>6, <2>12, <2>13, <2>14, <2>11
<1>9. SumOver(Alphabet, C(hi)) = SumOver((lo + 1) .. hi, V)
  <2>1. hi - lo \in Nat /\ lo + (hi - lo) = hi
    OBVIOUS
  <2>2. hi - lo \in W
    <3> HIDE DEF W
    <3> QED BY <1>7, <1>8, <2>1, NatInduction0
  <2> HIDE DEF C, V
  <2> QED BY <2>1, <2>2
<1>10. Histogram(lo, hi) = count(hi)
  BY DEF Histogram, Count
<1>11. Bits(Histogram(lo, hi), T) = SumOf(C(hi))
  BY <1>10 DEF Bits
<1>12. SumOf(C(hi)) = SumOver(Alphabet, C(hi)) /\ SumOf(V) = SumOver((lo + 1) .. hi, V)
  <2>1. DOMAIN C(hi) = Alphabet /\ DOMAIN V = (lo + 1) .. hi
    OBVIOUS
  <2> HIDE DEF C, V
  <2> QED BY <2>1, SumOfIs
<1> QED BY <1>9, <1>11, <1>12

-----------------------------------------------------------------------------
(* How many blocks and segments there are. *)

LEMMA RoundedUp ==
  ASSUME NEW a \in Nat, NEW b \in Nat \ {0}
  PROVE  (a + b - 1) \div b \in Nat /\ a <= ((a + b - 1) \div b) * b
<1>1. a + b - 1 \in Nat
  OBVIOUS
<1>2. PICK c \in Nat, r \in Nat : c = (a + b - 1) \div b /\ r < b /\ a + b - 1 = c * b + r
  <2>1. \A x, y \in Nat : y > 0 =>
          x \div y \in Nat /\ x % y \in Nat /\ x % y < y /\ x = (x \div y) * y + (x % y)
    BY SMT
  <2> QED BY <1>1, <2>1
<1>3. PICK m \in Nat : m = c * b
  OBVIOUS
<1>4. a <= m
  BY <1>2, <1>3
<1> QED BY <1>2, <1>3, <1>4

LEMMA FewerTimes ==
  ASSUME NEW g \in Nat, NEW c \in Nat, NEW b \in Nat, g * b < c * b
  PROVE  g + 1 <= c
<1>1. SUFFICES ASSUME c <= g PROVE FALSE
  OBVIOUS
<1>2. PICK d \in Nat : g = c + d
  <2>1. g - c \in Nat /\ g = c + (g - c)
    BY <1>1
  <2> QED BY <2>1
<1>3. g * b = c * b + d * b /\ c * b \in Nat /\ d * b \in Nat
  BY <1>2
<1> QED BY <1>3

\* A place before the end of the input lies in one of the blocks and in one of the
\* segments the bound counts.
LEMMA BoundCounts ==
  ASSUME in \in Seq(Alphabet), seg \in Nat
  PROVE  /\ NBlocks \in Nat /\ NSegs \in Nat /\ NSegs >= 1 /\ Step \in Nat
         /\ \A n \in Nat : n * BlockSize < Len(in) => n + 1 <= NBlocks
         /\ \A g \in Nat : g * Step < Len(in) => g + 1 <= NSegs
<1>1. Len(in) \in Nat /\ BlockSize \in Nat \ {0} /\ seg * BlockSize \in Nat /\ Step \in Nat
  BY FileAssumption DEF Step
<1>2. NBlocks \in Nat /\ NBlocks >= 1 /\ Len(in) <= NBlocks * BlockSize
  <2>1. CASE in = <<>>
    BY <1>1, <2>1 DEF NBlocks
  <2>2. CASE in # <<>>
    <3>1. NBlocks = (Len(in) + BlockSize - 1) \div BlockSize
      BY <2>2 DEF NBlocks
    <3>2. NBlocks \in Nat /\ Len(in) <= NBlocks * BlockSize
      BY <1>1, <3>1, RoundedUp
    <3>3. Len(in) > 0
      BY <2>2
    <3>4. NBlocks # 0
      BY <1>1, <3>2, <3>3
    <3> QED BY <3>2, <3>4
  <2> QED BY <2>1, <2>2
<1>3. ASSUME NEW n \in Nat, n * BlockSize < Len(in) PROVE n + 1 <= NBlocks
  <2>1. n * BlockSize \in Nat /\ NBlocks * BlockSize \in Nat
    BY <1>1, <1>2
  <2>2. n * BlockSize < NBlocks * BlockSize
    BY <1>1, <1>2, <1>3, <2>1
  <2> QED BY <1>1, <1>2, <2>2, FewerTimes
<1>4. CASE seg = 0
  <2>1. NSegs = 1 /\ Step = Len(in)
    BY <1>4 DEF NSegs, Step
  <2>2. ASSUME NEW g \in Nat, g * Step < Len(in) PROVE g + 1 <= NSegs
    <3>1. g * Len(in) < 1 * Len(in)
      BY <1>1, <2>1, <2>2
    <3> QED BY <1>1, <2>1, <3>1, FewerTimes
  <2> QED BY <1>1, <1>2, <1>3, <2>1, <2>2
<1>5. CASE seg # 0
  <2>1. NSegs = (NBlocks + seg - 1) \div seg /\ Step = seg * BlockSize
    BY <1>5 DEF NSegs, Step
  <2>2. NSegs \in Nat /\ NBlocks <= NSegs * seg /\ NSegs * seg \in Nat
    BY <1>2, <1>5, <2>1, RoundedUp
  <2>3. NSegs >= 1
    BY <1>2, <2>2
  <2>4. NBlocks * BlockSize <= (NSegs * seg) * BlockSize
    <3>1. PICK d \in Nat : NSegs * seg = NBlocks + d
      <4>1. NSegs * seg - NBlocks \in Nat /\ NSegs * seg = NBlocks + (NSegs * seg - NBlocks)
        BY <1>2, <2>2
      <4> QED BY <4>1
    <3>2. (NSegs * seg) * BlockSize = NBlocks * BlockSize + d * BlockSize
      BY <1>1, <1>2, <3>1
    <3>3. d * BlockSize \in Nat /\ NBlocks * BlockSize \in Nat
      BY <1>1, <1>2
    <3> QED BY <3>2, <3>3
  <2>5. (NSegs * seg) * BlockSize = NSegs * Step
    BY <1>1, <2>1, <2>2
  <2>6. ASSUME NEW g \in Nat, g * Step < Len(in) PROVE g + 1 <= NSegs
    <3>1. g * Step \in Nat /\ NSegs * Step \in Nat /\ NBlocks * BlockSize \in Nat
      BY <1>1, <1>2, <2>2
    <3>2. g * Step < NSegs * Step
      BY <1>1, <1>2, <2>4, <2>5, <2>6, <3>1
    <3> QED BY <1>1, <2>2, <3>2, FewerTimes
  <2> QED BY <1>1, <1>2, <1>3, <2>2, <2>3, <2>6
<1> QED BY <1>4, <1>5

LEMMA Edges ==
  ASSUME in \in Seq(Alphabet), seg \in Nat, NEW g \in Nat
  PROVE  g * Step \in Nat /\ Edge(g) \in Nat /\ Edge(g) <= Len(in)
<1>1. Len(in) \in Nat /\ Step \in Nat
  BY BoundCounts
<1>2. PICK m \in Nat : m = g * Step
  BY <1>1
<1> QED BY <1>1, <1>2 DEF Edge, Smaller

\* The first segment starts with the input, and each other where the last one ended.
LEMMA FirstSegment ==
  ASSUME in \in Seq(Alphabet), seg \in Nat, off = 0
  PROVE  /\ SegEnd = Edge(1) /\ SegmentCounts(1) = Histogram(off, SegEnd)
         /\ in # <<>> => off < SegEnd
<1>1. Len(in) \in Nat /\ BlockSize \in Nat \ {0} /\ (in # <<>> => Len(in) > 0)
  BY FileAssumption
<1>2. seg * BlockSize \in Nat /\ (seg # 0 => seg * BlockSize > 0)
  BY <1>1
<1>3. Step \in Nat /\ 1 * Step = Step /\ (1 - 1) * Step = 0
  BY BoundCounts
<1>4. SegEnd = Edge(1)
  BY <1>1, <1>2, <1>3 DEF SegEnd, Edge, Step, Smaller
<1>5. in # <<>> => off < SegEnd
  BY <1>1, <1>2 DEF SegEnd, Smaller
<1>6. SegmentCounts(1) = Histogram(off, SegEnd)
  BY <1>3, <1>4 DEF SegmentCounts
<1> QED BY <1>4, <1>5, <1>6

LEMMA NextSegment ==
  ASSUME in \in Seq(Alphabet), seg \in Nat, NEW s \in Nat, s >= 1, off = Edge(s), off < Len(in)
  PROVE  /\ s + 1 <= NSegs /\ SegEnd = Edge(s + 1) /\ off < SegEnd
         /\ SegmentCounts(s + 1) = Histogram(off, SegEnd)
<1>1. Len(in) \in Nat /\ BlockSize \in Nat \ {0} /\ Step \in Nat
  BY FileAssumption, BoundCounts
<1>2. PICK m \in Nat : m = s * Step
  BY <1>1
<1>3. off = m /\ m < Len(in) /\ off = s * Step
  BY <1>1, <1>2 DEF Edge, Smaller
<1>4. seg # 0
  <2>1. SUFFICES ASSUME seg = 0 PROVE FALSE
    OBVIOUS
  <2>2. Step = Len(in)
    BY <2>1 DEF Step
  <2>3. s * Len(in) < 1 * Len(in)
    BY <1>1, <1>2, <1>3, <2>2
  <2>4. s + 1 <= 1
    BY <1>1, <2>3, FewerTimes
  <2> QED BY <2>4
<1>5. Step = seg * BlockSize /\ Step > 0
  BY <1>1, <1>4 DEF Step
<1>6. (s + 1) * Step = s * Step + Step
  BY <1>1
<1>7. SegEnd = Smaller(off + Step, Len(in))
  BY <1>4, <1>5 DEF SegEnd
<1>8. SegEnd = Edge(s + 1)
  BY <1>3, <1>6, <1>7 DEF Edge
<1>9. off < SegEnd
  BY <1>1, <1>3, <1>5, <1>7 DEF Smaller
<1>10. (s + 1) - 1 = s
  OBVIOUS
<1>11. SegmentCounts(s + 1) = Histogram(off, SegEnd)
  BY <1>3, <1>8, <1>10 DEF SegmentCounts
<1>12. s + 1 <= NSegs
  BY <1>2, <1>3, BoundCounts
<1> QED BY <1>8, <1>9, <1>11, <1>12

\* What a segment costs afresh is a number, and s segments cost no more than n >= s.
LEMMA BitsNat ==
  ASSUME NEW f \in Table, NEW T \in Table
  PROVE  Bits(f, T) \in Nat
<1> DEFINE g == [a \in Alphabet |-> f[a] * T[a]]
<1>1. \A a \in Alphabet : g[a] \in Nat
  <2>1. SUFFICES ASSUME NEW a \in Alphabet PROVE f[a] * T[a] \in Nat
    OBVIOUS
  <2>2. f[a] \in Nat /\ T[a] \in Nat
    BY DEF Table
  <2> QED BY <2>2
<1>2. DOMAIN g = Alphabet
  OBVIOUS
<1>3. Bits(f, T) = SumOf(g)
  BY DEF Bits
<1> HIDE DEF g
<1>4. SumOf(g) = SumOver(Alphabet, g)
  BY <1>2, SumOfIs
<1> QED BY <1>1, <1>3, <1>4, TotalNat, FileAssumption

LEMMA FreshNat ==
  ASSUME BuildCodes, in \in Seq(Alphabet), seg \in Nat, NEW g \in Nat, g >= 1
  PROVE  /\ SegmentCounts(g) \in Table /\ Build(SegmentCounts(g)) \in Table
         /\ Bits(SegmentCounts(g), Build(SegmentCounts(g))) \in Nat /\ Fresh(g) \in Nat
<1>1. g - 1 \in Nat
  OBVIOUS
<1>2. (g - 1) * Step \in Nat /\ Edge(g) \in Nat /\ Edge(g) <= Len(in)
  BY <1>1, Edges
<1>3. SegmentCounts(g) \in Table
  BY <1>2, Histograms DEF SegmentCounts
<1>4. Build(SegmentCounts(g)) \in Table
  BY <1>3 DEF BuildCodes
<1>5. Bits(SegmentCounts(g), Build(SegmentCounts(g))) \in Nat
  BY <1>3, <1>4, BitsNat
<1> QED BY <1>3, <1>4, <1>5, FileAssumption DEF Fresh

LEMMA FreshGrows ==
  ASSUME BuildCodes, in \in Seq(Alphabet), seg \in Nat
  PROVE  /\ FreshUpTo(1) = Fresh(1)
         /\ \A s \in Nat : s >= 1 => FreshUpTo(s) \in Nat /\ FreshUpTo(s + 1) = FreshUpTo(s) + Fresh(s + 1)
         /\ \A s, n \in Nat : s <= n => FreshUpTo(s) <= FreshUpTo(n)
<1> DEFINE F == [g \in Nat \ {0} |-> Fresh(g)]
<1>1. \A g \in Nat \ {0} : F[g] \in Nat /\ F[g] = Fresh(g)
  BY FreshNat
<1>2. ASSUME NEW s \in Nat PROVE FreshUpTo(s) = SumOver(1 .. s, F) /\ IsFiniteSet(1 .. s)
  <2> DEFINE G == [g \in 1 .. s |-> Fresh(g)]
  <2>1. IsFiniteSet(1 .. s) /\ DOMAIN G = 1 .. s
    BY FS_Interval
  <2>2. \A g \in 1 .. s : G[g] = F[g]
    BY <1>1
  <2>3. FreshUpTo(s) = SumOf(G)
    BY DEF FreshUpTo
  <2> HIDE DEF G, F
  <2>4. SumOf(G) = SumOver(1 .. s, G)
    BY <2>1, SumOfIs
  <2> QED BY <2>1, <2>2, <2>3, <2>4, TotalSame
<1> HIDE DEF F
<1>3. ASSUME NEW s \in Nat PROVE FreshUpTo(s) \in Nat /\ FreshUpTo(s + 1) = FreshUpTo(s) + Fresh(s + 1)
  <2>1. PICK S : S = 1 .. (s + 1)
    OBVIOUS
  <2>2. S \in SUBSET S /\ s + 1 \in S /\ S \ {s + 1} = 1 .. s /\ IsFiniteSet(S)
    BY <1>2, <2>1
  <2>3. \A g \in S : F[g] \in Int
    BY <1>1, <2>1
  <2>4. SumOver(S, F) = F[s + 1] + SumOver(S \ {s + 1}, F)
    BY <2>2, <2>3, TotalRules
  <2>5. FreshUpTo(s + 1) = SumOver(S, F)
    BY <1>2, <2>1
  <2>6. FreshUpTo(s) = SumOver(1 .. s, F) /\ FreshUpTo(s) \in Nat
    <3>1. \A g \in 1 .. s : F[g] \in Nat
      BY <1>1
    <3> QED BY <1>2, <3>1, TotalNat
  <2>7. F[s + 1] = Fresh(s + 1) /\ F[s + 1] \in Nat
    BY <1>1
  <2>8. SumOver(S \ {s + 1}, F) = FreshUpTo(s)
    BY <2>2, <2>6
  <2> QED BY <2>4, <2>5, <2>6, <2>7, <2>8
<1>4. FreshUpTo(1) = Fresh(1)
  <2>1. FreshUpTo(0) = 0
    <3>1. 1 .. 0 = {}
      OBVIOUS
    <3>2. SumOver({}, F) = 0
      BY <1>2, <3>1, TotalRules
    <3> QED BY <1>2, <3>1, <3>2
  <2>2. FreshUpTo(0 + 1) = FreshUpTo(0) + Fresh(0 + 1)
    BY <1>3
  <2>3. Fresh(1) \in Nat
    BY FreshNat
  <2> QED BY <2>1, <2>2, <2>3
<1>5. ASSUME NEW s \in Nat, NEW n \in Nat, s <= n PROVE FreshUpTo(s) <= FreshUpTo(n)
  <2>1. 1 .. s \in SUBSET (1 .. n)
    BY <1>5
  <2>2. \A g \in 1 .. n : F[g] \in Nat
    BY <1>1
  <2>3. SumOver(1 .. s, F) <= SumOver(1 .. n, F)
    BY <1>2, <2>1, <2>2, TotalWithin
  <2> QED BY <1>2, <2>3
<1> QED BY <1>3, <1>4, <1>5

-----------------------------------------------------------------------------
(* The bits of a run of bytes, of a block, and of the blocks. *)


LEMMA Runs ==
  ASSUME in \in Seq(Alphabet), NEW T \in Table,
         NEW lo \in Nat, NEW mid \in Nat, NEW hi \in Nat, lo <= mid, mid <= hi, hi <= Len(in)
  PROVE  /\ Run(in, T, lo, hi) \in Nat /\ Run(in, T, lo, mid) \in Nat /\ Run(in, T, mid, hi) \in Nat
         /\ Run(in, T, lo, lo) = 0
         /\ Run(in, T, lo, hi) = Run(in, T, lo, mid) + Run(in, T, mid, hi)
<1> DEFINE V == [j \in 1 .. Len(in) |-> T[in[j]]]
<1>1. \A j \in 1 .. Len(in) : V[j] \in Nat /\ V[j] = T[in[j]]
  BY DEF Table
<1>2. ASSUME NEW m \in Nat, NEW n \in Nat, n <= Len(in)
      PROVE  Run(in, T, m, n) = SumOver((m + 1) .. n, V) /\ IsFiniteSet((m + 1) .. n)
  <2> DEFINE G == [j \in (m + 1) .. n |-> T[in[j]]]
  <2>1. IsFiniteSet((m + 1) .. n) /\ DOMAIN G = (m + 1) .. n
    BY FS_Interval
  <2>2. \A j \in (m + 1) .. n : G[j] = V[j]
    BY <1>1, <1>2
  <2>3. Run(in, T, m, n) = SumOf(G)
    BY DEF Run
  <2> HIDE DEF G, V
  <2>4. SumOf(G) = SumOver((m + 1) .. n, G)
    BY <2>1, SumOfIs
  <2> QED BY <2>1, <2>2, <2>3, <2>4, TotalSame
<1> HIDE DEF V
<1>3. ASSUME NEW m \in Nat, NEW n \in Nat, n <= Len(in) PROVE Run(in, T, m, n) \in Nat
  <2>1. PICK S : S = (m + 1) .. n
    OBVIOUS
  <2>2. Run(in, T, m, n) = SumOver(S, V) /\ IsFiniteSet(S)
    BY <1>2, <1>3, <2>1
  <2>3. \A j \in S : V[j] \in Nat
    BY <1>1, <1>3, <2>1
  <2> QED BY <2>2, <2>3, TotalNat
<1>4. Run(in, T, lo, lo) = 0
  <2>1. (lo + 1) .. lo = {} /\ lo <= Len(in)
    OBVIOUS
  <2>2. SumOver({}, V) = 0
    BY <1>2, <2>1, TotalRules
  <2> QED BY <1>2, <2>1, <2>2
<1>5. Run(in, T, lo, hi) = Run(in, T, lo, mid) + Run(in, T, mid, hi)
  <2>1. PICK A, B : A = (lo + 1) .. mid /\ B = (mid + 1) .. hi
    OBVIOUS
  <2>2. mid <= Len(in)
    OBVIOUS
  <2>3. A \cap B = {} /\ A \cup B = (lo + 1) .. hi /\ IsFiniteSet(A) /\ IsFiniteSet(B)
    <3>1. A \cap B = {} /\ A \cup B = (lo + 1) .. hi
      BY <2>1
    <3>2. IsFiniteSet((lo + 1) .. mid) /\ IsFiniteSet((mid + 1) .. hi)
      BY FS_Interval
    <3> QED BY <2>1, <3>1, <3>2
  <2>4. \A x \in A \cup B : V[x] \in Int
    BY <1>1, <2>3
  <2>5. SumOver(A \cup B, V) = SumOver(A, V) + SumOver(B, V)
    BY <2>3, <2>4, TotalUnion
  <2>6. /\ Run(in, T, lo, hi) = SumOver((lo + 1) .. hi, V)
        /\ Run(in, T, lo, mid) = SumOver(A, V) /\ Run(in, T, mid, hi) = SumOver(B, V)
    <3>1. Run(in, T, lo, hi) = SumOver((lo + 1) .. hi, V)
      BY <1>2
    <3>2. Run(in, T, lo, mid) = SumOver((lo + 1) .. mid, V)
      BY <1>2, <2>2
    <3>3. Run(in, T, mid, hi) = SumOver((mid + 1) .. hi, V)
      BY <1>2
    <3> QED BY <2>1, <3>1, <3>2, <3>3
  <2>7. Run(in, T, lo, hi) = SumOver(A \cup B, V)
    BY <2>3, <2>6
  <2> QED BY <2>5, <2>6, <2>7
<1>6. mid <= Len(in)
  OBVIOUS
<1> QED BY <1>3, <1>4, <1>5, <1>6

\* A block's bits are those of its bytes where they stand in the input.
LEMMA BlockRun ==
  ASSUME in \in Seq(Alphabet), NEW b, b.with \in Table,
         NEW lo \in Nat, NEW mid \in Nat, lo <= mid, mid <= Len(in), b.data = SubSeq(in, lo + 1, mid)
  PROVE  BlockBits(b) = Run(in, b.with, lo, mid)
<1> DEFINE G == [i \in DOMAIN b.data |-> b.with[b.data[i]]]
           V == [j \in (lo + 1) .. mid |-> b.with[in[j]]]
<1>1. PICK n \in Nat : mid = lo + n
  <2>1. mid - lo \in Nat /\ mid = lo + (mid - lo)
    OBVIOUS
  <2> QED BY <2>1
<1>2. DOMAIN b.data = 1 .. n /\ \A i \in 1 .. n : b.data[i] = in[lo + i] /\ in[lo + i] \in Alphabet
  BY <1>1
<1>3. \A i \in 1 .. n : G[i] = b.with[in[lo + i]] /\ b.with[in[lo + i]] \in Int
  BY <1>2 DEF Table
<1>4. \A i \in 1 .. n : V[lo + i] = b.with[in[lo + i]]
  BY <1>1
<1>5. DOMAIN G = 1 .. n /\ DOMAIN V = (lo + 1) .. (lo + n)
  BY <1>1, <1>2
<1>6. BlockBits(b) = SumOf(G) /\ Run(in, b.with, lo, mid) = SumOf(V)
  BY DEF BlockBits, Run
<1> HIDE DEF G, V
<1>7. SumOver(1 .. n, G) = SumOver((lo + 1) .. (lo + n), V)
  <2>1. Shifted(G, V, lo, n)
    BY <1>3, <1>4 DEF Shifted
  <2> QED BY <2>1, TotalShift
<1>8. SumOf(G) = SumOver(1 .. n, G) /\ SumOf(V) = SumOver((lo + 1) .. (lo + n), V)
  BY <1>5, SumOfIs
<1> QED BY <1>6, <1>7, <1>8

LEMMA BlockNat ==
  ASSUME NEW b, b.with \in Table, b.data \in Seq(Alphabet)
  PROVE  BlockBits(b) \in Nat
<1> DEFINE G == [i \in DOMAIN b.data |-> b.with[b.data[i]]]
<1>1. PICK n \in Nat : DOMAIN b.data = 1 .. n
  <2>1. Len(b.data) \in Nat /\ DOMAIN b.data = 1 .. Len(b.data)
    OBVIOUS
  <2> QED BY <2>1
<1>2. \A i \in 1 .. n : b.data[i] \in Alphabet
  BY <1>1
<1>3. \A i \in 1 .. n : G[i] \in Nat
  BY <1>1, <1>2 DEF Table
<1>4. DOMAIN G = 1 .. n /\ BlockBits(b) = SumOf(G) /\ IsFiniteSet(1 .. n)
  BY <1>1, FS_Interval DEF BlockBits
<1> HIDE DEF G
<1>5. SumOf(G) = SumOver(1 .. n, G)
  BY <1>4, SumOfIs
<1> QED BY <1>3, <1>4, <1>5, TotalNat

\* A block more is its bits more.
LEMMA BlocksGrow ==
  ASSUME NEW s \in Seq(BlockRecord), NEW b \in BlockRecord, b.with \in Table,
         \A k \in 1 .. Len(s) : s[k].with \in Table
  PROVE  /\ BlocksBits(s) \in Nat /\ BlockBits(b) \in Nat
         /\ BlocksBits(Append(s, b)) = BlocksBits(s) + BlockBits(b)
<1> DEFINE t == Append(s, b)
           G == [k \in DOMAIN s |-> BlockBits(s[k])]
           H == [k \in DOMAIN t |-> BlockBits(t[k])]
<1>1. PICK n \in Nat : n = Len(s) /\ DOMAIN s = 1 .. n
  OBVIOUS
<1>2. DOMAIN t = 1 .. (n + 1) /\ t[n + 1] = b /\ \A k \in 1 .. n : t[k] = s[k]
  BY <1>1
<1>3. \A k \in 1 .. n : s[k].with \in Table /\ s[k].data \in Seq(Alphabet)
  <2>1. \A k \in 1 .. n : s[k] \in BlockRecord
    BY <1>1
  <2> QED BY <1>1, <2>1 DEF BlockRecord
<1>4. \A k \in 1 .. n : BlockBits(s[k]) \in Nat
  BY <1>3, BlockNat
<1>5. BlockBits(b) \in Nat
  BY BlockNat DEF BlockRecord
<1>6. BlocksBits(s) = SumOf(G) /\ BlocksBits(t) = SumOf(H)
  BY DEF BlocksBits
<1> HIDE DEF t
<1>7. /\ \A k \in 1 .. n : G[k] = BlockBits(s[k]) /\ H[k] = BlockBits(s[k])
      /\ H[n + 1] = BlockBits(b) /\ DOMAIN G = 1 .. n /\ DOMAIN H = 1 .. (n + 1)
  BY <1>1, <1>2
<1> HIDE DEF G, H
<1>8. IsFiniteSet(1 .. n) /\ IsFiniteSet(1 .. (n + 1))
  BY FS_Interval
<1>9. SumOf(G) = SumOver(1 .. n, G) /\ SumOf(H) = SumOver(1 .. (n + 1), H)
  BY <1>7, SumOfIs
<1>10. SumOver(1 .. n, G) \in Nat
  BY <1>4, <1>7, <1>8, TotalNat
<1>11. SumOver(1 .. n, H) = SumOver(1 .. n, G)
  BY <1>7, <1>8, TotalSame
<1>12. SumOver(1 .. (n + 1), H) = H[n + 1] + SumOver(1 .. n, H)
  <2>1. PICK S : S = 1 .. (n + 1)
    OBVIOUS
  <2>2. S \in SUBSET S /\ n + 1 \in S /\ S \ {n + 1} = 1 .. n /\ IsFiniteSet(S)
    BY <1>8, <2>1
  <2>3. \A k \in S : H[k] \in Int
    <3>1. SUFFICES ASSUME NEW k \in S PROVE H[k] \in Int
      OBVIOUS
    <3>2. k = n + 1 \/ k \in 1 .. n
      BY <2>1
    <3> QED BY <1>4, <1>5, <1>7, <3>2
  <2>4. SumOver(S, H) = H[n + 1] + SumOver(S \ {n + 1}, H)
    BY <2>2, <2>3, TotalRules
  <2> QED BY <2>1, <2>2, <2>4
<1>13. BlocksBits(t) = BlocksBits(s) + BlockBits(b)
  BY <1>5, <1>6, <1>7, <1>9, <1>10, <1>11, <1>12
<1> QED BY <1>5, <1>6, <1>9, <1>10, <1>13 DEF t

\* Those of no blocks are none, and of any a number.
LEMMA BlocksNone == BlocksBits(<<>>) = 0
<1> DEFINE G == [k \in DOMAIN <<>> |-> BlockBits(<<>>[k])]
<1>1. DOMAIN G = {} /\ BlocksBits(<<>>) = SumOf(G)
  BY DEF BlocksBits
<1> HIDE DEF G
<1>2. SumOf(G) = SumOver({}, G) /\ IsFiniteSet({})
  BY <1>1, SumOfIs, FS_EmptySet
<1> QED BY <1>1, <1>2, TotalRules

LEMMA BlocksNat ==
  ASSUME NEW s \in Seq(BlockRecord), \A k \in 1 .. Len(s) : s[k].with \in Table
  PROVE  BlocksBits(s) \in Nat
<1> DEFINE G == [k \in DOMAIN s |-> BlockBits(s[k])]
<1>1. PICK n \in Nat : n = Len(s) /\ DOMAIN s = 1 .. n
  OBVIOUS
<1>2. \A k \in 1 .. n : s[k].with \in Table /\ s[k].data \in Seq(Alphabet)
  <2>1. \A k \in 1 .. n : s[k] \in BlockRecord
    BY <1>1
  <2> QED BY <1>1, <2>1 DEF BlockRecord
<1>3. \A k \in 1 .. n : BlockBits(s[k]) \in Nat
  BY <1>2, BlockNat
<1>4. /\ \A k \in 1 .. n : G[k] \in Nat
      /\ DOMAIN G = 1 .. n /\ BlocksBits(s) = SumOf(G) /\ IsFiniteSet(1 .. n)
  BY <1>1, <1>3, FS_Interval DEF BlocksBits
<1> HIDE DEF G
<1>5. SumOf(G) = SumOver(1 .. n, G)
  BY <1>4, SumOfIs
<1> QED BY <1>4, <1>5, TotalNat

-----------------------------------------------------------------------------
(* Every step keeps the reckoning. *)

LEMMA FlaggedCount ==
  ASSUME file \in FileRecord
  PROVE  IsFiniteSet(Flagged) /\ Cardinality(Flagged) \in Nat
<1>1. file.blocks \in Seq(BlockRecord)
  BY DEF FileRecord
<1>2. IsFiniteSet(1 .. Len(file.blocks)) /\ DOMAIN file.blocks = 1 .. Len(file.blocks)
  BY <1>1, FS_Interval
<1>3. Flagged \subseteq 1 .. Len(file.blocks)
  BY <1>2 DEF Flagged
<1> QED BY <1>2, <1>3, FS_Subset, FS_CardinalityType

\* The input and the segment policy fix the segments and what they cost afresh.
LEMMA SameSegments ==
  ASSUME in' = in, seg' = seg, NEW CONSTANT s
  PROVE  NBlocks' = NBlocks /\ NSegs' = NSegs /\ Edge(s)' = Edge(s)
         /\ FreshUpTo(s)' = FreshUpTo(s)
<1>1. NBlocks' = NBlocks /\ NSegs' = NSegs
  BY DEF NBlocks, NSegs
<1>2. Step' = Step
  BY DEF Step
<1>3. \A g : Edge(g)' = Edge(g)
  BY <1>2 DEF Edge
<1>4. FreshUpTo(s)' = FreshUpTo(s)
  BY <1>2, <1>3 DEF FreshUpTo, Fresh, SegmentCounts, Histogram
<1> QED BY <1>1, <1>3, <1>4

\* Blocks are only ever added to, or cut off the end.
LEMMA SameFlags ==
  ASSUME file'.blocks = file.blocks
  PROVE  Flagged' = Flagged /\ NBlocksHeld' = NBlocksHeld /\ (Tabled => Tabled')
BY DEF Flagged, NBlocksHeld, Tabled

LEMMA FitInit == Init => FitInv
<1> SUFFICES ASSUME Init PROVE FitInv
  OBVIOUS
<1>1. NoFile.blocks = <<>> /\ Len(<<>>) = 0
  BY DEF NoFile
<1>2. Bounds /\ Tabled
  BY <1>1 DEF Init, Bounds, Tabled, NBlocksHeld
<1>3. Reckoned /\ NeverDearer
  BY DEF Init, Reckoned, NeverDearer
<1> QED BY <1>2, <1>3 DEF FitInv

\* What the three ways a segment gets its table have in common.
LEMMA SegmentStarts ==
  ASSUME BuildCodes, FileInv, FitInv, KeepTable \/ FirstTable \/ NewTable
  PROVE  /\ in \in Seq(Alphabet) /\ seg \in Nat /\ off \in Nat /\ off = segEnd
         /\ phase' = "compress" /\ in' = in /\ seg' = seg /\ off' = off
         /\ segEnd' = SegEnd /\ SegEnd \in Nat /\ off <= SegEnd /\ SegEnd <= Len(in)
         /\ file'.blocks = file.blocks /\ file.blocks \in Seq(BlockRecord)
         /\ Cardinality(Flagged) \in Nat /\ BlocksBits(file.blocks) \in Nat
         /\ Bounds' /\ Tabled' /\ NeverDearer'
         /\ Flagged' = Flagged /\ BlocksBits(file.blocks)' = BlocksBits(file.blocks)
         /\ Spent' = BlocksBits(file.blocks) + Run(in, table', off, SegEnd)
                       + TableBits * (1 + Cardinality(Flagged) + Owed')
<1>1. /\ phase = "compress" /\ off = segEnd /\ in \in Seq(Alphabet) /\ seg \in Nat
      /\ off \in Nat /\ NBlocksHeld \in Nat /\ off = Place(NBlocksHeld)
      /\ file \in FileRecord /\ file.blocks \in Seq(BlockRecord) /\ out = <<>>
  BY DEF FileInv, Shapes, Encoding, KeepTable, FirstTable, NewTable, AtSegment, MoreInput,
         NBlocksHeld, FileRecord
<1>2. SegEnd \in Nat /\ off <= SegEnd /\ SegEnd <= Len(in)
  BY <1>1, SegEnds
<1>3. phase' = "compress" /\ in' = in /\ seg' = seg /\ off' = off /\ segEnd' = SegEnd /\ out' = out
  BY <1>1 DEF KeepTable, FirstTable, NewTable
<1>4. file'.blocks = file.blocks
  BY <1>1 DEF KeepTable, FirstTable, NewTable, FileRecord
<1>5. Flagged' = Flagged /\ NBlocksHeld' = NBlocksHeld /\ Tabled'
  BY <1>4, SameFlags DEF FitInv
<1>6. BlocksBits(file.blocks) \in Nat
  BY <1>1, BlocksNat DEF FitInv, Tabled, NBlocksHeld
<1>7. BlocksBits(file.blocks)' = BlocksBits(file.blocks)
  BY <1>4
<1>8. Bounds'
  <2>1. Len(out) = 0
    BY <1>1
  <2> QED BY <1>1, <1>2, <1>3, <1>5, <2>1 DEF Bounds
<1>9. NeverDearer'
  BY <1>3 DEF NeverDearer
<1>10. Spent' = BlocksBits(file.blocks) + Run(in, table', off, SegEnd)
                  + TableBits * (1 + Cardinality(Flagged) + Owed')
  BY <1>3, <1>4, <1>5 DEF Spent
<1> QED BY <1>1, <1>2, <1>3, <1>4, <1>5, <1>6, <1>7, <1>8, <1>9, <1>10, FlaggedCount

LEMMA FirstTableFits ==
  ASSUME BuildCodes, FileInv, FitInv, FirstTable
  PROVE  FitInv'
<1>1. /\ in \in Seq(Alphabet) /\ seg \in Nat /\ off \in Nat
      /\ phase' = "compress" /\ in' = in /\ seg' = seg
      /\ segEnd' = SegEnd /\ SegEnd \in Nat /\ off <= SegEnd /\ SegEnd <= Len(in)
      /\ Bounds' /\ Tabled' /\ NeverDearer' /\ Flagged' = Flagged
      /\ Spent' = BlocksBits(file.blocks) + Run(in, table', off, SegEnd)
                    + TableBits * (1 + Cardinality(Flagged) + Owed')
  BY SegmentStarts
<1>2. NBlocksHeld = 0 /\ off = 0 /\ pending = FALSE /\ file.blocks = <<>>
  <2>1. phase = "compress" /\ table = <<>> /\ file.blocks \in Seq(BlockRecord) /\ pending \in BOOLEAN
    BY DEF FirstTable, AtSegment, MoreInput, FileInv, Shapes, FileRecord
  <2>2. NBlocksHeld = 0 /\ off = Place(0) /\ pending = FALSE
    BY <2>1 DEF FileInv, Encoding
  <2> QED BY <1>1, <2>1, <2>2, Places DEF NBlocksHeld
<1>3. Flagged = {} /\ Cardinality(Flagged) = 0 /\ BlocksBits(file.blocks) = 0
  <2>1. Flagged = {}
    BY <1>2 DEF Flagged
  <2> QED BY <1>2, <2>1, FS_EmptySet, BlocksNone
<1>4. Owed' = 0
  BY <1>2 DEF FirstTable, Owed
<1>5. /\ SegEnd = Edge(1) /\ SegmentCounts(1) = Histogram(off, SegEnd)
      /\ in # <<>> => off < SegEnd
  BY <1>1, <1>2, FirstSegment
<1>6. table' = Build(SegmentCounts(1)) /\ table' \in Table
  BY <1>1, <1>5, FreshNat DEF FirstTable
<1>7. in # <<>> => Spent' <= FreshUpTo(1)
  <2> SUFFICES ASSUME in # <<>> PROVE Spent' <= FreshUpTo(1)
    OBVIOUS
  <2>1. Run(in, table', off, SegEnd) = Bits(SegmentCounts(1), table')
    BY <1>1, <1>5, <1>6, HistogramBits DEF Run
  <2>2. FreshUpTo(1) = Bits(SegmentCounts(1), table') + TableBits
    BY <1>1, <1>6, FreshGrows DEF Fresh
  <2>3. Bits(SegmentCounts(1), table') \in Nat /\ TableBits \in Nat
    BY <1>1, <1>6, FreshNat, FileAssumption
  <2> QED BY <1>1, <1>3, <1>4, <2>1, <2>2, <2>3
<1>8. NSegs \in Nat /\ NSegs >= 1
  BY <1>1, BoundCounts
<1>9. NSegs' = NSegs /\ Edge(1)' = Edge(1) /\ FreshUpTo(1)' = FreshUpTo(1)
  BY <1>1, SameSegments
<1>10. Reckoned'
  <2>1. 1 \in 1 .. NSegs'
    BY <1>8, <1>9
  <2>2. /\ segEnd' = Edge(1)' /\ 1 + Cardinality(Flagged') + Owed' <= 1
        /\ in' # <<>> => Spent' <= FreshUpTo(1)'
    BY <1>1, <1>3, <1>4, <1>5, <1>7, <1>9
  <2> QED BY <2>1, <2>2 DEF Reckoned
<1> QED BY <1>1, <1>10 DEF FitInv

LEMMA NextTableFits ==
  ASSUME BuildCodes, FileInv, FitInv, KeepTable \/ NewTable
  PROVE  FitInv'
<1>1. /\ in \in Seq(Alphabet) /\ seg \in Nat /\ off \in Nat /\ off = segEnd
      /\ phase' = "compress" /\ in' = in /\ seg' = seg
      /\ segEnd' = SegEnd /\ SegEnd \in Nat /\ off <= SegEnd /\ SegEnd <= Len(in)
      /\ Cardinality(Flagged) \in Nat /\ BlocksBits(file.blocks) \in Nat
      /\ Bounds' /\ Tabled' /\ NeverDearer' /\ Flagged' = Flagged
      /\ Spent' = BlocksBits(file.blocks) + Run(in, table', off, SegEnd)
                    + TableBits * (1 + Cardinality(Flagged) + Owed')
  BY SegmentStarts
<1>2. /\ table # <<>> /\ table \in Table /\ phase = "compress" /\ off < Len(in) /\ in # <<>>
      /\ pending \in BOOLEAN
  BY DEF KeepTable, NewTable, AtSegment, MoreInput, FileInv, Shapes, Lens, Table
<1>3. PICK s \in 1 .. NSegs :
        segEnd = Edge(s) /\ 1 + Cardinality(Flagged) + Owed <= s /\ Spent <= FreshUpTo(s)
  BY <1>2 DEF FitInv, Reckoned
<1>4. s \in Nat /\ s >= 1 /\ NSegs \in Nat /\ s + 1 \in Nat /\ (s + 1) >= 1
  BY <1>1, BoundCounts
<1>5. /\ s + 1 <= NSegs /\ SegEnd = Edge(s + 1) /\ off < SegEnd
      /\ SegmentCounts(s + 1) = Histogram(off, SegEnd)
  BY <1>1, <1>2, <1>3, <1>4, NextSegment
<1> DEFINE hist == SegmentCounts(s + 1)
           new  == Build(hist)
<1>6. hist \in Table /\ new \in Table /\ Bits(hist, new) \in Nat /\ Fresh(s + 1) = Bits(hist, new) + TableBits
  BY <1>1, <1>4, FreshNat DEF Fresh
<1>7. TableBits \in Nat
  BY FileAssumption
<1>8. FreshUpTo(s) \in Nat /\ FreshUpTo(s + 1) = FreshUpTo(s) + Bits(hist, new) + TableBits
  <2>1. FreshUpTo(s) \in Nat /\ FreshUpTo(s + 1) = FreshUpTo(s) + Fresh(s + 1)
    BY <1>1, <1>4, FreshGrows
  <2> QED BY <1>6, <1>7, <2>1
<1> HIDE DEF hist, new
<1>9. Spent = BlocksBits(file.blocks) + TableBits * (1 + Cardinality(Flagged) + Owed)
  <2>1. Run(in, table, off, off) = 0
    BY <1>1, <1>2, Runs
  <2> QED BY <1>1, <2>1 DEF Spent
<1>10. ASSUME NEW T \in Table PROVE Run(in, T, off, SegEnd) = Bits(hist, T) /\ Bits(hist, T) \in Nat
  <2>1. Bits(Histogram(off, SegEnd), T) = Run(in, T, off, SegEnd)
    BY <1>1, <1>5, HistogramBits DEF Run
  <2> QED BY <1>5, <1>6, <2>1, BitsNat DEF hist
<1>11. /\ 1 + Cardinality(Flagged) + Owed' <= s + 1
       /\ Spent' <= FreshUpTo(s + 1)
  <2> DEFINE f == Cardinality(Flagged)
  <2>1. Owed \in {0, 1} /\ f \in Nat
    BY <1>1 DEF Owed
  <2>2. CASE KeepTable
    <3>1. table' = table /\ Owed' = Owed
      BY <2>2 DEF KeepTable, Owed
    <3>2. Bits(hist, table) <= Bits(hist, new) + TableBits
      BY <1>5, <2>2 DEF KeepTable, Keeps, hist, new
    <3>3. PICK r \in Nat : r = TableBits * (1 + f + Owed)
      BY <1>7, <2>1
    <3>4. Bits(hist, table) \in Nat /\ Run(in, table', off, SegEnd) = Bits(hist, table)
      BY <1>2, <1>10, <3>1
    <3>5. Spent' = BlocksBits(file.blocks) + Bits(hist, table) + r
      BY <1>1, <3>1, <3>3, <3>4
    <3>6. BlocksBits(file.blocks) + r <= FreshUpTo(s)
      BY <1>3, <1>9, <3>3
    <3>7. Spent' <= FreshUpTo(s + 1)
      BY SMTT(30), <1>1, <1>6, <1>7, <1>8, <3>2, <3>4, <3>5, <3>6
    <3>8. 1 + f + Owed' <= s + 1
      BY <1>3, <1>4, <2>1, <3>1
    <3> QED BY <3>7, <3>8
  <2>3. CASE NewTable
    <3>1. table' = new /\ Owed' = 1
      BY <1>5, <2>3 DEF NewTable, Owed, hist, new
    <3>2. PICK r \in Nat : r = TableBits * (1 + f)
      BY <1>7, <2>1
    <3>3. TableBits * (1 + f + 1) = r + TableBits
      BY <1>7, <2>1, <3>2
    <3>4. TableBits * (1 + f + Owed) \in {r, r + TableBits}
      BY <1>7, <2>1, <3>2, <3>3
    <3>5. Run(in, table', off, SegEnd) = Bits(hist, new)
      BY <1>6, <1>10, <3>1
    <3>6. Spent' = BlocksBits(file.blocks) + Bits(hist, new) + (r + TableBits)
      BY <1>1, <3>1, <3>3, <3>5
    <3>7. BlocksBits(file.blocks) + r <= FreshUpTo(s)
      BY <1>1, <1>3, <1>7, <1>8, <1>9, <3>4
    <3>8. Spent' <= FreshUpTo(s + 1)
      BY SMTT(30), <1>1, <1>6, <1>7, <1>8, <3>6, <3>7
    <3>9. 1 + f + Owed' <= s + 1
      BY <1>3, <1>4, <2>1, <3>1
    <3> QED BY <3>8, <3>9
  <2> QED BY <2>2, <2>3
<1>12. NSegs' = NSegs /\ Edge(s + 1)' = Edge(s + 1) /\ FreshUpTo(s + 1)' = FreshUpTo(s + 1)
  BY <1>1, SameSegments
<1>13. Reckoned'
  <2>1. s + 1 \in 1 .. NSegs'
    BY <1>4, <1>5, <1>12
  <2>2. /\ segEnd' = Edge(s + 1)' /\ 1 + Cardinality(Flagged') + Owed' <= s + 1
        /\ Spent' <= FreshUpTo(s + 1)'
    BY <1>1, <1>5, <1>11, <1>12
  <2> QED BY <2>1, <2>2 DEF Reckoned
<1> QED BY <1>1, <1>13 DEF FitInv

\* A block written moves its bits from what is left of the segment to the file, and the
\* table it carries from what is owed to what is flagged.
LEMMA EncodeBlockFits ==
  ASSUME FileInv, FitInv, EncodeBlock
  PROVE  FitInv'
<1> DEFINE end == Smaller(off + BlockSize, Len(in))
           b   == [new  |-> IF pending THEN <<table>> ELSE <<>>,
                   with |-> table, data |-> SubSeq(in, off + 1, end)]
<1>1. PICK n \in Nat : n = NBlocksHeld
  BY DEF FileInv, Shapes, FileRecord, NBlocksHeld
<1>2. /\ phase = "compress" /\ off # segEnd /\ off < Len(in) /\ in \in Seq(Alphabet)
      /\ off \in Nat /\ segEnd \in Nat /\ off = Place(n) /\ seg \in Nat /\ Len(in) \in Nat
      /\ file \in FileRecord /\ file.blocks \in Seq(BlockRecord) /\ pending \in BOOLEAN
      /\ out = <<>>
  BY <1>1 DEF FileInv, Shapes, Encoding, EncodeBlock, FileRecord
<1>3. table # <<>> /\ table \in Table /\ table \in Lens
  BY <1>2 DEF FileInv, Shapes, Encoding, Lens, Table
<1>4. end \in Nat /\ end <= Len(in) /\ off < end /\ end = Place(n + 1)
  <2>1. end \in Nat /\ end <= Len(in) /\ off < end
    BY <1>2, FileAssumption DEF Smaller
  <2> QED BY <1>2, <2>1, Places
<1>5. end <= segEnd /\ segEnd <= Len(in)
  <2>1. PICK m \in Nat : segEnd = Place(m)
    BY <1>2 DEF FileInv, Segment
  <2>2. Place(n) < Place(m)
    BY <2>1, <1>2 DEF FitInv, Bounds
  <2>3. Place(n + 1) <= Place(m)
    BY <1>2, <2>2, Places
  <2> QED BY <1>4, <2>1, <2>3 DEF FitInv, Bounds
<1>6. /\ b.with = table /\ b.data = SubSeq(in, off + 1, end)
      /\ b.new = IF pending THEN <<table>> ELSE <<>>
  OBVIOUS
<1>7. b \in BlockRecord
  <2>1. SubSeq(in, off + 1, end) \in Seq(Alphabet)
    BY <1>2, <1>4
  <2>2. <<table>> \in Seq(Lens) /\ <<>> \in Seq(Lens)
    BY <1>3, Nothing
  <2>3. b.new \in Seq(Lens)
    BY <1>6, <2>2
  <2> QED BY <1>3, <2>1, <2>3 DEF BlockRecord
<1>8. file'.blocks = Append(file.blocks, b)
  <2>1. file' = [file EXCEPT !.blocks = Append(@, b)]
    BY DEF EncodeBlock, b
  <2> QED BY <1>2, <2>1 DEF FileRecord
<1>9. /\ phase' = phase /\ in' = in /\ seg' = seg /\ segEnd' = segEnd /\ table' = table
      /\ out' = out /\ off' = end /\ pending' = FALSE
  BY DEF EncodeBlock, AfterBlock
<1> HIDE DEF b, end
<1>10. /\ NBlocksHeld' = n + 1 /\ file'.blocks[n + 1] = b
       /\ DOMAIN file.blocks = 1 .. n /\ DOMAIN file'.blocks = 1 .. (n + 1)
       /\ \A k \in 1 .. n : file'.blocks[k] = file.blocks[k]
  BY <1>1, <1>2, <1>7, <1>8 DEF NBlocksHeld
<1>11. Bounds'
  <2>1. Len(out) = 0
    BY <1>2
  <2> QED BY <1>1, <1>5, <1>9, <1>10, <2>1 DEF Bounds
<1>12. Tabled'
  <2>1. \A k \in 1 .. n : file.blocks[k].with \in Table
    BY <1>1 DEF FitInv, Tabled
  <2>2. \A k \in 1 .. (n + 1) : file'.blocks[k].with \in Table
    <3> SUFFICES ASSUME NEW k \in 1 .. (n + 1) PROVE file'.blocks[k].with \in Table
      OBVIOUS
    <3>1. CASE k = n + 1
      BY <1>3, <1>6, <1>10, <3>1
    <3>2. CASE k \in 1 .. n
      BY <1>10, <2>1, <3>2
    <3> QED BY <1>1, <3>1, <3>2
  <2> QED BY <1>10, <2>2 DEF Tabled
<1>13. NeverDearer'
  BY <1>2, <1>9 DEF NeverDearer
<1>14. /\ BlocksBits(file.blocks) \in Nat
       /\ BlocksBits(file'.blocks) = BlocksBits(file.blocks) + Run(in, table, off, end)
  <2>1. \A k \in 1 .. Len(file.blocks) : file.blocks[k].with \in Table
    BY DEF FitInv, Tabled, NBlocksHeld
  <2>2. b.with \in Table
    BY <1>3, <1>6
  <2>3. /\ BlocksBits(file.blocks) \in Nat
        /\ BlocksBits(Append(file.blocks, b)) = BlocksBits(file.blocks) + BlockBits(b)
    BY <1>2, <1>7, <2>1, <2>2, BlocksGrow
  <2>4. BlockBits(b) = Run(in, b.with, off, end)
    <3>1. in \in Seq(Alphabet) /\ off \in Nat /\ end \in Nat /\ off <= end /\ end <= Len(in)
      BY <1>2, <1>4
    <3>2. b.data = SubSeq(in, off + 1, end)
      BY <1>6
    <3> QED BY <2>2, <3>1, <3>2, BlockRun
  <2> QED BY <1>6, <1>8, <2>3, <2>4
<1>15. /\ Run(in, table, off, end) \in Nat /\ Run(in, table, end, segEnd) \in Nat
       /\ Run(in, table, off, segEnd) = Run(in, table, off, end) + Run(in, table, end, segEnd)
  BY <1>2, <1>3, <1>4, <1>5, Runs
<1>16. /\ Cardinality(Flagged) \in Nat
       /\ Cardinality(Flagged') = Cardinality(Flagged) + Owed /\ Owed' = 0
  <2>1. IsFiniteSet(Flagged) /\ Cardinality(Flagged) \in Nat
    BY <1>2, FlaggedCount
  <2>2. Flagged' = {k \in 1 .. (n + 1) : file'.blocks[k].new # <<>>}
    BY <1>10 DEF Flagged
  <2>3. Flagged = {k \in 1 .. n : file'.blocks[k].new # <<>>}
    BY <1>10 DEF Flagged
  <2>4. n + 1 \notin Flagged
    BY <1>1, <2>3
  <2>5. b.new # <<>> <=> pending
    BY <1>2, <1>6
  <2>6. CASE pending
    <3>1. Flagged' = Flagged \cup {n + 1}
      BY <1>1, <1>10, <2>2, <2>3, <2>5, <2>6
    <3>2. Cardinality(Flagged \cup {n + 1}) = Cardinality(Flagged) + 1
      BY <2>1, <2>4, FS_AddElement
    <3> QED BY <1>9, <2>1, <2>6, <3>1, <3>2 DEF Owed
  <2>7. CASE ~pending
    <3>1. Flagged' = Flagged
      BY <1>1, <1>10, <2>2, <2>3, <2>5, <2>7
    <3> QED BY <1>9, <2>1, <2>7, <3>1 DEF Owed
  <2> QED BY <2>6, <2>7
<1>17. PICK s \in 1 .. NSegs :
         /\ segEnd = Edge(s) /\ 1 + Cardinality(Flagged) + Owed <= s
         /\ in # <<>> => Spent <= FreshUpTo(s)
  BY <1>2, <1>3 DEF FitInv, Reckoned
<1>18. Spent' = Spent
  <2>1. Spent' = BlocksBits(file'.blocks) + Run(in, table, end, segEnd)
                   + TableBits * (1 + Cardinality(Flagged') + 0)
    BY <1>9, <1>16 DEF Spent
  <2>2. Owed \in {0, 1} /\ TableBits \in Nat
    BY FileAssumption DEF Owed
  <2>3. 1 + Cardinality(Flagged') + 0 = 1 + Cardinality(Flagged) + Owed
    BY <1>16, <2>2
  <2>4. PICK r \in Nat : r = TableBits * (1 + Cardinality(Flagged) + Owed)
    BY <1>16, <2>2
  <2>5. Spent' = BlocksBits(file'.blocks) + Run(in, table, end, segEnd) + r
    BY <2>1, <2>3, <2>4
  <2>6. Spent = BlocksBits(file.blocks) + Run(in, table, off, segEnd) + r
    BY <2>4 DEF Spent
  <2> QED BY <1>14, <1>15, <2>5, <2>6
<1>19. NSegs' = NSegs /\ Edge(s)' = Edge(s) /\ FreshUpTo(s)' = FreshUpTo(s)
  BY <1>9, SameSegments
<1>20. Reckoned'
  <2>1. s \in 1 .. NSegs'
    BY <1>19
  <2>2. /\ segEnd' = Edge(s)' /\ 1 + Cardinality(Flagged') + Owed' <= s
        /\ in' # <<>> => Spent' <= FreshUpTo(s)'
    <3>1. Owed \in {0, 1}
      BY DEF Owed
    <3>2. 1 + Cardinality(Flagged') + Owed' = 1 + Cardinality(Flagged) + Owed
      BY <1>16, <3>1
    <3> QED BY <1>9, <1>17, <1>18, <1>19, <3>2
  <2> QED BY <2>1, <2>2 DEF Reckoned
<1> QED BY <1>11, <1>12, <1>13, <1>20 DEF FitInv

\* When the input is done nothing is left of the segment, and the segments there were
\* are among those of the bound.
LEMMA FinishCompressFits ==
  ASSUME BuildCodes, FileInv, FitInv, FinishCompress
  PROVE  FitInv'
<1>1. /\ phase = "compress" /\ in \in Seq(Alphabet) /\ seg \in Nat /\ off \in Nat /\ segEnd \in Nat
      /\ file \in FileRecord /\ file.blocks \in Seq(BlockRecord) /\ table \in Lens
      /\ off <= segEnd /\ segEnd <= Len(in) /\ pending \in BOOLEAN
  BY DEF FileInv, FitInv, Bounds, Shapes, FileRecord, FinishCompress
<1>2. /\ phase' = "stored" /\ in' = in /\ seg' = seg /\ off' = off /\ segEnd' = segEnd
      /\ table' = table /\ pending' = pending /\ out' = out /\ file'.blocks = file.blocks
  BY <1>1 DEF FinishCompress, encVars, FileRecord
<1>3. Flagged' = Flagged /\ NBlocksHeld' = NBlocksHeld /\ Tabled'
  BY <1>2, SameFlags DEF FitInv
<1>4. Bounds'
  BY <1>2, <1>3 DEF FitInv, Bounds
<1>5. NSegs' = NSegs /\ \A s : Edge(s)' = Edge(s) /\ FreshUpTo(s)' = FreshUpTo(s)
  BY <1>2, SameSegments
<1>6. Owed' = Owed /\ Cardinality(Flagged) \in Nat /\ Owed \in {0, 1} /\ TableBits \in Nat
  BY <1>1, <1>2, FlaggedCount, FileAssumption DEF Owed
<1>7. Reckoned'
  BY <1>2, <1>3, <1>5, <1>6 DEF FitInv, Reckoned
<1>8. in # <<>> => BlocksBits(file.blocks) + TableBits * (1 + Cardinality(Flagged)) <= FreshUpTo(NSegs)
  <2> SUFFICES ASSUME in # <<>>
               PROVE  BlocksBits(file.blocks) + TableBits * (1 + Cardinality(Flagged)) <= FreshUpTo(NSegs)
    OBVIOUS
  <2>1. Len(in) > 0 /\ Len(in) \in Nat
    BY <1>1
  <2>2. off = Len(in) /\ table # <<>>
    <3>1. ~(off < Len(in)) /\ ~(off = 0 /\ table = <<>>)
      BY <1>1 DEF FinishCompress, MoreInput
    <3>2. off = Len(in)
      BY <1>1, <2>1, <3>1
    <3>3. table = <<>> => off = Place(0)
      BY <1>1 DEF FileInv, Encoding
    <3> QED BY <1>1, <2>1, <3>2, <3>3, Places
  <2>3. table \in Table
    BY <1>1, <2>2 DEF Lens, Table
  <2>4. PICK s \in 1 .. NSegs : Spent <= FreshUpTo(s)
    BY <1>1, <2>2 DEF FitInv, Reckoned
  <2>5. NSegs \in Nat /\ s \in Nat /\ s >= 1 /\ s <= NSegs
    BY <1>1, BoundCounts
  <2>6. FreshUpTo(s) <= FreshUpTo(NSegs) /\ FreshUpTo(s) \in Nat /\ FreshUpTo(NSegs) \in Nat
    <3>1. NSegs >= 1
      BY <2>5
    <3> QED BY <1>1, <2>5, <3>1, FreshGrows
  <2>7. Run(in, table, off, segEnd) \in Nat
    BY <1>1, <2>3, Runs
  <2>8. BlocksBits(file.blocks) \in Nat
    BY <1>1, BlocksNat DEF FitInv, Tabled, NBlocksHeld
  <2>9. PICK r \in Nat : r = TableBits * (1 + Cardinality(Flagged))
    BY <1>6
  <2>10. TableBits * (1 + Cardinality(Flagged) + 1) = r + TableBits
    BY <1>6, <2>9
  <2>11. TableBits * (1 + Cardinality(Flagged) + Owed) \in {r, r + TableBits}
    BY <1>6, <2>9, <2>10
  <2>12. BlocksBits(file.blocks) + r <= Spent /\ Spent \in Nat
    BY SMTT(30), <1>6, <2>7, <2>8, <2>11 DEF Spent
  <2> QED BY <2>4, <2>6, <2>8, <2>9, <2>12
<1>9. NeverDearer'
  <2>1. FileBits' = BlocksBits(file.blocks) + TableBits * (1 + Cardinality(Flagged))
    BY <1>2, <1>3 DEF FileBits, BlocksBits
  <2>2. FreshBits' = FreshUpTo(NSegs)
    BY <1>2, <1>5 DEF FreshBits, FreshUpTo, Fresh, SegmentCounts, Edge, Step, Histogram
  <2> QED BY <1>2, <1>8, <2>1, <2>2 DEF NeverDearer
<1> QED BY <1>3, <1>4, <1>7, <1>9 DEF FitInv

\* After that the reckoning stands, and the blocks can only become fewer.
LEMMA AfterwardsFits ==
  ASSUME FileInv, FitInv, UNCHANGED encVars, phase' # "compress", phase' # "stored" \/ phase' = phase,
         file'.blocks = file.blocks, file'.body = file.body, Len(out') <= NBlocksHeld'
  PROVE  FitInv'
<1>1. /\ in' = in /\ seg' = seg /\ off' = off /\ segEnd' = segEnd
      /\ table' = table /\ pending' = pending
  BY DEF encVars
<1>2. Flagged' = Flagged /\ NBlocksHeld' = NBlocksHeld /\ Tabled'
  BY SameFlags DEF FitInv
<1>3. Bounds'
  BY <1>1 DEF FitInv, Bounds
<1>4. NSegs' = NSegs /\ \A s : Edge(s)' = Edge(s)
  BY <1>1, SameSegments
<1>5. Owed' = Owed
  BY <1>1 DEF Owed
<1>6. Reckoned'
  BY <1>1, <1>2, <1>4, <1>5 DEF FitInv, Reckoned
<1>7. NeverDearer'
  <2>1. FileBits' = FileBits
    BY <1>2 DEF FileBits
  <2>2. FreshBits' = FreshBits
    BY <1>1, <1>4 DEF FreshBits, Histogram
  <2> QED BY <1>1, <2>1, <2>2 DEF FitInv, NeverDearer
<1> QED BY <1>2, <1>3, <1>6, <1>7 DEF FitInv

\* A file that loses its tail keeps no more tables than it had, and owes its size nothing.
LEMMA LoseTailFits ==
  ASSUME FileInv, FitInv, LoseTail
  PROVE  FitInv'
<1>1. /\ phase = "stored" /\ phase' = phase /\ in' = in /\ seg' = seg /\ off' = off
      /\ segEnd' = segEnd /\ table' = table /\ pending' = pending /\ out' = out /\ out = <<>>
      /\ file \in FileRecord /\ file.blocks \in Seq(BlockRecord) /\ file.blocks # <<>>
      /\ NBlocksHeld <= file.body /\ file.body \in Nat
  BY DEF FileInv, Shapes, Stored, LoseTail, encVars, FileRecord
<1>2. PICK n \in Nat : NBlocksHeld = n + 1
  <2>1. NBlocksHeld \in Nat /\ NBlocksHeld > 0
    BY <1>1 DEF NBlocksHeld
  <2>2. NBlocksHeld - 1 \in Nat /\ NBlocksHeld = (NBlocksHeld - 1) + 1
    BY <2>1
  <2> QED BY <2>2
<1>3. /\ file'.blocks = SubSeq(file.blocks, 1, n) /\ file'.body = file.body
  <2>1. file' = [file EXCEPT !.blocks = SubSeq(@, 1, Len(@) - 1)]
    BY DEF LoseTail
  <2> QED BY <1>1, <1>2, <2>1 DEF FileRecord, NBlocksHeld
<1>4. /\ DOMAIN file.blocks = 1 .. (n + 1) /\ DOMAIN file'.blocks = 1 .. n /\ NBlocksHeld' = n
      /\ \A k \in 1 .. n : file'.blocks[k] = file.blocks[k]
  BY <1>1, <1>2, <1>3 DEF NBlocksHeld
<1>5. Tabled'
  BY <1>2, <1>4 DEF FitInv, Tabled
<1>6. Bounds'
  <2>1. Len(out) = 0
    BY <1>1
  <2> QED BY <1>1, <1>2, <1>4, <2>1 DEF FitInv, Bounds
<1>7. Cardinality(Flagged') <= Cardinality(Flagged) /\ Cardinality(Flagged') \in Nat /\ Cardinality(Flagged) \in Nat
  <2>1. IsFiniteSet(Flagged) /\ Cardinality(Flagged) \in Nat
    BY <1>1, FlaggedCount
  <2>2. Flagged' \subseteq Flagged
    BY <1>4 DEF Flagged
  <2> QED BY <2>1, <2>2, FS_Subset, FS_CardinalityType
<1>8. NSegs' = NSegs /\ \A s : Edge(s)' = Edge(s)
  BY <1>1, SameSegments
<1>9. Owed' = Owed /\ Owed \in {0, 1}
  BY <1>1 DEF Owed
<1>10. Reckoned'
  <2> SUFFICES ASSUME table # <<>>
               PROVE  \E s \in 1 .. NSegs : segEnd = Edge(s) /\ 1 + Cardinality(Flagged') + Owed <= s
    BY <1>1, <1>8, <1>9 DEF Reckoned
  <2>1. PICK s \in 1 .. NSegs : segEnd = Edge(s) /\ 1 + Cardinality(Flagged) + Owed <= s
    BY DEF FitInv, Reckoned
  <2>2. NSegs \in Nat
    BY BoundCounts DEF FileInv, Shapes
  <2> QED BY <1>7, <1>9, <2>1, <2>2
<1>11. NeverDearer'
  <2>1. NBlocksHeld' # file'.body
    BY <1>1, <1>2, <1>3, <1>4
  <2> QED BY <2>1 DEF NeverDearer, NBlocksHeld
<1> QED BY <1>5, <1>6, <1>10, <1>11 DEF FitInv

\* Between files there is nothing to reckon.
LEMMA NoTableFits ==
  ASSUME FileInv', table' = <<>>, off' = 0, segEnd' = 0, phase' # "stored",
         file'.blocks = <<>>, out' = <<>>
  PROVE  FitInv'
<1>1. in' \in Seq(Alphabet) /\ Len(in') \in Nat
  BY DEF FileInv, Shapes
<1>2. NBlocksHeld' = 0
  BY DEF NBlocksHeld
<1>3. Bounds' /\ Tabled'
  BY <1>1, <1>2 DEF Bounds, Tabled
<1> QED BY <1>3 DEF FitInv, Reckoned, NeverDearer

LEMMA FitNext == BuildCodes => (FileInv /\ FileInv' /\ FitInv /\ [Next]_vars => FitInv')
<1> SUFFICES ASSUME BuildCodes, FileInv, FileInv', FitInv, [Next]_vars PROVE FitInv'
  OBVIOUS
<1>0. /\ Len(out) <= NBlocksHeld /\ out \in Seq(Seq(Alphabet)) /\ file \in FileRecord
      /\ NBlocksHeld \in Nat
  BY DEF FitInv, Bounds, FileInv, Shapes, FileRecord, NBlocksHeld
<1>1. ASSUME NEW i \in Inputs, NEW s \in SegBlocks, StartCompress(i, s) PROVE FitInv'
  <2>1. /\ off = 0 /\ segEnd = 0 /\ table = <<>> /\ file = NoFile /\ out = <<>>
    BY <1>1 DEF FileInv, Idle, StartCompress
  <2>2. file'.blocks = <<>>
    BY <1>1, <2>1 DEF StartCompress, NoFile
  <2> QED BY <1>1, <2>1, <2>2, NoTableFits DEF StartCompress
<1>2. CASE FirstTable
  BY <1>2, FirstTableFits
<1>3. CASE KeepTable \/ NewTable
  BY <1>3, NextTableFits
<1>4. CASE EncodeBlock
  BY <1>4, EncodeBlockFits
<1>5. CASE FinishCompress
  BY <1>5, FinishCompressFits
<1>6. CASE LoseTail
  BY <1>6, LoseTailFits
<1>7. CASE Again
  <2>1. NoFile.blocks = <<>>
    BY DEF NoFile
  <2> QED BY <1>7, <2>1, NoTableFits DEF Again
<1>8. CASE StartDecompress \/ FinishDecompress \/ FailCompress \/ FailDecompress
  <2>1. UNCHANGED encVars /\ file' = file /\ out' = out /\ phase' # "compress" /\ phase' # "stored"
    BY <1>8 DEF StartDecompress, FinishDecompress, FailCompress, FailDecompress
  <2>2. Len(out') <= NBlocksHeld'
    BY <1>0, <2>1 DEF NBlocksHeld
  <2> QED BY <2>1, <2>2, AfterwardsFits
<1>9. CASE DecodeBlock
  <2>1. UNCHANGED encVars /\ file' = file /\ phase' = phase /\ phase = "decompress"
    BY <1>9 DEF DecodeBlock
  <2>2. Len(out') = Len(out) + 1 /\ Len(out) < NBlocksHeld
    BY <1>0, <1>9 DEF DecodeBlock, Unread, NBlocksHeld
  <2>3. Len(out') <= NBlocksHeld'
    BY <1>0, <2>1, <2>2 DEF NBlocksHeld
  <2> QED BY <2>1, <2>3, AfterwardsFits
<1>10. CASE UNCHANGED vars
  <2>1. /\ phase' = phase /\ in' = in /\ seg' = seg /\ off' = off /\ segEnd' = segEnd
        /\ table' = table /\ pending' = pending /\ file' = file /\ out' = out
    BY <1>10 DEF vars
  <2>2. Flagged' = Flagged /\ NBlocksHeld' = NBlocksHeld /\ Tabled'
    BY <2>1, SameFlags DEF FitInv
  <2>3. NSegs' = NSegs /\ \A s : Edge(s)' = Edge(s) /\ FreshUpTo(s)' = FreshUpTo(s)
    BY <2>1, SameSegments
  <2>4. Bounds' /\ Owed' = Owed
    BY <2>1, <2>2 DEF FitInv, Bounds, Owed
  <2>5. Spent' = Spent
    BY <2>1, <2>2, <2>4 DEF Spent
  <2>6. Reckoned'
    BY <2>1, <2>2, <2>3, <2>4, <2>5 DEF FitInv, Reckoned
  <2>7. NeverDearer'
    BY <2>1, <2>2, <2>3 DEF FitInv, NeverDearer, FileBits, FreshBits, Histogram
  <2> QED BY <2>2, <2>4, <2>6, <2>7 DEF FitInv
<1> QED BY <1>1, <1>2, <1>3, <1>4, <1>5, <1>6, <1>7, <1>8, <1>9, <1>10
        DEF Next, Compress, Decompress

\* Within the bound: blocks by their places in the input, tables by their segments.
LEMMA InvGivesTablesFit == FileInv /\ FitInv => TablesFit
<1> SUFFICES ASSUME FileInv, FitInv PROVE TablesFit
  OBVIOUS
<1>1. in \in Seq(Alphabet) /\ seg \in Nat /\ file \in FileRecord /\ file.blocks \in Seq(BlockRecord)
  BY DEF FileInv, Shapes, FileRecord
<1>2. TypeOK
  BY <1>1 DEF FileInv, FitInv, Shapes, Phases, Bounds, TypeOK, FileRecord, NBlocksHeld
<1>3. Codable /\ NeverDearer
  BY DEF FileInv, FitInv
<1>4. Len(file.blocks) <= NBlocks
  <2>1. NBlocks \in Nat /\ NBlocksHeld \in Nat
    BY <1>1, BoundCounts DEF NBlocksHeld
  <2>2. CASE NBlocksHeld = 0
    BY <2>1, <2>2 DEF NBlocksHeld
  <2>3. CASE NBlocksHeld # 0
    <3>1. PICK n \in Nat : NBlocksHeld = n + 1
      <4>1. NBlocksHeld - 1 \in Nat /\ NBlocksHeld = (NBlocksHeld - 1) + 1
        BY <2>1, <2>3
      <4> QED BY <4>1
    <3>2. n + 1 \in 1 .. NBlocksHeld /\ (n + 1) - 1 = n
      BY <3>1
    <3>3. n * BlockSize < Len(in)
      BY <3>2 DEF FileInv, Records
    <3> QED BY <1>1, <3>1, <3>3, BoundCounts DEF NBlocksHeld
  <2> QED BY <2>2, <2>3
<1>5. table # <<>> => 1 + Cardinality(Flagged) <= NSegs
  <2> SUFFICES ASSUME table # <<>> PROVE 1 + Cardinality(Flagged) <= NSegs
    OBVIOUS
  <2>1. PICK s \in 1 .. NSegs : 1 + Cardinality(Flagged) + Owed <= s
    BY DEF FitInv, Reckoned
  <2>2. NSegs \in Nat /\ Cardinality(Flagged) \in Nat /\ Owed \in {0, 1}
    BY <1>1, BoundCounts, FlaggedCount DEF Owed
  <2> QED BY <2>1, <2>2
<1> QED BY <1>2, <1>3, <1>4, <1>5 DEF TablesFit, BoundHolds

\* Whatever the input, the block size, the segment policy and the table build: the table
\* in force fits what is coded with it, the blocks and tables stay within what
\* pivcohuf_compress_bound_seg counts, and keeping tables never makes the file larger
\* than a fresh table for every segment would.
THEOREM FileTablesFit == BuildCodes => (Spec => []TablesFit)
<1> SUFFICES ASSUME BuildCodes PROVE Spec => []TablesFit
  OBVIOUS
<1>1. Spec => []FileInv
  BY FileInvariant
<1>2. FileInv /\ FileInv' /\ FitInv /\ [Next]_vars => FitInv'
  BY FitNext
<1>3. Spec => []FitInv
  BY <1>1, <1>2, FitInit, PTL DEF Spec
<1> QED BY <1>1, <1>3, InvGivesTablesFit, PTL
=============================================================================
