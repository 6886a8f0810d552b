----------------------------- MODULE FileCodec -----------------------------
(***************************************************************************)
(* A whole file (src/pivcohuf_file.c).  The input is cut into blocks and,  *)
(* for the tables, into segments of whole blocks.  Every segment gets a    *)
(* table of its own unless the one in force costs at most a table more.    *)
(* The first table sits in the body header, a later one in front of its    *)
(* segment's first block under NEW_TABLE, and the decoder switches when it *)
(* meets one.  A block is coded with BlockCodec: decoding gives it back    *)
(* exactly under the table it was encoded with.  The shake pass is off,    *)
(* as it is by default.                                                    *)
(***************************************************************************)
EXTENDS Integers, Sequences, FiniteSets, FiniteSetsExt

CONSTANTS Alphabet,   \* byte values
          Inputs,     \* the files a caller compresses
          BlockSize,  \* block_size
          SegBlocks,  \* seg_blocks values a caller passes; 0 is one table
          TableBits,  \* size of a table: 128 bytes
          Build(_)    \* pivco_build_table: code lengths for frequencies

ASSUME FileAssumption ==
  /\ Inputs \subseteq Seq(Alphabet) /\ Alphabet # {} /\ IsFiniteSet(Alphabet)
  /\ BlockSize \in Nat \ {0} /\ SegBlocks \subseteq Nat /\ TableBits \in Nat

VARIABLES phase,    \* idle, compress, stored, decompress, ok, error or failed
          in,       \* the input
          seg,      \* seg_blocks
          off,      \* input coded
          segEnd,   \* end of the segment the encoder is in
          table,    \* the encoder's code lengths; <<>> before the first
          pending,  \* table_pending
          file,     \* the compressed file
          code,     \* the decoder's table
          out       \* the decoder's output, by blocks

vars   == <<phase, in, seg, off, segEnd, table, pending, file, code, out>>
encVars == <<in, seg, off, segEnd, table, pending>>

\* A file: the sizes its header names, the first table and the block records.
NoFile == [size |-> 0, body |-> 0, first |-> <<>>, blocks |-> <<>>]

Init ==
  /\ phase = "idle" /\ in = <<>> /\ seg = 0 /\ off = 0 /\ segEnd = 0
  /\ table = <<>> /\ pending = FALSE /\ file = NoFile /\ code = <<>> /\ out = <<>>

-----------------------------------------------------------------------------
\* pivcohuf_compress_impl

StartCompress(i, s) ==
  /\ phase = "idle"
  /\ phase' = "compress" /\ in' = i /\ seg' = s
  /\ file' = [NoFile EXCEPT !.size = Len(i)]
  /\ UNCHANGED <<off, segEnd, table, pending, code, out>>

Smaller(a, b) == IF a < b THEN a ELSE b
\* Mutant: zero blocks per segment are no special case.
SegEndPlain == Smaller(off + seg * BlockSize, Len(in))
SegEnd == IF seg = 0 THEN Len(in) ELSE Smaller(off + seg * BlockSize, Len(in))

\* Frequencies of the segment's bytes; an empty input has some table.
Histogram(lo, hi) ==
  [a \in Alphabet |->
     IF lo = hi THEN (IF a = CHOOSE x \in Alphabet : TRUE THEN 1 ELSE 0)
     ELSE Cardinality({j \in (lo + 1) .. hi : in[j] = a})]

SumOf(g) == MapThenSumSet(LAMBDA x : g[x], DOMAIN g)
Bits(freq, lens) == SumOf([a \in Alphabet |-> freq[a] * lens[a]])
CanCode(freq, lens) == \A a \in Alphabet : freq[a] > 0 => lens[a] > 0

\* Keep the table in force when the new one would not save more than itself.
\* Mutant: the old table need not know every byte.
KeepsUncoded(freq, new) == Bits(freq, table) <= Bits(freq, new) + TableBits

Keeps(freq, new) ==
  /\ CanCode(freq, table)
  /\ Bits(freq, table) <= Bits(freq, new) + TableBits

\* More input, or the first turn of an empty one.
MoreInput == phase = "compress" /\ (off < Len(in) \/ (off = 0 /\ table = <<>>))
AtSegment == MoreInput /\ off = segEnd

KeepTable ==
  /\ AtSegment /\ table # <<>>
  /\ Keeps(Histogram(off, SegEnd), Build(Histogram(off, SegEnd)))
  /\ segEnd' = SegEnd
  /\ UNCHANGED <<phase, in, seg, off, table, pending, file, code, out>>

FirstTable ==
  /\ AtSegment /\ table = <<>>
  /\ LET new == Build(Histogram(off, SegEnd))
     IN  table' = new /\ file' = [file EXCEPT !.first = new]
  /\ segEnd' = SegEnd
  /\ UNCHANGED <<phase, in, seg, off, pending, code, out>>

NewTable ==
  /\ AtSegment /\ table # <<>>
  /\ ~Keeps(Histogram(off, SegEnd), Build(Histogram(off, SegEnd)))
  /\ table' = Build(Histogram(off, SegEnd)) /\ pending' = TRUE
  /\ segEnd' = SegEnd
  /\ UNCHANGED <<phase, in, seg, off, file, code, out>>

\* The one-shot flag comes down with the block that carries the table.
AfterBlock == FALSE

\* The last block of the input is encoded at its actual size.
EncodeBlock ==
  /\ phase = "compress" /\ off < Len(in) /\ off # segEnd
  /\ LET end == Smaller(off + BlockSize, Len(in))
     IN  /\ file' = [file EXCEPT !.blocks = Append(@,
                       [new  |-> IF pending THEN <<table>> ELSE <<>>,
                        with |-> table, data |-> SubSeq(in, off + 1, end)])]
         /\ off' = end
  /\ pending' = AfterBlock
  /\ UNCHANGED <<phase, in, seg, segEnd, table, code, out>>

\* A histogram, a table build or a block's scratch fails: no file.
FailCompress ==
  /\ phase = "compress"
  /\ phase' = "failed"
  /\ UNCHANGED <<encVars, file, code, out>>

FinishCompress ==
  /\ phase = "compress" /\ ~MoreInput
  /\ phase' = "stored" /\ file' = [file EXCEPT !.body = Len(file.blocks)]
  /\ UNCHANGED <<encVars, code, out>>

-----------------------------------------------------------------------------
\* Storage keeps the file or loses its tail.
LoseTail ==
  /\ phase = "stored" /\ file.blocks # <<>>
  /\ file' = [file EXCEPT !.blocks = SubSeq(@, 1, Len(@) - 1)]
  /\ UNCHANGED <<phase, encVars, code, out>>

\* pivcohuf_decompress_impl: the header, the body length and the first table.
StartDecompress ==
  /\ phase = "stored"
  /\ IF Len(file.blocks) < file.body
     THEN phase' = "error" /\ UNCHANGED code
     ELSE phase' = "decompress" /\ code' = file.first
  /\ UNCHANGED <<encVars, file, out>>

Written == Smaller(Len(out) * BlockSize, file.size)
Block == file.blocks[Len(out) + 1]

\* Mutant: a table that is flagged takes effect with the next block.
TakesTableLate(c, b) == c
TakesTable(c, b) == IF b.new # <<>> THEN b.new[1] ELSE c

\* What decoding a block gives: the block under its own table, else rubbish.
Garbage == <<>>
Decoded(c, b) == IF c = b.with THEN b.data ELSE Garbage

\* Mutant: the last record is left alone.
UnreadShort == Len(out) + 1 < Len(file.blocks) /\ Written < file.size
Unread == Len(out) < Len(file.blocks) /\ Written < file.size

DecodeBlock ==
  /\ phase = "decompress" /\ Unread
  /\ code' = TakesTable(code, Block)
  /\ out' = Append(out, Decoded(TakesTable(code, Block), Block))
  /\ UNCHANGED <<phase, encVars, file>>

\* A table build or the block's arena fails.
FailDecompress ==
  /\ phase = "decompress"
  /\ phase' = "failed"
  /\ UNCHANGED <<encVars, file, code, out>>

FinishDecompress ==
  /\ phase = "decompress" /\ ~Unread
  /\ phase' = IF Written = file.size THEN "ok" ELSE "error"
  /\ UNCHANGED <<encVars, file, code, out>>

\* The caller goes on to its next file.
Again ==
  /\ phase \in {"ok", "error", "failed"}
  /\ phase' = "idle" /\ in' = <<>> /\ seg' = 0 /\ off' = 0 /\ segEnd' = 0
  /\ table' = <<>> /\ pending' = FALSE /\ file' = NoFile /\ code' = <<>> /\ out' = <<>>

Compress   == KeepTable \/ FirstTable \/ NewTable \/ EncodeBlock \/ FinishCompress
Decompress == StartDecompress \/ DecodeBlock \/ FinishDecompress
Next ==
  \/ Compress \/ Decompress \/ FailCompress \/ FailDecompress \/ LoseTail \/ Again
  \/ \E i \in Inputs, s \in SegBlocks : StartCompress(i, s)

\* One thread runs each call to its end.
Spec == Init /\ [][Next]_vars /\ WF_vars(Compress \/ Decompress)

-----------------------------------------------------------------------------
\* Properties

Lens == [Alphabet -> Nat] \cup {<<>>}
TypeOK ==
  /\ phase \in {"idle", "compress", "stored", "decompress", "ok", "error", "failed"}
  /\ off <= segEnd /\ segEnd <= Len(in)
  /\ table \in Lens /\ code \in Lens /\ file.first \in Lens
  /\ Len(out) <= Len(file.blocks) /\ file.size = Len(in)

\* Whatever table a segment keeps or gets, every byte of its blocks has a code in it.
Codable ==
  \A k \in DOMAIN file.blocks :
    LET b == file.blocks[k] IN \A j \in DOMAIN b.data : b.with[b.data[j]] > 0

\* A file that is accepted gives back the input, each block where its number puts it.
RoundTrip ==
  phase = "ok" =>
    \A j \in DOMAIN in :
      LET k == (j - 1) \div BlockSize + 1
          i == ((j - 1) % BlockSize) + 1
      IN  k \in DOMAIN out /\ i \in DOMAIN out[k] /\ out[k][i] = in[j]

\* Only a file that lost its tail is refused.
OnlyCutRefused == phase = "error" => Len(file.blocks) < file.body

\* pivcohuf_compress_bound_seg counts enough blocks and enough tables.
NBlocks == IF in = <<>> THEN 1 ELSE (Len(in) + BlockSize - 1) \div BlockSize
NSegs   == IF seg = 0 THEN 1 ELSE (NBlocks + seg - 1) \div seg
Flagged == {k \in DOMAIN file.blocks : file.blocks[k].new # <<>>}
BoundHolds ==
  table # <<>> => Len(file.blocks) <= NBlocks /\ 1 + Cardinality(Flagged) <= NSegs

\* Keeping tables never costs: the blocks and tables of the file are no larger, in
\* the code-length model, than with a fresh table for every segment.
BlockBits(b) == SumOf([j \in DOMAIN b.data |-> b.with[b.data[j]]])
FileBits ==
  SumOf([k \in DOMAIN file.blocks |-> BlockBits(file.blocks[k])])
    + TableBits * (1 + Cardinality(Flagged))
FreshBits ==
  LET step == IF seg = 0 THEN Len(in) ELSE seg * BlockSize
      hist(g) == Histogram((g - 1) * step, Smaller(g * step, Len(in)))
  IN  SumOf([g \in 1 .. NSegs |-> Bits(hist(g), Build(hist(g))) + TableBits])
NeverDearer ==
  phase = "stored" /\ in # <<>> /\ Len(file.blocks) = file.body => FileBits <= FreshBits

\* Every call ends.
Terminates ==
  /\ (phase = "compress") ~> (phase \in {"stored", "failed"})
  /\ (phase = "decompress") ~> (phase \in {"ok", "error", "failed"})

\* The table in force fits what is coded with it, within the bound the caller was given,
\* and never costs more than a fresh one.
TablesFit == TypeOK /\ Codable /\ BoundHolds /\ NeverDearer
=============================================================================
