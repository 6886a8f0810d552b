------------------------- MODULE TraditionalHuffman -------------------------
(***************************************************************************)
(* The traditional Huffman coder that PivCo-Huffman is compared with       *)
(* (src/traditional_huffman.c): one stream, or four side by side, through  *)
(* a 64-bit window that is filled a byte at a time where the stream ends   *)
(* and a whole word at a time where speed matters, past the end of the     *)
(* stream too.                                                             *)
(*                                                                         *)
(* Bits are written and read most significant first, so a buffer is the    *)
(* sequence of its bits.  What lies behind a buffer is all zeros or all    *)
(* ones.                                                                   *)
(***************************************************************************)
EXTENDS Integers, FiniteSets, SequencesExt

CONSTANTS OctetBits,   \* bits of a byte: 8
          Window,      \* bits of the readers' and the writer's word: 64
          MaxCodeLen,  \* PIVCO_MAX_CODE_LEN
          Codes,       \* codes of a table, each a function from symbols to bits
          Words        \* what is encoded, for every code: sequences of its symbols

\* Two symbols fit a refilled reader, one a writer that is not flushed.
ASSUME WindowAssumption ==
  /\ OctetBits \in Nat \ {0} /\ MaxCodeLen \in Nat \ {0}
  /\ Window % (2 * OctetBits) = 0
  /\ 2 * MaxCodeLen <= Window - OctetBits + 1
  /\ Window \div 2 - 1 + MaxCodeLen <= Window
ASSUME CodesAssumption ==
  \A c \in Codes :
    /\ \A s \in DOMAIN c : Len(c[s]) \in 1 .. MaxCodeLen
    /\ \A s, u \in DOMAIN c : s # u => ~IsPrefix(c[s], c[u])
ASSUME WordsAssumption ==
  \A c \in Codes : \A v \in Words[c] : \A j \in DOMAIN v : v[j] \in DOMAIN c

VARIABLES phase,    \* "idle", "put", "open", "loop", "tail", "done"
          streams,  \* 1 or 4
          code, word,
          bw,       \* the writer: [bits, nbits, buf]
          sent,     \* the streams written so far
          taken,    \* symbols of the current stream put
          beyond,   \* what the bits behind the buffer are
          br,       \* the readers: [bits, nbits, ptr, end]
          got,      \* the symbols decoded, by stream
          touched   \* one past the last byte a reader loaded

tradVars == <<phase, streams, code, word, bw, sent, taken, beyond, br, got, touched>>

-----------------------------------------------------------------------------
\* Words of Window bits.
Zeros(k) == [j \in 1 .. k |-> 0]
Or(u, v) == [k \in 1 .. Window |-> IF u[k] = 1 \/ v[k] = 1 THEN 1 ELSE 0]
ShiftLeft(u, k) == SubSeq(u, k + 1, Window) \o Zeros(k)
\* The first bits of a sequence, k places down; what leaves the word is lost.
ShiftedIn(bits, k) == SubSeq(Zeros(k) \o bits \o Zeros(Window), 1, Window)

\* The writer.
FreshWriter == [bits |-> Zeros(Window), nbits |-> 0, buf |-> <<>>]
FlushBytes(w) ==
  LET whole == OctetBits * (w.nbits \div OctetBits)
  IN  [bits |-> ShiftLeft(w.bits, whole), nbits |-> w.nbits - whole,
       buf |-> w.buf \o SubSeq(w.bits, 1, whole)]
PutBits(w, c) ==
  LET put == [w EXCEPT !.bits = Or(@, ShiftedIn(c, w.nbits)), !.nbits = @ + Len(c)]
  IN  IF put.nbits >= Window \div 2 THEN FlushBytes(put) ELSE put
FinishBits(w) ==
  LET f == FlushBytes(w)
  IN  IF f.nbits > 0 THEN f.buf \o SubSeq(f.bits, 1, OctetBits) ELSE f.buf

\* The share of a stream: the last one has what does not divide by four.
Quarter == Len(word) \div 4
Share(s) ==
  IF streams = 1 THEN word
  ELSE SubSeq(word, (s - 1) * Quarter + 1, IF s = 4 THEN Len(word) ELSE s * Quarter)

-----------------------------------------------------------------------------
\* The buffer between the calls: the streams and, behind four, a word of zeros.
\* The header holds the bytes of the first three.
Octets(bits) == Len(bits) \div OctetBits
Padding == IF streams = 1 THEN <<>> ELSE Zeros(Window)
Buffer == FlattenSeq(sent) \o Padding
Starts(s) == Octets(FlattenSeq(SubSeq(sent, 1, s - 1)))
Ends(s) == IF s < streams THEN Starts(s) + Octets(sent[s]) ELSE Octets(Buffer) - Octets(Padding)

\* Memory from a byte on; what the call does not own is there to be read as well.
Memory(ptr, bits) ==
  LET buffer == Buffer
  IN  [k \in 1 .. bits |-> IF OctetBits * ptr + k <= Len(buffer) THEN buffer[OctetBits * ptr + k] ELSE beyond]

\* Mutant: the bytes that only partly fitted count as loaded.
RefillUp(r) ==
  LET bytes == (Window - r.nbits + OctetBits - 1) \div OctetBits
  IN  [r EXCEPT !.bits = Or(@, ShiftedIn(Memory(r.ptr, Window), r.nbits)),
                !.ptr = @ + bytes, !.nbits = @ + OctetBits * bytes]

\* A whole word at once: bits of a byte that only partly fits stay below nbits and are
\* or'ed with themselves by the next refill.
Refill(r) ==
  LET bytes == (Window - r.nbits) \div OctetBits
  IN  [r EXCEPT !.bits = Or(@, ShiftedIn(Memory(r.ptr, Window), r.nbits)),
                !.ptr = @ + bytes, !.nbits = @ + OctetBits * bytes]

\* A byte at a time up to the stream's end, which a word's refill may have passed.
RefillSafe(r) ==
  LET fits == (Window - r.nbits) \div OctetBits
      there == IF r.ptr < r.end THEN r.end - r.ptr ELSE 0
      bytes == IF fits < there THEN fits ELSE there
  IN  [r EXCEPT !.bits = Or(@, ShiftedIn(Memory(r.ptr, OctetBits * bytes), r.nbits)),
                !.ptr = @ + bytes, !.nbits = @ + OctetBits * bytes]

-----------------------------------------------------------------------------
\* The flat tables: the symbol whose code the index starts with, else the fill.
Matches(idx) == {s \in DOMAIN code : IsPrefix(code[s], idx)}
ShortestOf(c) == CHOOSE s \in DOMAIN c : \A u \in DOMAIN c : Len(c[s]) <= Len(c[u])
Entry(idx) ==
  IF Matches(idx) # {} THEN LET s == CHOOSE s \in Matches(idx) : TRUE IN [sym |-> s, len |-> Len(code[s])]
                       ELSE [sym |-> ShortestOf(code), len |-> 1]

MaxLenUsed == CHOOSE m \in {Len(code[s]) : s \in DOMAIN code} : \A s \in DOMAIN code : Len(code[s]) <= m
\* Four streams use the table of the longest code's bits, one the full table.
TableLogUsed == IF streams = 4 THEN MaxLenUsed ELSE MaxCodeLen

\* Peek, look up, consume.
EntryAt(r) == Entry(SubSeq(r.bits, 1, TableLogUsed) \o Zeros(MaxCodeLen - TableLogUsed))
AfterSymbol(r) ==
  LET e == EntryAt(r) IN [r EXCEPT !.bits = ShiftLeft(@, e.len), !.nbits = @ - e.len]

Reached(readers) ==
  LET ptrs == {touched} \cup {readers[s].ptr + Octets(Zeros(Window)) : s \in DOMAIN readers}
  IN  CHOOSE p \in ptrs : \A q \in ptrs : q <= p

-----------------------------------------------------------------------------
TradInit ==
  /\ phase = "idle" /\ streams = 1 /\ code = <<>> /\ word = <<>>
  /\ bw = FreshWriter /\ sent = <<>> /\ taken = 0 /\ beyond = 0
  /\ br = <<>> /\ got = <<>> /\ touched = 0

\* A call of trad_huffman_encode or of trad_huffman_encode_4s.
TradCall ==
  /\ phase = "idle"
  /\ streams' \in {1, 4} /\ code' \in Codes /\ word' \in Words[code'] /\ beyond' \in {0, 1}
  /\ phase' = "put"
  /\ UNCHANGED <<bw, sent, taken, br, got, touched>>

Current == Len(sent) + 1
PutSymbol ==
  /\ phase = "put" /\ taken < Len(Share(Current))
  /\ bw' = PutBits(bw, code[Share(Current)[taken + 1]])
  /\ taken' = taken + 1
  /\ UNCHANGED <<phase, streams, code, word, sent, beyond, br, got, touched>>
FinishStream ==
  /\ phase = "put" /\ taken = Len(Share(Current))
  /\ sent' = Append(sent, FinishBits(bw))
  /\ bw' = FreshWriter /\ taken' = 0
  /\ phase' = IF Current = streams THEN "open" ELSE "put"
  /\ UNCHANGED <<streams, code, word, beyond, br, got, touched>>

\* The decoder's readers: four are filled at once by the word, one by the byte.
OpenReaders ==
  /\ phase = "open"
  /\ LET opened == [s \in 1 .. streams |->
                      [bits |-> Zeros(Window), nbits |-> 0, ptr |-> Starts(s), end |-> Ends(s)]]
     IN  IF streams = 4
           THEN /\ br' = [s \in 1 .. 4 |-> Refill(opened[s])]
                /\ touched' = Reached(opened) /\ phase' = "loop"
           ELSE /\ br' = [s \in 1 .. 1 |-> RefillSafe(opened[s])]
                /\ UNCHANGED touched /\ phase' = "tail"
  /\ got' = [s \in 1 .. streams |-> <<>>]
  /\ UNCHANGED <<streams, code, word, bw, sent, taken, beyond>>

\* A turn of the interleaved loop: two symbols of every stream, then all refills.
TwoSymbols ==
  /\ phase = "loop" /\ Len(got[1]) + 2 <= Quarter
  /\ LET once == [s \in 1 .. 4 |-> AfterSymbol(br[s])]
         twice == [s \in 1 .. 4 |-> AfterSymbol(once[s])]
     IN  /\ got' = [s \in 1 .. 4 |-> got[s] \o <<EntryAt(br[s]).sym, EntryAt(once[s]).sym>>]
         /\ br' = [s \in 1 .. 4 |-> Refill(twice[s])]
         /\ touched' = Reached(twice)
  /\ UNCHANGED <<phase, streams, code, word, bw, sent, taken, beyond>>
EndLoop ==
  /\ phase = "loop" /\ Len(got[1]) + 2 > Quarter
  /\ phase' = "tail"
  /\ UNCHANGED <<streams, code, word, bw, sent, taken, beyond, br, got, touched>>

\* One symbol of what is left, stream after stream.
Unfinished == {s \in DOMAIN got : Len(got[s]) < Len(Share(s))}
OneSymbol ==
  /\ phase = "tail" /\ Unfinished # {}
  /\ LET s == CHOOSE s \in Unfinished : \A u \in Unfinished : s <= u
         r == IF br[s].nbits < TableLogUsed THEN RefillSafe(br[s]) ELSE br[s]
     IN  /\ got' = [got EXCEPT ![s] = Append(@, EntryAt(r).sym)]
         /\ br' = [br EXCEPT ![s] = AfterSymbol(r)]
  /\ UNCHANGED <<phase, streams, code, word, bw, sent, taken, beyond, touched>>
TradReturn ==
  /\ phase = "tail" /\ Unfinished = {}
  /\ phase' = "done"
  /\ UNCHANGED <<streams, code, word, bw, sent, taken, beyond, br, got, touched>>

TradNext == \/ TradCall \/ PutSymbol \/ FinishStream \/ OpenReaders
            \/ TwoSymbols \/ EndLoop \/ OneSymbol \/ TradReturn
TradSpec == TradInit /\ [][TradNext]_tradVars

-----------------------------------------------------------------------------
\* What was encoded is decoded, whatever lies behind the buffer.
WordDecoded == phase = "done" => \A s \in 1 .. streams : got[s] = Share(s)

\* Every bit a reader consumes was loaded before, every bit a writer holds has
\* room, and a stream's own bits are used up to less than a byte.
WindowsHold ==
  /\ bw.nbits \in 0 .. Window \div 2 - 1
  /\ \A s \in DOMAIN br :
       /\ br[s].nbits \in 0 .. Window
       /\ phase = "done" =>
            OctetBits * br[s].ptr - br[s].nbits \in
              OctetBits * (br[s].end - 1) + 1 .. OctetBits * br[s].end

\* What the coder of one stream and of four owes its caller: the word, read
\* through windows that never run dry.
TraditionalSound == WordDecoded /\ WindowsHold

\* br_refill, lines 9-11 and 32-33: eight bytes of padding are enough.
PaddingSuffices == touched <= Octets(Buffer)
=============================================================================
