------------------------------ MODULE CursorFse ------------------------------
(***************************************************************************)
(* The wide FSE coders of a region (encode_x and the decoder template of   *)
(* src/fse_xy_codec.h, the nibble decoder of src/pivco_fse.c): X states    *)
(* take turns over one stream, symbol p belongs to state p % X.  The bits  *)
(* pass through one machine word on each side, which is flushed and        *)
(* reloaded only as often as it must be.                                   *)
(*                                                                         *)
(* The tables are tANS tables over one normalised count, as BitContext has *)
(* them for a recipe; FSE itself (ext/fse) is external.  What a read past  *)
(* the start of the stream or past the word returns is all zeros or all    *)
(* ones.                                                                   *)
(***************************************************************************)
EXTENDS BitContext

CONSTANTS Word,      \* bits of the machine word: 64
          Cadence,   \* symbols between flushes and between reloads: 4
          Shapes,    \* decoders: [cursors, unroll, unit]; unit is the symbols of
                     \* an output byte, 2 for the nibble decoder
          Counts,    \* normalised counts: symbols to slots, the slots fill the table
          Inputs     \* sequences of symbols

ASSUME WordAssumption ==
  /\ Word % Bits = 0 /\ Cadence \in Nat \ {0}
  /\ Bits - 1 + Cadence * TableLog <= Word
ASSUME ShapesAssumption ==
  \A s \in Shapes :
    /\ s.cursors >= 2 /\ s.unroll >= 1 /\ s.unit \in {1, 2}
    /\ s.cursors % s.unit = 0 /\ Cadence % s.unit = 0
ASSUME CountsAssumption ==
  \A f \in Counts : f \in [Bytes -> 1 .. T] /\ Sum(f) = T
ASSUME InputsAssumption == \A w \in Inputs : w \in Seq(Bytes)

VARIABLES stage,    \* "idle", "absorb", "emit", "open", "states", "head", "body",
                    \* "tail", "round", "last", "done" or "raw"
          shape, counts, src,
          cur,      \* the states by cursor
          pos,      \* symbols not yet encoded
          pushed,   \* symbols encoded since the last flush
          held,     \* bits in the encoder's word
          emitted,  \* bits written
          unread,   \* bits the decoder has not consumed, below 0 past the start
          floor,    \* the stream's bit at the bottom of the decoder's word
          due,      \* what the decoder has to do before it looks again: symbols to
                    \* decode, as their cursors, and Reload
          dst       \* symbols decoded

cursorVars == <<stage, shape, counts, src, cur, pos, pushed, held, emitted, unread, floor, due, dst>>

X == shape.cursors
\* Cursors count from 0, so -1 can stand for BIT_reloadDStream.
Reloads == -1

-----------------------------------------------------------------------------
\* The tables of every count.
CursorTables == [f \in Counts |-> LET tsym == Spread(f)
                                  IN  [f |-> f, dec |-> Dec(f, tsym), tt |-> Enc(f), st |-> States(f, tsym)]]
TableOf == CursorTables[counts]

\* A symbol with half the slots or more has states that take no bit, which the fast
\* read cannot do: pivco_fse.c leaves such a static table to stock FSE, and reads
\* nibbles through the checked step.
WideSafe(f) == \A v \in Bytes : f[v] < T \div 2
Checked == stage # "body" \/ ~WideSafe(counts)

\* BIT_addBits: what the word has no room for is lost.
Pushed(word, bits) == LET all == word \o bits IN SubSeq(all, 1, IF Len(all) < Word THEN Len(all) ELSE Word)
\* BIT_flushBits: the whole bytes.
WholeBytes(word) == Bits * (Len(word) \div Bits)
Flushed(word) == SubSeq(word, 1, WholeBytes(word))
Kept(word) == SubSeq(word, WholeBytes(word) + 1, Len(word))

-----------------------------------------------------------------------------
CursorInit ==
  /\ stage = "idle" /\ shape = None /\ counts = None /\ src = <<>> /\ cur = <<>> /\ pos = 0
  /\ pushed = 0 /\ held = <<>> /\ emitted = <<>> /\ unread = 0 /\ floor = 0 /\ due = <<>> /\ dst = <<>>

\* A region for a shape and a table the encoder picks the wide path for.
CursorCall ==
  /\ stage = "idle"
  /\ shape' \in Shapes /\ counts' \in Counts /\ src' \in Inputs
  /\ shape'.unit = 1 => WideSafe(counts')
  /\ Len(src') % shape'.unit = 0
  /\ stage' = IF Len(src') < shape'.cursors THEN "raw" ELSE "absorb"
  /\ UNCHANGED <<cur, pos, pushed, held, emitted, unread, floor, due, dst>>

\* The last symbol of every cursor goes into its initial state.
AbsorbLast ==
  /\ stage = "absorb"
  /\ cur' = [k \in 0 .. X - 1 |->
               InitState(TableOf, src[1 + CHOOSE p \in Len(src) - X .. Len(src) - 1 : p % X = k])]
  /\ pos' = Len(src) - X /\ stage' = "emit"
  /\ UNCHANGED <<shape, counts, src, pushed, held, emitted, unread, floor, due, dst>>

\* Mutant: flushes come only with the rounds.
FlushDueByRound(p, count) == p % X = 0

\* After Cadence symbols, and at the end of the peel and of every round.
FlushDue(p, count) == count = Cadence \/ p % X = 0

EmitSymbol ==
  /\ stage = "emit" /\ pos > 0
  /\ LET p == pos - 1
         v == src[p + 1]
         k == p % X
         nb == NbOf(TableOf, v, cur[k])
         word == Pushed(held, Low(cur[k], nb))
     IN  /\ cur' = [cur EXCEPT ![k] = TableOf.st[@ \div 2 ^ nb + TableOf.tt[v].deltaFindState]]
         /\ pos' = p
         /\ IF FlushDue(p, pushed + 1)
              THEN pushed' = 0 /\ held' = Kept(word) /\ emitted' = emitted \o Flushed(word)
              ELSE pushed' = pushed + 1 /\ held' = word /\ UNCHANGED emitted
  /\ UNCHANGED <<stage, shape, counts, src, unread, floor, due, dst>>

\* FSE_flushCState, the last cursor first, and BIT_closeCStream.  A payload that is
\* not shorter than the region is not sent.
FlushStates ==
  /\ stage = "emit" /\ pos = 0
  /\ LET all == FoldLeft(LAMBDA bits, k : bits \o Low(cur[k] - T, TableLog), emitted \o held,
                         [h \in 1 .. X |-> X - h])
         closed == Padded(all)
     IN  /\ emitted' = closed
         /\ stage' = IF Len(closed) >= Bits * (Len(src) \div shape.unit) THEN "raw" ELSE "open"
  /\ held' = <<>> /\ cur' = <<>>
  /\ UNCHANGED <<shape, counts, src, pos, pushed, unread, floor, due, dst>>

-----------------------------------------------------------------------------
\* BIT_reloadDStream: the word moves down by the whole bytes consumed, or to the
\* start of the stream.
Overflown == unread < floor
WordUsed == floor + Word - unread
MovedFloor ==
  CASE Overflown -> floor
    [] ~Overflown /\ floor < Bits * (WordUsed \div Bits) -> 0
    [] OTHER -> floor - Bits * (WordUsed \div Bits)
\* Whether it reports "unfinished".
MoreWords == ~Overflown /\ floor > 0 /\ floor >= Bits * (WordUsed \div Bits)

\* BIT_readBits and BIT_readBitsFast, which has no answer for zero bits.
WordReads(nb) ==
  IF nb = 0 /\ ~Checked THEN {0, T - 1}
  ELSE IF unread - nb >= floor THEN {Value(SubSeq(emitted, unread - nb + 1, unread))}
  ELSE {0, 2 ^ nb - 1}

Room == Len(src) - Len(dst)
Cycle(from, count) == [h \in 1 .. count |-> (from + h - 1) % X]

\* A reload after every state read.
OpenStream ==
  /\ stage = "open"
  /\ unread' = (CHOOSE k \in DOMAIN emitted : /\ emitted[k] = 1
                                              /\ \A h \in k + 1 .. Len(emitted) : emitted[h] = 0) - 1
  /\ floor' = IF Len(emitted) > Word THEN Len(emitted) - Word ELSE 0
  /\ due' = FlattenSeq([h \in 1 .. X |-> <<h - 1, Reloads>>])
  /\ stage' = "states"
  /\ UNCHANGED <<shape, counts, src, cur, pos, pushed, held, emitted, dst>>
InitCursor ==
  /\ stage = "states" /\ due # <<>> /\ Head(due) # Reloads
  /\ \E v \in WordReads(TableLog) : cur' = [k \in 0 .. Cardinality(DOMAIN cur) |-> IF k = Head(due) THEN v ELSE cur[k]]
  /\ unread' = unread - TableLog
  /\ due' = Tail(due)
  /\ UNCHANGED <<stage, shape, counts, src, pos, pushed, held, emitted, floor, dst>>

\* The head of the fast loop: a reload, and a body if it is not the stream's end and
\* the output has room for one.  A body reloads after every Cadence symbols but the last.
BodySymbols == X * shape.unroll
Body == FlattenSeq([h \in 1 .. BodySymbols |->
                      IF h % Cadence = 0 /\ h < BodySymbols THEN <<(h - 1) % X, Reloads>> ELSE <<(h - 1) % X>>])
FastHead ==
  /\ stage = "head"
  /\ floor' = MovedFloor
  /\ IF MoreWords /\ BodySymbols <= Room
       THEN due' = Body /\ stage' = "body"
       ELSE stage' = "tail" /\ UNCHANGED due
  /\ UNCHANGED <<shape, counts, src, cur, pos, pushed, held, emitted, unread, dst>>

\* A round of the tail looks for the end after every output byte.
TailHead ==
  /\ stage = "tail"
  /\ IF X <= Room
       THEN /\ due' = FlattenSeq([h \in 1 .. X \div shape.unit |->
                                    Append(Cycle((h - 1) * shape.unit, shape.unit), Reloads)])
            /\ stage' = "round"
       ELSE /\ due' = Cycle(0, Room) /\ stage' = "last"
  /\ UNCHANGED <<shape, counts, src, cur, pos, pushed, held, emitted, unread, floor, dst>>

CursorSymbol ==
  /\ stage \in {"body", "round", "last"} /\ due # <<>> /\ Head(due) # Reloads
  /\ LET e == TableOf.dec[cur[Head(due)]]
     IN  /\ dst' = Append(dst, e.sym)
         /\ \E v \in WordReads(e.nb) :
              cur' = [cur EXCEPT ![Head(due)] = IF e.base + v < T THEN e.base + v ELSE T - 1]
         /\ unread' = unread - e.nb
  /\ due' = Tail(due)
  /\ UNCHANGED <<stage, shape, counts, src, pos, pushed, held, emitted, floor>>

\* A reload between symbols.  In a round of the tail an overflow ends the checks:
\* the round's other symbols are taken from the states, then the last ones.
WithoutReloads(ops) == SelectSeq(ops, LAMBDA k : k # Reloads)
CursorReload ==
  /\ stage \in {"states", "body", "round"} /\ due # <<>> /\ Head(due) = Reloads
  /\ floor' = MovedFloor
  /\ IF stage = "round" /\ Overflown
       THEN LET rest == WithoutReloads(Tail(due))
            IN  due' = rest \o Cycle(0, IF Room - Len(rest) < X THEN Room - Len(rest) ELSE X) /\ stage' = "last"
       ELSE due' = Tail(due) /\ UNCHANGED stage
  /\ UNCHANGED <<shape, counts, src, cur, pos, pushed, held, emitted, unread, dst>>

\* Nothing more is due.
CursorTurn ==
  /\ stage \in {"states", "body", "round", "last"} /\ due = <<>>
  /\ stage' = CASE stage = "states" -> "head" [] stage = "body" -> "head"
                [] stage = "round" -> "tail" [] OTHER -> "done"
  /\ UNCHANGED <<shape, counts, src, cur, pos, pushed, held, emitted, unread, floor, due, dst>>

CursorNext == \/ CursorCall \/ AbsorbLast \/ EmitSymbol \/ FlushStates \/ OpenStream \/ InitCursor
              \/ FastHead \/ TailHead \/ CursorSymbol \/ CursorReload \/ CursorTurn
CursorSpec == CursorInit /\ [][CursorNext]_cursorVars

-----------------------------------------------------------------------------
\* A payload that was sent decodes to the region, whatever the word holds past the
\* start of the stream.
RegionDecoded == stage = "done" => dst = src

\* The decoder reads past the start only once every symbol that was written with
\* bits has been read.
OverrunIsLast == unread < 0 => Len(dst) > Len(src) - X

\* What the wide coders owe the region.
CursorsDecode == RegionDecoded /\ OverrunIsLast
=============================================================================
