----------------------------- MODULE BitContext -----------------------------
(***************************************************************************)
(* The bit-context tANS coders of a region (src/pivco_k1.c, one bit of     *)
(* context; src/pivco_k2.c, two): the tables of a recipe, the interleaved  *)
(* segments over one stream of bits, and the decoder's way back through    *)
(* it.                                                                     *)
(*                                                                         *)
(* Bytes have Bits bits.  The recipe a region gets and whether its price   *)
(* passes are any; what a read past the start of the stream returns is     *)
(* any.  The stream may be damaged on its way to the decoder.              *)
(***************************************************************************)
EXTENDS Integers, FiniteSets, SequencesExt

CONSTANTS Bits,        \* bits of a byte
          TableLog,    \* K1_L, K2_L
          Segs,        \* K1_SEGS, K2_SEGS
          SplitMin,    \* PIVCO_K1_SPLIT_MIN, PIVCO_K2_SPLIT_MIN
          Group,       \* symbols of a single-state region between reloads
          PTab,        \* the probability grid, in units of PScale
          PScale,
          Coders,      \* the coders, each of [order: bits of context, 1 or 2; canonical:
                       \* whether only canonical recipes have tables (K2); recipes: the
                       \* recipes it chooses from, grid indices by context]
          Regions      \* the regions coded

T == 2 ^ TableLog
Bytes == 0 .. 2 ^ Bits - 1
Grid == 1 .. Len(PTab)

ASSUME SizesAssumption ==
  /\ 2 ^ Bits <= T /\ Segs >= 1 /\ SplitMin >= Segs * (Segs - 1) /\ Group >= 1
  /\ \A g \in Grid : PTab[g] \in 1 .. PScale - 1
ASSUME CodersAssumption ==
  \A c \in Coders : /\ c.order \in {1, 2} /\ c.order <= Bits /\ c.canonical \in BOOLEAN
                    /\ c.recipes \subseteq [0 .. 2 ^ c.order - 1 -> Grid]
ASSUME RegionsAssumption == \A x \in Regions : x # <<>> /\ \A j \in 1 .. Len(x) : x[j] \in Bytes
\* The grid of a coder that mirrors is closed under p -> 1 - p.
ASSUME GridAssumption ==
  (\E c \in Coders : c.canonical) => \A g \in Grid : PTab[g] + PTab[Len(PTab) + 1 - g] = PScale

\* The spread visits every slot only when its step is odd.
Step == T \div 2 + T \div 8 + 3
ASSUME StepAssumption == Step % 2 = 1

-----------------------------------------------------------------------------
VARIABLES coder,   \* the coder the process uses
          catalog, \* tables by recipe, built once by the process
          x,       \* the region, as bytes
          recipe,  \* its recipe, none before the choice
          pc,      \* "build", "choose", "absorb", "encode", "flush", "close", "wire", "read",
                   \* "head", "symbols", "check", or the verdict: "fallback", "bad", "ok"
          stream,  \* the bits pushed, oldest first
          st,      \* states of the segments
          i,       \* the round
          wire,    \* the payload: [recipe, bits]
          damaged, \* history: whether the wire changed it
          left,    \* bits the decoder has not consumed, below 0 past the start
          fast,    \* decoding in the loop without overflow checks
          todo,    \* symbols to decode before the next reload: <<round, segment>>
          cr,      \* carries of the segments
          out      \* bytes written

vars == <<coder, catalog, x, recipe, pc, stream, st, i, wire, damaged, left, fast, todo, cr, out>>

Order == coder.order
Canonical == coder.canonical
Recipes == coder.recipes
Ctxs == 0 .. 2 ^ Order - 1

-----------------------------------------------------------------------------
\* Recipes and their mirrors.
BitOf(v, j) == (v \div 2 ^ j) % 2
HighBit(v) == CHOOSE h \in 0 .. v : 2 ^ h <= v /\ v < 2 ^ (h + 1)

Mirror(r) == [k \in Ctxs |-> Len(PTab) + 1 - r[2 ^ Order - 1 - k]]
RecipeByte(r) == FoldLeft(LAMBDA sum, k : sum + (r[k] - 1) * Len(PTab) ^ k, 0, [h \in 1 .. 2 ^ Order |-> h - 1])
Mirrored(r) == Canonical /\ RecipeByte(Mirror(r)) < RecipeByte(r)
TablesOf(r) == IF Mirrored(r) THEN Mirror(r) ELSE r

\* Probability of a byte after a carry, in units of PScale ^ Bits.
NextCtx(k, bit) == bit * 2 ^ (Order - 1) + k \div 2
ByteProb(r, carry, v) ==
  FoldLeft(LAMBDA acc, j :
             [p |-> acc.p * (IF BitOf(v, j) = 1 THEN PTab[r[acc.k]] ELSE PScale - PTab[r[acc.k]]),
              k |-> NextCtx(acc.k, BitOf(v, j))],
           [p |-> 1, k |-> carry], [h \in 1 .. Bits |-> h - 1]).p

Sum(f) == FoldLeft(LAMBDA a, v : a + f[v], 0, [h \in 1 .. 2 ^ Bits |-> h - 1])
Biggest(f) == CHOOSE v \in Bytes : \A u \in Bytes : f[u] < f[v] \/ (f[u] = f[v] /\ v <= u)

\* The deficit comes off the largest, never below one; a surplus goes to it.  The
\* loop is over by the time every byte has been the largest.
SettledBy(f) ==
  LET over == Sum(f) - T
      big == Biggest(f)
  IN  IF over <= f[big] - 1 THEN [f EXCEPT ![big] = @ - over] ELSE [f EXCEPT ![big] = 1]
Settle(f) == FoldLeft(LAMBDA g, turn : SettledBy(g), f, [turn \in 1 .. 2 ^ Bits |-> turn])

Normalize(r, carry) ==
  Settle([v \in Bytes |-> LET fs == (ByteProb(r, carry, v) * T) \div PScale ^ Bits
                          IN  IF fs = 0 THEN 1 ELSE fs])

\* The tables of a recipe after a carry.
Cumul(f) == [v \in Bytes |-> FoldLeft(LAMBDA a, u : a + f[u], 0, [h \in 1 .. v |-> h - 1])]
Spread(f) ==
  LET cum == Cumul(f)
      Owner(k) == CHOOSE v \in Bytes : cum[v] <= k /\ k < cum[v] + f[v]
  IN  [y \in 0 .. T - 1 |-> Owner(CHOOSE k \in 0 .. T - 1 : (k * Step) % T = y)]
Rank(tsym, y) == Cardinality({z \in 0 .. y - 1 : tsym[z] = tsym[y]})

\* Mutant: every occurrence of a byte reads as many bits as its first.
DecSameBits(f, tsym) ==
  [y \in 0 .. T - 1 |->
     LET nb == TableLog - HighBit(f[tsym[y]])
     IN  [sym |-> tsym[y], nb |-> nb, base |-> (f[tsym[y]] + Rank(tsym, y)) * 2 ^ nb - T]]
Dec(f, tsym) ==
  [y \in 0 .. T - 1 |->
     LET X == f[tsym[y]] + Rank(tsym, y)
         nb == TableLog - HighBit(X)
     IN  [sym |-> tsym[y], nb |-> nb, base |-> X * 2 ^ nb - T]]

MaxBits(f, v) == IF f[v] = 1 THEN TableLog ELSE TableLog - HighBit(f[v] - 1)
DeltaNbBits(f, v) == MaxBits(f, v) * 2 ^ 16 - f[v] * 2 ^ MaxBits(f, v)
Enc(f) ==
  LET cum == Cumul(f)
  IN  [v \in Bytes |-> [deltaNbBits |-> DeltaNbBits(f, v), deltaFindState |-> cum[v] - f[v]]]
States(f, tsym) ==
  LET cum == Cumul(f)
      Place(y) == cum[tsym[y]] + Rank(tsym, y)
  IN  [j \in 0 .. T - 1 |-> T + CHOOSE y \in 0 .. T - 1 : Place(y) = j]

BuildCarry(r, carry) ==
  LET f == Normalize(r, carry)
      tsym == Spread(f)
  IN  [f |-> f, dec |-> Dec(f, tsym), tt |-> Enc(f), st |-> States(f, tsym)]

\* The tables of every recipe there are tables of.
Tables == [r \in {TablesOf(s) : s \in Recipes} |-> [k \in Ctxs |-> BuildCarry(r, k)]]

-----------------------------------------------------------------------------
\* No recipe yet, no payload yet.
None == <<>>
Verdicts == {"fallback", "bad", "ok"}

N == Len(x)
Nst == IF N >= SplitMin THEN Segs ELSE 1
SegSeq == [k \in 1 .. Nst |-> k - 1]
Q == (N + Nst - 1) \div Nst
\* Rounds in which every segment has a symbol.
Full == N - (Nst - 1) * Q
At(sg, k) == sg * Q + k
Has(sg, k) == At(sg, k) < N

\* The byte coded at j and the carry into it: a mirrored region is coded as its
\* complement.
Flip(v) == 2 ^ Bits - 1 - v
Coded(j) == IF Mirrored(recipe) THEN Flip(x[j + 1]) ELSE x[j + 1]
Carry0(r) == IF Mirrored(r) THEN 2 ^ Order - 1 ELSE 0
CarryOf(v) == v \div 2 ^ (Bits - Order)
\* Mutant: a segment's first byte takes its carry from the segment before.
CarryAcross(sg, k) == IF At(sg, k) = 0 THEN Carry0(recipe) ELSE CarryOf(Coded(At(sg, k) - 1))
CarryInto(sg, k) == IF k = 0 THEN Carry0(recipe) ELSE CarryOf(Coded(At(sg, k) - 1))
Tab(r, carry) == catalog[TablesOf(r)][carry]

\* BIT_addBits and BIT_readBits: bits go in low first and come out from the end.
\* Past the start of the stream a read returns zeros or ones.
Low(v, nb) == [k \in 1 .. nb |-> BitOf(v, k - 1)]
Value(bits) == FoldLeft(LAMBDA a, k : a + bits[k] * 2 ^ (k - 1), 0, [k \in 1 .. Len(bits) |-> k])
Reads(nb) ==
  IF nb <= left THEN {Value(SubSeq(wire.bits, left - nb + 1, left))} ELSE {0, 2 ^ nb - 1}

\* k1_enc_sym
NbOf(t, v, state) == (state + t.tt[v].deltaNbBits) \div 2 ^ 16
EncSym(acc, sg, k) ==
  LET t == Tab(recipe, CarryInto(sg, k))
      v == Coded(At(sg, k))
      state == acc.st[sg]
      nb == NbOf(t, v, state)
  IN  [stream |-> acc.stream \o Low(state, nb),
       st |-> [acc.st EXCEPT ![sg] = t.st[state \div 2 ^ nb + t.tt[v].deltaFindState]]]

\* k1_init_state
InitState(t, v) ==
  LET nb == (t.tt[v].deltaNbBits + 2 ^ 15) \div 2 ^ 16
      value == nb * 2 ^ 16 - t.tt[v].deltaNbBits
  IN  t.st[value \div 2 ^ nb + t.tt[v].deltaFindState]

-----------------------------------------------------------------------------
Init ==
  /\ coder \in Coders /\ catalog = None /\ x = <<>>
  /\ recipe = None /\ pc = "build" /\ stream = <<>> /\ st = <<>> /\ i = 0
  /\ wire = None /\ damaged = FALSE /\ left = 0 /\ fast = FALSE /\ todo = <<>> /\ cr = <<>>
  /\ out = <<>>

\* The first context of the process builds the catalog; without memory for it every
\* region falls back.
BuildCatalog ==
  /\ pc = "build"
  /\ \/ catalog' = Tables /\ pc' = "choose"
     \/ pc' = "fallback" /\ UNCHANGED catalog
  /\ UNCHANGED <<coder, x, recipe, stream, st, i, wire, damaged, left, fast, todo, cr, out>>

\* A region comes; the recipe of the pair counts; the price may end the attempt.
Choose ==
  /\ pc = "choose"
  /\ x' \in Regions
  /\ recipe' \in Recipes
  /\ pc' \in {"absorb", "fallback"}
  /\ UNCHANGED <<coder, catalog, stream, st, i, wire, damaged, left, fast, todo, cr, out>>

\* The last symbol of a segment goes into its initial state; a segment too short
\* for the last round starts from the first state.
Absorbed(sg) ==
  IF Has(sg, Q - 1) THEN InitState(Tab(recipe, CarryInto(sg, Q - 1)), Coded(At(sg, Q - 1))) ELSE T
\* Mutant: the first round of the loop is skipped.
AbsorbShort ==
  /\ pc = "absorb"
  /\ st' = [sg \in 0 .. Nst - 1 |-> Absorbed(sg)]
  /\ i' = IF Q > 1 THEN Q - 2 ELSE 0
  /\ pc' = "encode"
  /\ UNCHANGED <<coder, catalog, x, recipe, stream, wire, damaged, left, fast, todo, cr, out>>
Absorb ==
  /\ pc = "absorb"
  /\ st' = [sg \in 0 .. Nst - 1 |-> Absorbed(sg)]
  /\ i' = Q - 1 /\ pc' = "encode"
  /\ UNCHANGED <<coder, catalog, x, recipe, stream, wire, damaged, left, fast, todo, cr, out>>

\* A round backward, the last segment first.
EncodeRound ==
  /\ pc = "encode" /\ i > 0
  /\ LET done == FoldLeft(LAMBDA acc, sg : IF Has(sg, i - 1) THEN EncSym(acc, sg, i - 1) ELSE acc,
                          [stream |-> stream, st |-> st], Reverse(SegSeq))
     IN  stream' = done.stream /\ st' = done.st
  /\ i' = i - 1
  /\ UNCHANGED <<coder, catalog, x, recipe, pc, wire, damaged, left, fast, todo, cr, out>>

Flush ==
  /\ pc = "encode" /\ i = 0
  /\ stream' = FoldLeft(LAMBDA acc, sg : acc \o Low(st[sg] - T, TableLog), stream, Reverse(SegSeq))
  /\ pc' = "close"
  /\ UNCHANGED <<coder, catalog, x, recipe, st, i, wire, damaged, left, fast, todo, cr, out>>

\* BIT_closeCStream: the terminator, zero padding; 0 when the buffer ran out.
Padded(bits) ==
  LET full == Append(bits, 1)
  IN  full \o [k \in 1 .. (Bits - (Len(full) % Bits)) % Bits |-> 0]
Close ==
  /\ pc = "close"
  /\ LET bits == Padded(stream)
     IN  \/ /\ 1 + Len(bits) \div Bits < N
            /\ wire' = [recipe |-> recipe, bits |-> bits] /\ pc' = "wire"
         \/ pc' = "fallback" /\ UNCHANGED wire
  /\ UNCHANGED <<coder, catalog, x, recipe, stream, st, i, damaged, left, fast, todo, cr, out>>

\* A payload may reach the decoder with a bit flipped, or without its last byte.
Damage ==
  /\ pc = "wire" /\ ~damaged
  /\ damaged' = TRUE
  /\ \/ \E k \in DOMAIN wire.bits : wire' = [wire EXCEPT !.bits[k] = 1 - @]
     \/ /\ Len(wire.bits) > Bits
        /\ wire' = [wire EXCEPT !.bits = SubSeq(@, 1, Len(@) - Bits)]
  /\ UNCHANGED <<coder, catalog, x, recipe, pc, stream, st, i, left, fast, todo, cr, out>>

-----------------------------------------------------------------------------
\* BIT_initDStream looks for the terminator in the last byte.
Terminated == \E k \in Len(wire.bits) - Bits + 1 .. Len(wire.bits) : wire.bits[k] = 1
Open ==
  /\ pc = "wire"
  /\ IF Terminated
       THEN /\ left' = (CHOOSE k \in DOMAIN wire.bits :
                          /\ wire.bits[k] = 1
                          /\ \A j \in k + 1 .. Len(wire.bits) : wire.bits[j] = 0) - 1
            /\ pc' = "read"
       ELSE UNCHANGED left /\ pc' = "bad"
  /\ st' = <<>> /\ i' = 0 /\ fast' = TRUE
  /\ out' = [j \in 1 .. N |-> 0]
  /\ cr' = [sg \in 0 .. Nst - 1 |-> Carry0(wire.recipe)]
  /\ UNCHANGED <<coder, catalog, x, recipe, stream, wire, damaged, todo>>

\* A state for each segment, the first segment's first.
ReadState ==
  /\ pc = "read"
  /\ LET sg == Cardinality(DOMAIN st)
     IN  /\ \E v \in Reads(TableLog) : st' = [k \in 0 .. sg |-> IF k = sg THEN v ELSE st[k]]
         /\ pc' = IF sg + 1 = Nst THEN "head" ELSE "read"
  /\ left' = left - TableLog
  /\ UNCHANGED <<coder, catalog, x, recipe, stream, i, wire, damaged, fast, todo, cr, out>>

\* The head of a fast round: every segment has a symbol and the reload found enough
\* unread bytes, which it may or may not with that many bits left; a single state
\* takes Group symbols at once.
Rounds == IF Nst = 1 THEN Group ELSE 1
RoundOrder(rounds) ==
  SetToSortSeq({<<k, sg>> : k \in i .. i + rounds - 1, sg \in 0 .. Nst - 1},
               LAMBDA a, b : a[1] < b[1] \/ (a[1] = b[1] /\ a[2] < b[2]))
HeadFast ==
  /\ pc = "head" /\ fast /\ i + Rounds <= Full
  /\ left >= Rounds * Nst * TableLog
  /\ todo' = RoundOrder(Rounds) /\ i' = i + Rounds /\ pc' = "symbols"
  /\ UNCHANGED <<coder, catalog, x, recipe, stream, st, wire, damaged, left, fast, cr, out>>

\* The head of a round of the tail: only the last round may read past the start.
Overrun == left < 0 /\ i + 1 < Q
HeadTail ==
  /\ pc = "head" /\ i < Q
  /\ fast' = FALSE
  /\ IF Overrun THEN pc' = "bad" /\ UNCHANGED <<coder, todo, i>>
                ELSE /\ todo' = SelectSeq(RoundOrder(1), LAMBDA t : Has(t[2], t[1]))
                     /\ i' = i + 1 /\ pc' = "symbols"
  /\ UNCHANGED <<coder, catalog, x, recipe, stream, st, wire, damaged, left, cr, out>>

\* K1_STEP
DecodeSymbol ==
  /\ pc = "symbols" /\ todo # <<>>
  /\ LET sg == Head(todo)[2]
         e == Tab(wire.recipe, cr[sg]).dec[st[sg]]
     IN  /\ out' = [out EXCEPT ![At(sg, Head(todo)[1]) + 1] = e.sym]
         /\ cr' = [cr EXCEPT ![sg] = CarryOf(e.sym)]
         /\ \E v \in Reads(e.nb) : st' = [st EXCEPT ![sg] = e.base + v]
         /\ left' = left - e.nb
  /\ todo' = Tail(todo)
  /\ UNCHANGED <<coder, catalog, x, recipe, pc, stream, i, wire, damaged, fast>>

Reload ==
  /\ pc = "symbols" /\ todo = <<>>
  /\ pc' = IF i < Q THEN "head" ELSE "check"
  /\ UNCHANGED <<coder, catalog, x, recipe, stream, st, i, wire, damaged, left, fast, todo, cr, out>>

\* The stream must be consumed to its start; a mirrored region is turned back.
Consumed == left <= 0
Check ==
  /\ pc = "check"
  /\ IF Consumed THEN /\ pc' = "ok"
                      /\ out' = IF Mirrored(wire.recipe) THEN [j \in 1 .. N |-> Flip(out[j])] ELSE out
                 ELSE pc' = "bad" /\ UNCHANGED out
  /\ UNCHANGED <<coder, catalog, x, recipe, stream, st, i, wire, damaged, left, fast, todo, cr>>

Next == \/ BuildCatalog \/ Choose \/ Absorb \/ EncodeRound \/ Flush \/ Close \/ Damage
        \/ Open \/ ReadState \/ HeadFast \/ HeadTail \/ DecodeSymbol \/ Reload \/ Check
Spec == Init /\ [][Next]_vars

-----------------------------------------------------------------------------
TypeOK ==
  /\ coder \in Coders /\ (catalog # None => \A r \in Recipes : TablesOf(r) \in DOMAIN catalog)
  /\ x \in Regions \cup {<<>>} /\ recipe \in Recipes \cup {None}
  /\ pc \in {"build", "choose", "absorb", "encode", "close", "wire", "read", "head", "symbols", "check"}
              \cup Verdicts
  /\ stream \in Seq({0, 1}) /\ out \in Seq(Bytes)
  /\ \A sg \in DOMAIN cr : cr[sg] \in Ctxs
  /\ left >= -2 * Segs * TableLog

\* The tables the encoder and the decoder share: every byte has a slot, the slots
\* fill the table, and what the encoder does to a state the decoder undoes, with as
\* many bits.
Inverts(t) ==
  /\ Sum(t.f) = T /\ \A v \in Bytes : t.f[v] >= 1
  /\ \A v \in Bytes, state \in T .. 2 * T - 1 :
       LET nb == NbOf(t, v, state)
           e == t.dec[t.st[state \div 2 ^ nb + t.tt[v].deltaFindState] - T]
       IN  e.sym = v /\ e.nb = nb /\ e.base + (state % 2 ^ nb) = state - T
TablesInvert == pc = "choose" => \A r \in DOMAIN catalog, k \in Ctxs : Inverts(catalog[r][k])

\* Coding the complement under the mirror costs what the region costs under its
\* own recipe: complemented bytes have the same probabilities after complemented
\* carries.
MirrorAgrees ==
  Canonical /\ pc = "choose" =>
    \A r \in Recipes, k \in Ctxs, v \in Bytes :
      ByteProb(Mirror(r), 2 ^ Order - 1 - k, Flip(v)) = ByteProb(r, k, v)

\* An undamaged payload decodes to the region, whatever a read past the start of
\* the stream returns.
RoundTrip == pc = "ok" /\ ~damaged => out = x

\* An undamaged payload is accepted: the overrun and end checks let the absorbed
\* symbols' reads pass.
IntactAccepted == pc = "bad" => damaged

\* A state stays in range whatever bits come back, and so does every table index
\* it makes.
StatesInRange ==
  \A sg \in DOMAIN st :
    st[sg] \in IF pc \in {"encode", "close", "wire", "fallback"} THEN T .. 2 * T - 1 ELSE 0 .. T - 1

\* Only the last reads of the segments with a symbol in the last round go past the
\* start of an undamaged stream.
OnlyAbsorbedOverrun ==
  left < 0 /\ ~damaged => i = Q /\ pc \in {"symbols", "check", "ok"}

\* The tables of every recipe are right for both sides.
TablesSound == TablesInvert /\ MirrorAgrees

\* An intact payload is accepted and is the region.
IntactDecodes == RoundTrip /\ IntactAccepted

\* Damaged or not, a state stays in its table, and an intact stream is overrun only
\* where that is allowed.
StatesSafe == TypeOK /\ StatesInRange /\ OnlyAbsorbedOverrun
=============================================================================
