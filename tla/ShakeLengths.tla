---------------------------- MODULE ShakeLengths ----------------------------
(***************************************************************************)
(* The shake pass (src/shake_lengths.c): a race of hill climbs over code   *)
(* lengths, each step priced by encoding the segment's blocks.             *)
(*                                                                         *)
(* A draw of the generator is any draw.  What a block costs under given    *)
(* lengths is the constant BlockCost, SizeMax when the table does not      *)
(* build or the block does not encode.  The lengths already priced are     *)
(* remembered by hash only, in a set of bounded size.                      *)
(***************************************************************************)
EXTENDS Integers, FiniteSets, FiniteSetsExt

CONSTANTS Coded,           \* the symbols with a code
          MaxCodeLen,      \* PIVCO_MAX_CODE_LEN
          NBlk,            \* blocks of the segment
          Starts,          \* SHAKE_STARTS
          Burst,           \* SHAKE_BURST
          Screen,          \* SHAKE_SCREEN
          Tries,           \* draws of a start before it is given up
          SizeMax,
          BlockCost(_, _), \* bytes of a block under lengths, or SizeMax
          Hash(_),         \* lens_hash
          SeenCap,         \* slots of the set of priced lengths
          Inputs           \* calls: [freq, lens, steps]

Blocks == 0 .. NBlk - 1
Cands  == 0 .. Starts - 1
Lens   == [Coded -> 1 .. MaxCodeLen]

ASSUME SizesAssumption ==
  /\ MaxCodeLen \in Nat /\ NBlk \in Nat \ {0} /\ Starts \in Nat \ {0} /\ Burst \in Nat \ {0}
  /\ Screen \in Nat \ {0} /\ Tries \in Nat /\ SeenCap \in Nat \ {0} /\ SizeMax \in Nat
ASSUME SymbolsAssumption == IsFiniteSet(Coded)
ASSUME InputsAssumption == Inputs \subseteq [freq : [Coded -> Nat], lens : Lens, steps : Nat]

VARIABLES call,    \* the call's arguments
          lengths, \* the caller's lengths
          cand,    \* shake_cand_t, by candidate
          candBlk, \* the shared block prices of the step being tried
          seen,    \* hashes of the lengths tried
          pc,      \* "begin", "draw", "burst", "climb", "drop", "pick", "returned"
          at,      \* the candidate in turn
          made,    \* draws made for a start, or steps made in a turn
          left,    \* moves left in a burst, and whether one applied
          round, live, per,
          stats,   \* enc->stats: "callers", or "priced" with pricing in it
          rc,
          cheapest, \* history: least price of any lengths priced on every block
          steps     \* history: climb steps made

race == <<cand, candBlk, seen, at, made, left, round, live, per, cheapest, steps>>
vars == <<call, lengths, cand, candBlk, seen, pc, at, made, left, round, live, per, stats, rc,
          cheapest, steps>>

-----------------------------------------------------------------------------
\* The symbols that may move: present, with less than a quarter of the segment.
Total(fr) == MapThenSumSet(LAMBDA s : fr[s], Coded)
SegmentSize == Total(call.freq)
Movable == {s \in Coded : call.freq[s] > 0 /\ 4 * call.freq[s] < SegmentSize}

\* SHAKE_SCREEN blocks spread over the segment, when it has more than that.
ScreenBlocks == {(j * NBlk) \div Screen : j \in 0 .. Screen - 1}

\* price: the sum over the blocks sel, SizeMax when one fails.
Encodes(l, sel) == \A b \in sel : BlockCost(l, b) # SizeMax
Price(l, sel) ==
  IF Encodes(l, sel) THEN MapThenSumSet(LAMBDA b : BlockCost(l, b), sel) ELSE SizeMax
\* SIZE_MAX is above any sum of prices.
ASSUME CostAssumption ==
  \A l \in Lens :
    /\ \A b \in Blocks : BlockCost(l, b) \in 0 .. SizeMax
    /\ \A sel \in SUBSET Blocks : Price(l, sel) \in 0 .. SizeMax
    /\ \A sel \in SUBSET Blocks : Encodes(l, sel) => Price(l, sel) # SizeMax
\* The per-block prices it leaves in blk: those before the first that fails.
PricedBlk(l, sel, blk) ==
  [b \in Blocks |-> IF b \in sel /\ Encodes(l, {a \in sel : a <= b}) THEN BlockCost(l, b)
                                                                   ELSE blk[b]]

Kraft(l) == MapThenSumSet(LAMBDA s : 2 ^ (MaxCodeLen - l[s]), Coded)

\* neighbor_swap and the swap of random_move: two symbols trade lengths.
Swaps(l) == {[l EXCEPT ![a] = l[b], ![b] = l[a]] : a, b \in Movable}

Triples == {t \in Movable \X Movable \X Movable : t[1] # t[2] /\ t[1] # t[3] /\ t[2] # t[3]}
\* Splits and joins, drawn at random or directed.
Splits(l) ==
  {[l EXCEPT ![t[1]] = @ - 1, ![t[2]] = @ + 1, ![t[3]] = @ + 1] :
     t \in {u \in Triples : /\ l[u[2]] = l[u[1]] /\ l[u[3]] = l[u[1]]
                            /\ l[u[1]] > 1 /\ l[u[1]] + 1 <= MaxCodeLen}}
Joins(l) ==
  {[l EXCEPT ![t[1]] = @ + 1, ![t[2]] = @ - 1, ![t[3]] = @ - 1] :
     t \in {u \in Triples : l[u[2]] = l[u[1]] + 2 /\ l[u[3]] = l[u[1]] + 2}}

\* What one draw of draw_moves can make of lengths it changes.
Moved(l) == (Swaps(l) \cup Splits(l) \cup Joins(l)) \ {l}

\* seen_insert: a full set lets everything through.
Seen(l) == Hash(l) \in seen
SeenWith(l) == IF Cardinality(seen) < SeenCap THEN seen \cup {Hash(l)} ELSE seen

-----------------------------------------------------------------------------
NoCand == [lens |-> CHOOSE l \in Lens : TRUE, cost |-> SizeMax,
           blk |-> [b \in Blocks |-> 0], alive |-> FALSE]

\* Rounds of the race: one, and one for each power of two below the starts.
Rounds == 1 + Cardinality({r \in 0 .. Starts : 2 ^ r < Starts})

\* Steps of each candidate in a round with n of them left.
\* Mutant: every candidate gets the round's steps.
PerUnshared(n) == call.steps \div Rounds
Per(n) == (call.steps \div Rounds) \div n

Init ==
  /\ call \in Inputs
  /\ lengths = call.lens
  /\ cand = [i \in Cands |-> NoCand]
  /\ candBlk = [b \in Blocks |-> 0]
  /\ seen = {} /\ pc = "begin" /\ at = 0 /\ made = 0 /\ left = [moves |-> 0, moved |-> FALSE]
  /\ round = 0 /\ live = 0 /\ per = 0
  /\ stats = "callers" /\ rc = "none" /\ cheapest = SizeMax /\ steps = 0

\* Nothing to do: no steps asked for, or fewer than three symbols may move.
NothingToDo ==
  /\ pc = "begin" /\ (call.steps = 0 \/ Cardinality(Movable) < 3)
  /\ pc' = "returned" /\ rc' = "ok"
  /\ UNCHANGED <<call, lengths, stats, race>>

NoMemory ==
  /\ pc = "begin" /\ call.steps > 0 /\ Cardinality(Movable) >= 3
  /\ pc' = "returned" /\ rc' = "null"
  /\ UNCHANGED <<call, lengths, stats, race>>

\* The input lengths are the first candidate.  When they cannot be priced the
\* call fails.  Either way the pricing went through the caller's encoder.
\* Mutant: the statistics are put back on success only.
InputFailsDirty ==
  /\ pc = "begin" /\ call.steps > 0 /\ Cardinality(Movable) >= 3
  /\ Price(call.lens, Blocks) = SizeMax
  /\ pc' = "returned" /\ rc' = "corrupt" /\ stats' = "priced"
  /\ UNCHANGED <<call, lengths, race>>
InputFails ==
  /\ pc = "begin" /\ call.steps > 0 /\ Cardinality(Movable) >= 3
  /\ Price(call.lens, Blocks) = SizeMax
  /\ pc' = "returned" /\ rc' = "corrupt" /\ stats' = "callers"
  /\ UNCHANGED <<call, lengths, race>>

Begin ==
  /\ pc = "begin" /\ call.steps > 0 /\ Cardinality(Movable) >= 3
  /\ Price(call.lens, Blocks) # SizeMax
  /\ cand' = [cand EXCEPT ![0] = [lens |-> call.lens, cost |-> Price(call.lens, Blocks),
                                     blk |-> PricedBlk(call.lens, Blocks, cand[0].blk),
                                     alive |-> TRUE]]
  /\ seen' = SeenWith(call.lens)
  /\ cheapest' = Price(call.lens, Blocks)
  /\ stats' = "priced"
  /\ pc' = "draw" /\ at' = 1
  /\ UNCHANGED <<call, lengths, candBlk, made, left, round, live, per, rc, steps>>

-----------------------------------------------------------------------------
\* The starts: bursts of moves from the input lengths, drawn again until one is
\* new and encodes.
\* Mutant: draws that come to nothing are not counted.
DrawUncounted ==
  /\ pc = "draw" /\ at < Starts /\ ~cand[at].alive /\ made < Tries
  /\ \E m \in 1 .. Burst : left' = [moves |-> m, moved |-> FALSE]
  /\ cand' = [cand EXCEPT ![at].lens = cand[0].lens]
  /\ pc' = "burst"
  /\ UNCHANGED <<call, lengths, candBlk, seen, at, made, round, live, per, stats, rc,
                 cheapest, steps>>
Draw ==
  /\ pc = "draw" /\ at < Starts /\ ~cand[at].alive /\ made < Tries
  /\ \E m \in 1 .. Burst : left' = [moves |-> m, moved |-> FALSE]
  /\ cand' = [cand EXCEPT ![at].lens = cand[0].lens]
  /\ made' = made + 1
  /\ pc' = "burst"
  /\ UNCHANGED <<call, lengths, candBlk, seen, at, round, live, per, stats, rc, cheapest, steps>>

BurstMove ==
  /\ pc = "burst" /\ left.moves > 0
  /\ \/ /\ left' = [left EXCEPT !.moves = @ - 1]
        /\ UNCHANGED cand
     \/ /\ left' = [moves |-> left.moves - 1, moved |-> TRUE]
        /\ \E l \in Moved(cand[at].lens) : cand' = [cand EXCEPT ![at].lens = l]
  /\ UNCHANGED <<call, lengths, candBlk, seen, pc, at, made, round, live, per, stats, rc,
                 cheapest, steps>>

\* No move applied, or the lengths were tried before.
BurstWasted ==
  /\ pc = "burst" /\ left.moves = 0
  /\ left.moved => Seen(cand[at].lens)
  /\ pc' = "draw"
  /\ UNCHANGED <<call, lengths, stats, rc, race>>

BurstPriced ==
  /\ pc = "burst" /\ left.moves = 0 /\ left.moved /\ ~Seen(cand[at].lens)
  /\ seen' = SeenWith(cand[at].lens)
  /\ LET cost == Price(cand[at].lens, Blocks)
     IN  /\ cand' = [cand EXCEPT ![at].cost = cost, ![at].blk = PricedBlk(cand[at].lens, Blocks, @),
                                 ![at].alive = (cost # SizeMax)]
         /\ cheapest' = IF cost < cheapest THEN cost ELSE cheapest
  /\ pc' = "draw"
  /\ UNCHANGED <<call, lengths, candBlk, at, made, left, round, live, per, stats, rc, steps>>

NextStart ==
  /\ pc = "draw" /\ at < Starts /\ (cand[at].alive \/ made = Tries)
  /\ at' = at + 1 /\ made' = 0
  /\ UNCHANGED <<call, lengths, cand, candBlk, seen, pc, left, round, live, per, stats, rc,
                 cheapest, steps>>

Alive == {i \in Cands : cand[i].alive}

RaceBegins ==
  /\ pc = "draw" /\ at = Starts
  /\ live' = Cardinality(Alive)
  /\ per' = Per(live')
  /\ pc' = "climb" /\ at' = 0 /\ made' = 0
  /\ UNCHANGED <<call, lengths, cand, candBlk, seen, left, round, stats, rc, cheapest, steps>>

-----------------------------------------------------------------------------
\* climb_step on candidate at: one move, priced on the screened blocks first.
InTurn == pc = "climb" /\ cand[at].alive /\ made < per
Stepped ==
  /\ made' = made + 1 /\ steps' = steps + 1
  /\ UNCHANGED <<call, lengths, pc, at, left, round, live, per, stats, rc>>

\* The draw changed nothing, or gave lengths already tried.
StepWasted == InTurn /\ Stepped /\ UNCHANGED <<cand, candBlk, seen, cheapest>>

ScreenSum(blk) == MapThenSumSet(LAMBDA b : blk[b], ScreenBlocks)
ScreenedOut(l) ==
  Screen < NBlk /\ \/ Price(l, ScreenBlocks) = SizeMax
                   \/ Price(l, ScreenBlocks) > ScreenSum(cand[at].blk)

StepScreened ==
  /\ InTurn /\ Stepped
  /\ \E l \in Moved(cand[at].lens) :
       /\ ~Seen(l) /\ ScreenedOut(l)
       /\ seen' = SeenWith(l)
       /\ candBlk' = PricedBlk(l, ScreenBlocks, candBlk)
  /\ UNCHANGED <<cand, cheapest>>

\* What a step leaves of the candidate when its full price is known.
\* Mutant: the candidate keeps the block prices it had.
AcceptedStaleBlk(l) ==
  [cand[at] EXCEPT !.lens = l, !.cost = Price(l, Blocks)]
Accepted(l) ==
  [cand[at] EXCEPT !.lens = l, !.cost = Price(l, Blocks), !.blk = PricedBlk(l, Blocks, candBlk)]

Better(l) == Price(l, Blocks) < cand[at].cost

StepPriced ==
  /\ InTurn /\ Stepped
  /\ \E l \in Moved(cand[at].lens) :
       /\ ~Seen(l) /\ ~ScreenedOut(l)
       /\ seen' = SeenWith(l)
       /\ candBlk' = PricedBlk(l, Blocks, candBlk)
       /\ cand' = IF Better(l) THEN [cand EXCEPT ![at] = Accepted(l)] ELSE cand
       /\ cheapest' = IF Price(l, Blocks) < cheapest THEN Price(l, Blocks) ELSE cheapest

TurnEnds ==
  /\ pc = "climb" /\ (~cand[at].alive \/ made = per)
  /\ made' = 0
  /\ IF at + 1 < Starts THEN at' = at + 1 /\ pc' = pc ELSE at' = 0 /\ pc' = "drop"
  /\ UNCHANGED <<call, lengths, cand, candBlk, seen, left, round, live, per, stats, rc,
                 cheapest, steps>>

\* The worse half is dropped, the first of equals first.
\* Mutant: the better half.
WorseReversed(i, j) == cand[i].cost < cand[j].cost \/ (cand[i].cost = cand[j].cost /\ i < j)
Worse(i, j) == cand[i].cost > cand[j].cost \/ (cand[i].cost = cand[j].cost /\ i < j)
\* Mutant: rounded up.
DropCountUp == (live + 1) \div 2
DropCount == live \div 2
Drop ==
  /\ pc = "drop"
  /\ \E D \in SUBSET Alive :
       /\ Cardinality(D) = DropCount
       /\ \A i \in D, j \in Alive \ D : Worse(i, j)
       /\ cand' = [i \in Cands |-> IF i \in D THEN [cand[i] EXCEPT !.alive = FALSE] ELSE cand[i]]
  /\ live' = live - DropCount
  /\ round' = round + 1
  /\ IF round + 1 < Rounds THEN /\ pc' = "climb"
                                /\ per' = Per(live')
                           ELSE pc' = "pick" /\ UNCHANGED per
  /\ UNCHANGED <<call, lengths, candBlk, seen, at, made, left, stats, rc, cheapest, steps>>

\* The cheapest candidate, dropped ones included; the first of equals.
Pick ==
  /\ pc = "pick"
  /\ \E b \in Cands :
       /\ \A i \in Cands : cand[b].cost < cand[i].cost \/ (cand[b].cost = cand[i].cost /\ b <= i)
       /\ lengths' = cand[b].lens
  /\ stats' = "callers"
  /\ rc' = "ok" /\ pc' = "returned"
  /\ UNCHANGED <<call, race>>

Next ==
  \/ NothingToDo \/ NoMemory \/ InputFails \/ Begin
  \/ Draw \/ BurstMove \/ BurstWasted \/ BurstPriced \/ NextStart \/ RaceBegins
  \/ StepWasted \/ StepScreened \/ StepPriced \/ TurnEnds \/ Drop \/ Pick
Spec == Init /\ [][Next]_vars /\ WF_vars(Next)

-----------------------------------------------------------------------------
CandType == [lens : Lens, cost : 0 .. SizeMax, blk : [Blocks -> 0 .. SizeMax], alive : BOOLEAN]

TypeOK ==
  /\ call \in Inputs /\ lengths \in Lens
  /\ cand \in [Cands -> CandType]
  /\ candBlk \in [Blocks -> 0 .. SizeMax]
  /\ pc \in {"begin", "draw", "burst", "climb", "drop", "pick", "returned"}
  /\ at \in 0 .. Starts /\ made \in Nat
  /\ left \in [moves : 0 .. Burst, moved : BOOLEAN]
  /\ round \in Nat /\ live \in 0 .. Starts /\ per \in Nat
  /\ stats \in {"callers", "priced"} /\ rc \in {"none", "ok", "null", "corrupt"}
  /\ cheapest \in 0 .. SizeMax /\ steps \in Nat

\* Every move of every kind, in bursts and in steps, keeps the code complete: the
\* lengths handed back build a table with every symbol in it.
CodeComplete ==
  /\ Kraft(lengths) = Kraft(call.lens)
  /\ pc # "begin" =>
       \A i \in Cands : cand[i].cost # SizeMax => Kraft(cand[i].lens) = Kraft(call.lens)

\* A symbol that is absent or holds a quarter of the segment keeps its length in
\* every candidate and in the result.
FrozenStay ==
  \A s \in Coded : call.freq[s] = 0 \/ ~(4 * call.freq[s] < SegmentSize) =>
    /\ lengths[s] = call.lens[s]
    /\ \A i \in Cands : cand[i].cost # SizeMax => cand[i].lens[s] = call.lens[s]

\* A candidate's price, block by block and in sum, is that of its own lengths,
\* though the block prices pass through an array every step shares and screened
\* steps fill in part: the next step's screen compares with true prices.
PricesAreTrue ==
  \A i \in Cands : cand[i].cost # SizeMax =>
    /\ cand[i].cost = Price(cand[i].lens, Blocks)
    /\ cand[i].blk = [b \in Blocks |-> BlockCost(cand[i].lens, b)]

\* The result is the cheapest of all lengths the call priced in full, whichever
\* candidate priced them and whether or not it was dropped since: never dearer
\* than the input.
CheapestReturned ==
  pc = "returned" /\ rc = "ok" /\ cheapest # SizeMax =>
    Price(lengths, Blocks) = cheapest /\ cheapest <= Price(call.lens, Blocks)

\* No dropped candidate is ever better than one still in the race, so the steps
\* go to the best; and one is left whenever the race divides by their number.
LeadersRace ==
  pc \in {"climb", "drop", "pick"} =>
    /\ live = Cardinality(Alive) /\ live >= 1
    /\ \A i \in Cands \ Alive, j \in Alive : cand[j].cost <= cand[i].cost

\* The last round is run by one candidate alone.
OneLeft == (pc = "climb" /\ round + 1 = Rounds) \/ pc = "pick" => live = 1

\* The climb never takes more steps than the caller allowed.
WithinBudget == steps <= call.steps

\* The caller's statistics come back as they were on every way out, and a call
\* that fails leaves the lengths alone.
CallerUndisturbed ==
  pc = "returned" => stats = "callers" /\ (rc # "ok" => lengths = call.lens)

\* Every call returns.
Returns == <>(pc = "returned")

\* What every candidate owes the code and the race its caller.
RaceRules == TypeOK /\ CodeComplete /\ FrozenStay /\ OneLeft /\ WithinBudget

\* What comes back: the cheapest lengths, the caller's statistics.
ResultDue == CheapestReturned /\ CallerUndisturbed
=============================================================================
