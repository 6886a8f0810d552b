---------------------------- MODULE Lengths_proofs ----------------------------
(***************************************************************************)
(* Proofs about code lengths: the two passes that make them, and the build *)
(* that has to take them.                                                  *)
(*                                                                         *)
(* The shake pass: for every alphabet, number of blocks, starts and steps, *)
(* every cost of a block and every hash.                                   *)
(*                                                                         *)
(* Lengths from frequencies, with the limiter: for every alphabet, longest *)
(* code, number of the limiter's bins and frequencies the bins can count.  *)
(*                                                                         *)
(* The decoder's build of a table from lengths: for every lengths, off the *)
(* wire or from the passes above.                                          *)
(***************************************************************************)
EXTENDS ShakeLengths, CodeLengths, TableDecode, FiniteSums

-----------------------------------------------------------------------------
Frozen(s) == call.freq[s] = 0 \/ ~(4 * call.freq[s] < SegmentSize)
KeepsFrozen(l) == \A s \in Coded : Frozen(s) => l[s] = call.lens[s]

\* A move makes lengths of lengths, and touches only symbols that may move.
LEMMA MovesAreLengths ==
  ASSUME call \in Inputs, NEW l \in Lens, NEW m \in Moved(l)
  PROVE  m \in Lens /\ (KeepsFrozen(l) => KeepsFrozen(m))
<1>0. Movable \subseteq Coded /\ \A s \in Movable : ~Frozen(s)
  BY InputsAssumption DEF Movable, Frozen
<1>1. MaxCodeLen \in Nat
  BY SizesAssumption
<1>2. CASE m \in Swaps(l)
  <2>1. PICK a \in Movable, b \in Movable : m = [l EXCEPT ![a] = l[b], ![b] = l[a]]
    BY <1>2 DEF Swaps
  <2>2. a \in Coded /\ b \in Coded /\ ~Frozen(a) /\ ~Frozen(b)
    BY <1>0
  <2> QED BY <2>1, <2>2 DEF Lens, KeepsFrozen
<1>3. CASE m \in Splits(l)
  <2>1. PICK t \in Triples : /\ m = [l EXCEPT ![t[1]] = @ - 1, ![t[2]] = @ + 1, ![t[3]] = @ + 1]
                             /\ l[t[2]] = l[t[1]] /\ l[t[3]] = l[t[1]]
                             /\ l[t[1]] > 1 /\ l[t[1]] + 1 <= MaxCodeLen
    BY <1>3 DEF Splits
  <2>2. /\ t[1] \in Movable /\ t[2] \in Movable /\ t[3] \in Movable
        /\ t[1] # t[2] /\ t[1] # t[3] /\ t[2] # t[3]
    BY DEF Triples
  <2>3. PICK a \in Movable, b \in Movable, d \in Movable : a = t[1] /\ b = t[2] /\ d = t[3]
    BY <2>2
  <2>4. /\ m = [s \in Coded |-> IF s = a THEN l[s] - 1
                                ELSE IF s \in {b, d} THEN l[s] + 1 ELSE l[s]]
    BY <2>1, <2>2, <2>3, <1>0 DEF Lens
  <2> QED BY <2>1, <2>2, <2>3, <2>4, <1>0, <1>1 DEF Lens, KeepsFrozen
<1>4. CASE m \in Joins(l)
  <2>1. PICK t \in Triples : /\ m = [l EXCEPT ![t[1]] = @ + 1, ![t[2]] = @ - 1, ![t[3]] = @ - 1]
                             /\ l[t[2]] = l[t[1]] + 2 /\ l[t[3]] = l[t[1]] + 2
    BY <1>4 DEF Joins
  <2>2. /\ t[1] \in Movable /\ t[2] \in Movable /\ t[3] \in Movable
        /\ t[1] # t[2] /\ t[1] # t[3] /\ t[2] # t[3]
    BY DEF Triples
  <2>3. PICK a \in Movable, b \in Movable, d \in Movable : a = t[1] /\ b = t[2] /\ d = t[3]
    BY <2>2
  <2>4. /\ m = [s \in Coded |-> IF s = a THEN l[s] + 1
                                ELSE IF s \in {b, d} THEN l[s] - 1 ELSE l[s]]
    BY <2>1, <2>2, <2>3, <1>0 DEF Lens
  <2>5. l \in [Coded -> 1 .. MaxCodeLen]
    BY DEF Lens
  <2>6. a \in Coded /\ b \in Coded /\ d \in Coded /\ l[b] = l[a] + 2 /\ l[d] = l[a] + 2
    BY <2>1, <2>3, <1>0
  <2>7. l[a] + 1 \in 1 .. MaxCodeLen /\ l[b] - 1 \in 1 .. MaxCodeLen /\ l[d] - 1 \in 1 .. MaxCodeLen
    BY <2>5, <2>6, <1>1
  <2>8. m \in Lens
    BY <2>4, <2>5, <2>7 DEF Lens
  <2>9. ~Frozen(a) /\ ~Frozen(b) /\ ~Frozen(d)
    BY <1>0
  <2> QED BY <2>4, <2>8, <2>9 DEF KeepsFrozen
<1> QED BY <1>2, <1>3, <1>4 DEF Moved

-----------------------------------------------------------------------------
\* The Kraft sum of lengths is the sum of their symbols' shares of the code.
Shares(l) == [s \in Coded |-> 2 ^ (MaxCodeLen - l[s])]
IsKraft(h, l) ==
  h = [s \in SUBSET Coded |->
         IF s = {} THEN 0
         ELSE 2 ^ (MaxCodeLen - l[CHOOSE x \in s : TRUE]) + h[s \ {CHOOSE x \in s : TRUE}]]

LEMMA KraftIsSum ==
  ASSUME NEW l
  PROVE  \E h : IsSum(h, Coded, Shares(l)) /\ Kraft(l) = h[Coded]
<1>1. \A h : IsKraft(h, l) <=> IsSum(h, Coded, Shares(l))
  <2> SUFFICES ASSUME NEW h PROVE IsKraft(h, l) <=> IsSum(h, Coded, Shares(l))
    OBVIOUS
  <2> DEFINE f == [s \in SUBSET Coded |->
                     IF s = {} THEN 0
                     ELSE 2 ^ (MaxCodeLen - l[Picked(s)]) + h[s \ {Picked(s)}]]
             g == [s \in SUBSET Coded |->
                     IF s = {} THEN 0 ELSE Shares(l)[Picked(s)] + h[s \ {Picked(s)}]]
  <2>1. \A s \in SUBSET Coded : s # {} => Shares(l)[Picked(s)] = 2 ^ (MaxCodeLen - l[Picked(s)])
    BY DEF Shares, Picked
  <2>2. \A s \in SUBSET Coded : f[s] = g[s]
    <3> SUFFICES ASSUME NEW s \in SUBSET Coded PROVE f[s] = g[s]
      OBVIOUS
    <3>1. f[s] = IF s = {} THEN 0 ELSE 2 ^ (MaxCodeLen - l[Picked(s)]) + h[s \ {Picked(s)}]
      OBVIOUS
    <3>2. g[s] = IF s = {} THEN 0 ELSE Shares(l)[Picked(s)] + h[s \ {Picked(s)}]
      OBVIOUS
    <3> HIDE DEF f, g
    <3> QED BY <2>1, <3>1, <3>2, Zenon
  <2>3. f = [s \in SUBSET Coded |-> f[s]] /\ g = [s \in SUBSET Coded |-> g[s]]
    OBVIOUS
  <2>4. f = g
    <3> HIDE DEF f, g
    <3> QED BY <2>2, <2>3
  <2>5. IsKraft(h, l) <=> h = f
    BY Zenon DEF IsKraft, Picked
  <2>6. IsSum(h, Coded, Shares(l)) <=> h = g
    BY Zenon DEF IsSum, Picked
  <2> HIDE DEF f, g
  <2> QED BY <2>4, <2>5, <2>6
<1> DEFINE k == CHOOSE h : IsKraft(h, l)
<1>2. IsKraft(k, l)
  <2>1. \E h : IsKraft(h, l)
    BY <1>1, SymbolsAssumption, SumExists
  <2> QED BY <2>1, Zenon
<1>3. Kraft(l) = k[Coded]
  BY Zenon DEF Kraft, MapThenSumSet, MapThenFoldSet, IsKraft
<1> HIDE DEF k
<1> QED BY <1>1, <1>2, <1>3

\* A share is a number, and one of half the size with one bit more.
LEMMA ShareOf ==
  ASSUME NEW l \in Lens
  PROVE  /\ \A s \in Coded : Shares(l)[s] = 2 ^ (MaxCodeLen - l[s]) /\ Shares(l)[s] \in Int
         /\ \A i \in 1 .. MaxCodeLen - 1 : 2 ^ (MaxCodeLen - i) = 2 * 2 ^ (MaxCodeLen - (i + 1))
<1>1. MaxCodeLen \in Nat
  BY SizesAssumption
<1>2. \A s \in Coded : Shares(l)[s] = 2 ^ (MaxCodeLen - l[s])
  BY DEF Shares
<1>3. \A s \in Coded : MaxCodeLen - l[s] \in Nat
  BY <1>1 DEF Lens
<1>4. \A i \in 1 .. MaxCodeLen - 1 : 2 ^ (MaxCodeLen - i) = 2 * 2 ^ (MaxCodeLen - (i + 1))
  <2> SUFFICES ASSUME NEW i \in 1 .. MaxCodeLen - 1
               PROVE  2 ^ (MaxCodeLen - i) = 2 * 2 ^ (MaxCodeLen - (i + 1))
    OBVIOUS
  <2>1. MaxCodeLen - (i + 1) \in Nat /\ (MaxCodeLen - (i + 1)) + 1 = MaxCodeLen - i
    BY <1>1
  <2>2. 2 ^ ((MaxCodeLen - (i + 1)) + 1) = 2 * 2 ^ (MaxCodeLen - (i + 1))
    BY <2>1, PowerDoubles
  <2> QED BY <2>1, <2>2
<1>5. \A s \in Coded : 2 ^ (MaxCodeLen - l[s]) \in Int
  BY <1>3, PowerIsPositive
<1> QED BY <1>2, <1>4, <1>5

\* No move changes the Kraft sum: a swap trades two shares, a split halves one and
\* doubles the difference of two, a join undoes a split.
LEMMA MovesKeepCode ==
  ASSUME call \in Inputs, NEW l \in Lens, NEW m \in Moved(l)
  PROVE  Kraft(m) = Kraft(l)
<1>0. Movable \subseteq Coded /\ IsFiniteSet(Coded) /\ MaxCodeLen \in Nat /\ m \in Lens
  BY SymbolsAssumption, SizesAssumption, MovesAreLengths DEF Movable
<1>1. PICK h : IsSum(h, Coded, Shares(l)) /\ Kraft(l) = h[Coded]
  BY KraftIsSum
<1>2. PICK k : IsSum(k, Coded, Shares(m)) /\ Kraft(m) = k[Coded]
  BY KraftIsSum
<1>3. \A s \in Coded : Shares(l)[s] \in Int /\ Shares(m)[s] \in Int
  BY <1>0, ShareOf
<1>4. \A s \in Coded : m[s] = l[s] => Shares(l)[s] = Shares(m)[s]
  BY DEF Shares
<1>5. CASE m \in Swaps(l)
  <2>1. PICK a \in Movable, b \in Movable : m = [l EXCEPT ![a] = l[b], ![b] = l[a]]
    BY <1>5 DEF Swaps
  <2>2. a \in Coded /\ b \in Coded
    BY <1>0
  <2>3. a # b
    <3>1. m # l
      BY DEF Moved
    <3>2. l = [s \in Coded |-> l[s]] /\ m = [s \in Coded |-> m[s]]
      BY <1>0 DEF Lens
    <3>3. a = b => \A s \in Coded : m[s] = l[s]
      BY <2>1, <2>2 DEF Lens
    <3> QED BY <3>1, <3>2, <3>3
  <2>4. /\ m[a] = l[b] /\ m[b] = l[a]
        /\ \A s \in Coded : s \notin {a, b} => m[s] = l[s]
    BY <2>1, <2>2, <2>3 DEF Lens
  <2>5. Shares(m)[a] = Shares(l)[b] /\ Shares(m)[b] = Shares(l)[a]
    BY <2>2, <2>4 DEF Shares
  <2>6. Shares(l)[a] + Shares(l)[b] = Shares(m)[a] + Shares(m)[b]
    BY <1>3, <2>2, <2>5
  <2>7. \A s \in Coded : s \notin {a, b} => Shares(l)[s] = Shares(m)[s]
    BY <1>4, <2>4
  <2>8. h[Coded] = k[Coded]
    BY <1>0, <1>1, <1>2, <1>3, <2>2, <2>3, <2>6, <2>7, SumTwo
  <2> QED BY <1>1, <1>2, <2>8
<1>6. ASSUME NEW a \in Coded, NEW b \in Coded, NEW d \in Coded, a # b, a # d, b # d,
             \A s \in Coded : s \notin {a, b, d} => m[s] = l[s],
             Shares(l)[a] + Shares(l)[b] + Shares(l)[d] = Shares(m)[a] + Shares(m)[b] + Shares(m)[d]
      PROVE  Kraft(m) = Kraft(l)
  <2>1. \A s \in Coded : s \notin {a, b, d} => Shares(l)[s] = Shares(m)[s]
    BY <1>4, <1>6
  <2>2. h[Coded] = k[Coded]
    BY <1>0, <1>1, <1>2, <1>3, <1>6, <2>1, SumThree
  <2> QED BY <1>1, <1>2, <2>2
<1>7. CASE m \in Splits(l)
  <2>1. PICK t \in Triples : /\ m = [l EXCEPT ![t[1]] = @ - 1, ![t[2]] = @ + 1, ![t[3]] = @ + 1]
                             /\ l[t[2]] = l[t[1]] /\ l[t[3]] = l[t[1]]
                             /\ l[t[1]] > 1 /\ l[t[1]] + 1 <= MaxCodeLen
    BY <1>7 DEF Splits
  <2>2. PICK a \in Coded, b \in Coded, d \in Coded :
          a = t[1] /\ b = t[2] /\ d = t[3] /\ a # b /\ a # d /\ b # d
    BY <1>0 DEF Triples
  <2>3. /\ m[a] = l[a] - 1 /\ m[b] = l[a] + 1 /\ m[d] = l[a] + 1
        /\ \A s \in Coded : s \notin {a, b, d} => m[s] = l[s]
    BY <2>1, <2>2 DEF Lens
  <2>4. l[a] \in Nat /\ l[a] - 1 \in 1 .. MaxCodeLen - 1 /\ l[a] \in 1 .. MaxCodeLen - 1
    BY <1>0, <2>1, <2>2 DEF Lens
  <2> DEFINE x == 2 ^ (MaxCodeLen - (l[a] + 1))
  <2>5. x \in Nat
    BY <1>0, <2>4, PowerIsPositive
  <2>6. 2 ^ (MaxCodeLen - l[a]) = 2 * x
    BY <2>4, ShareOf
  <2>7. 2 ^ (MaxCodeLen - (l[a] - 1)) = 2 * (2 * x)
    <3>1. (l[a] - 1) + 1 = l[a]
      BY <2>4
    <3>2. 2 ^ (MaxCodeLen - (l[a] - 1)) = 2 * 2 ^ (MaxCodeLen - ((l[a] - 1) + 1))
      BY <2>4, ShareOf
    <3> QED BY <2>6, <3>1, <3>2
  <2>8. /\ Shares(l)[a] = 2 * x /\ Shares(l)[b] = 2 * x /\ Shares(l)[d] = 2 * x
        /\ Shares(m)[a] = 2 * (2 * x) /\ Shares(m)[b] = x /\ Shares(m)[d] = x
    <3> HIDE DEF x
    <3>1. /\ Shares(l)[a] = 2 ^ (MaxCodeLen - l[a]) /\ Shares(l)[b] = 2 ^ (MaxCodeLen - l[b])
          /\ Shares(l)[d] = 2 ^ (MaxCodeLen - l[d])
      BY ShareOf
    <3>2. /\ Shares(m)[a] = 2 ^ (MaxCodeLen - m[a]) /\ Shares(m)[b] = 2 ^ (MaxCodeLen - m[b])
          /\ Shares(m)[d] = 2 ^ (MaxCodeLen - m[d])
      BY <1>0, ShareOf
    <3>3. l[b] = l[a] /\ l[d] = l[a]
      BY <2>1, <2>2
    <3>4. Shares(m)[b] = x /\ Shares(m)[d] = x
      BY <2>3, <3>2 DEF x
    <3> QED BY <2>3, <2>6, <2>7, <3>1, <3>2, <3>3, <3>4
  <2> HIDE DEF x
  <2>9. Shares(l)[a] + Shares(l)[b] + Shares(l)[d] = Shares(m)[a] + Shares(m)[b] + Shares(m)[d]
    BY <2>5, <2>8
  <2> QED BY <1>6, <2>2, <2>3, <2>9
<1>8. CASE m \in Joins(l)
  <2>1. PICK t \in Triples : /\ m = [l EXCEPT ![t[1]] = @ + 1, ![t[2]] = @ - 1, ![t[3]] = @ - 1]
                             /\ l[t[2]] = l[t[1]] + 2 /\ l[t[3]] = l[t[1]] + 2
    BY <1>8 DEF Joins
  <2>2. PICK a \in Coded, b \in Coded, d \in Coded :
          a = t[1] /\ b = t[2] /\ d = t[3] /\ a # b /\ a # d /\ b # d
    BY <1>0 DEF Triples
  <2>3. /\ m[a] = l[a] + 1 /\ m[b] = l[b] - 1 /\ m[d] = l[d] - 1
        /\ l[b] = l[a] + 2 /\ l[d] = l[a] + 2
        /\ \A s \in Coded : s \notin {a, b, d} => m[s] = l[s]
    BY <2>1, <2>2 DEF Lens
  <2>4. /\ l[a] \in Nat /\ l[a] \in 1 .. MaxCodeLen - 1 /\ l[a] + 1 \in 1 .. MaxCodeLen - 1
        /\ l[b] = (l[a] + 1) + 1 /\ l[d] = (l[a] + 1) + 1
        /\ m[b] = l[a] + 1 /\ m[d] = l[a] + 1
    BY <1>0, <2>2, <2>3 DEF Lens
  <2> DEFINE x == 2 ^ (MaxCodeLen - ((l[a] + 1) + 1))
  <2>5. x \in Nat
    BY <1>0, <2>4, PowerIsPositive
  <2>6. 2 ^ (MaxCodeLen - (l[a] + 1)) = 2 * x
    BY <2>4, ShareOf
  <2>7. 2 ^ (MaxCodeLen - l[a]) = 2 * (2 * x)
    <3>1. 2 ^ (MaxCodeLen - l[a]) = 2 * 2 ^ (MaxCodeLen - (l[a] + 1))
      BY <2>4, ShareOf
    <3> HIDE DEF x
    <3> QED BY <2>6, <3>1
  <2>8. /\ Shares(l)[a] = 2 * (2 * x) /\ Shares(l)[b] = x /\ Shares(l)[d] = x
        /\ Shares(m)[a] = 2 * x /\ Shares(m)[b] = 2 * x /\ Shares(m)[d] = 2 * x
    <3> HIDE DEF x
    <3>1. /\ Shares(l)[a] = 2 ^ (MaxCodeLen - l[a]) /\ Shares(l)[b] = 2 ^ (MaxCodeLen - l[b])
          /\ Shares(l)[d] = 2 ^ (MaxCodeLen - l[d])
      BY ShareOf
    <3>2. /\ Shares(m)[a] = 2 ^ (MaxCodeLen - m[a]) /\ Shares(m)[b] = 2 ^ (MaxCodeLen - m[b])
          /\ Shares(m)[d] = 2 ^ (MaxCodeLen - m[d])
      BY <1>0, ShareOf
    <3>3. Shares(l)[b] = x /\ Shares(l)[d] = x
      BY <2>4, <3>1 DEF x
    <3> QED BY <2>3, <2>4, <2>6, <2>7, <3>1, <3>2, <3>3
  <2> HIDE DEF x
  <2>9. Shares(l)[a] + Shares(l)[b] + Shares(l)[d] = Shares(m)[a] + Shares(m)[b] + Shares(m)[d]
    BY <2>5, <2>8
  <2> QED BY <1>6, <2>2, <2>3, <2>9
<1> QED BY <1>5, <1>7, <1>8 DEF Moved

\* What lengths owe the call: the symbols that may not move, and the code.
Keeps(l) == KeepsFrozen(l) /\ Kraft(l) = Kraft(call.lens)

LEMMA MovesKeep ==
  ASSUME call \in Inputs, NEW l \in Lens, NEW m \in Moved(l), Keeps(l)
  PROVE  Keeps(m)
BY MovesAreLengths, MovesKeepCode DEF Keeps

\* Prices of lengths on any blocks, and what pricing leaves block by block.
LEMMA PriceType ==
  ASSUME NEW l \in Lens
  PROVE  /\ Price(l, Blocks) \in 0 .. SizeMax
         /\ \A sel, blk : blk \in [Blocks -> 0 .. SizeMax]
                           => PricedBlk(l, sel, blk) \in [Blocks -> 0 .. SizeMax]
<1>1. Price(l, Blocks) \in 0 .. SizeMax
  <2>1. Blocks \in SUBSET Blocks
    OBVIOUS
  <2> QED BY <2>1, CostAssumption
<1>2. \A b \in Blocks : BlockCost(l, b) \in 0 .. SizeMax
  BY CostAssumption
<1>3. ASSUME NEW sel, NEW blk \in [Blocks -> 0 .. SizeMax]
      PROVE  PricedBlk(l, sel, blk) \in [Blocks -> 0 .. SizeMax]
  BY <1>2 DEF PricedBlk
<1> QED BY <1>1, <1>3

LEMMA PricedInFull ==
  ASSUME NEW l \in Lens, NEW blk, Price(l, Blocks) # SizeMax
  PROVE  PricedBlk(l, Blocks, blk) = [b \in Blocks |-> BlockCost(l, b)]
<1>1. Encodes(l, Blocks)
  BY DEF Price
<1>2. \A b \in Blocks : Encodes(l, {a \in Blocks : a <= b})
  BY <1>1 DEF Encodes
<1> QED BY <1>2 DEF PricedBlk

LEMMA Domains ==
  /\ Starts \in Nat \ {0} /\ 0 \in Cands /\ Cands \subseteq Nat
  /\ SizeMax \in Nat /\ Rounds \in Nat \ {0} /\ Blocks \subseteq Nat
  /\ IsFiniteSet(Cands)
<1>1. Starts \in Nat \ {0} /\ SizeMax \in Nat /\ NBlk \in Nat \ {0} /\ Screen \in Nat \ {0}
  BY SizesAssumption
<1>2. IsFiniteSet({r \in 0 .. Starts : 2 ^ r < Starts})
  <2>1. IsFiniteSet(0 .. Starts)
    BY <1>1, FS_Interval
  <2> QED BY <2>1, FS_Subset
<1>3. Rounds \in Nat \ {0}
  BY <1>2, FS_CardinalityType DEF Rounds
<1>4. IsFiniteSet(Cands)
  BY <1>1, FS_Interval DEF Cands
<1> QED BY <1>1, <1>3, <1>4 DEF Cands, Blocks
-----------------------------------------------------------------------------
\* What holds of the phases: in the draws a candidate is alive just when it has a
\* price, and a candidate without one is not looked at again.
Phases ==
  /\ pc \in {"burst", "climb", "drop"} => at \in Cands
  /\ pc = "draw" => at >= 1
  /\ pc = "burst" => at >= 1 /\ ~cand[at].alive
  /\ pc \in {"begin", "draw", "burst"} => \A i \in Cands : cand[i].alive <=> cand[i].cost # SizeMax
  /\ \A i \in Cands : cand[i].alive => cand[i].cost # SizeMax
  /\ pc \notin {"begin", "returned"} => cand[0].cost # SizeMax /\ stats = "priced"
  /\ pc = "begin" => stats = "callers" /\ \A i \in Cands : cand[i].cost = SizeMax
  /\ pc # "returned" => lengths = call.lens /\ rc = "none"

IInv == TypeOK /\ Phases /\ LeadersRace

LEMMA InitIInv == Init => IInv
<1> SUFFICES ASSUME Init PROVE IInv
  OBVIOUS
<1>1. call.lens \in Lens
  BY InputsAssumption DEF Init
<1>2. NoCand \in CandType
  BY <1>1, Domains DEF NoCand, CandType
<1>3. TypeOK
  BY <1>1, <1>2, Domains, SizesAssumption DEF Init, TypeOK
<1>4. Phases
  BY DEF Init, Phases, NoCand
<1>5. LeadersRace
  BY DEF Init, LeadersRace
<1> QED BY <1>3, <1>4, <1>5 DEF IInv

\* The candidates left are counted, and their number divides the steps.
LEMMA AliveFinite ==
  ASSUME TypeOK
  PROVE  /\ IsFiniteSet(Alive) /\ Cardinality(Alive) \in 0 .. Starts
         /\ \A i \in Alive : Cardinality(Alive) >= 1
<1>1. Alive \subseteq Cands
  BY DEF Alive
<1>2. IsFiniteSet(Alive) /\ Cardinality(Alive) <= Cardinality(Cands)
  BY <1>1, Domains, FS_Subset
<1>3. Cardinality(Cands) = Starts
  BY Domains, FS_Interval DEF Cands
<1>4. Cardinality(Alive) \in Nat
  BY <1>2, FS_CardinalityType
<1>5. \A i \in Alive : Cardinality(Alive) # 0
  BY <1>2, FS_EmptySet
<1> QED BY <1>2, <1>3, <1>4, <1>5, Domains

LEMMA PerType ==
  ASSUME NEW n \in Nat, n >= 1, call.steps \in Nat
  PROVE  Per(n) \in Nat
<1>1. call.steps \div Rounds \in Nat
  BY Domains
<1> QED BY <1>1 DEF Per

\* Half of the candidates leave: one stays, and none that leaves was better.
LEMMA DropLive ==
  ASSUME IInv, Drop
  PROVE  /\ live' = Cardinality(Alive') /\ live' >= 1 /\ live' \in 0 .. Starts
         /\ cand' \in [Cands -> CandType]
         /\ \A i \in Cands : cand'[i] = cand[i] \/ (~cand'[i].alive /\ cand'[i] = [cand[i] EXCEPT !.alive = FALSE])
         /\ \A i \in Cands \ Alive', j \in Alive' : cand'[j].cost <= cand'[i].cost
<1>1. live = Cardinality(Alive) /\ live >= 1 /\ live \in 0 .. Starts
  BY DEF Drop, IInv, TypeOK, LeadersRace
<1>2. DropCount \in Nat /\ live - DropCount >= 1 /\ live - DropCount <= live
  BY <1>1, Domains DEF DropCount
<1>3. PICK D \in SUBSET Alive :
        /\ Cardinality(D) = DropCount
        /\ \A i \in D, j \in Alive \ D : Worse(i, j)
        /\ cand' = [i \in Cands |-> IF i \in D THEN [cand[i] EXCEPT !.alive = FALSE] ELSE cand[i]]
  BY DEF Drop
<1>4. cand \in [Cands -> CandType] /\ Alive \subseteq Cands
  BY DEF IInv, TypeOK, Alive
<1>5. \A i \in Cands : IF i \in D THEN cand'[i] = [cand[i] EXCEPT !.alive = FALSE] ELSE cand'[i] = cand[i]
  BY <1>3
<1>6. \A i \in Cands : /\ cand'[i] \in CandType /\ cand'[i].cost = cand[i].cost
                       /\ i \in D => ~cand'[i].alive
                       /\ i \notin D => cand'[i].alive = cand[i].alive
  <2> SUFFICES ASSUME NEW i \in Cands
               PROVE  /\ cand'[i] \in CandType /\ cand'[i].cost = cand[i].cost
                      /\ i \in D => ~cand'[i].alive
                      /\ i \notin D => cand'[i].alive = cand[i].alive
    OBVIOUS
  <2>1. cand[i] \in CandType
    BY <1>4
  <2>2. CASE i \in D
    <3>1. cand'[i] = [cand[i] EXCEPT !.alive = FALSE]
      BY <1>5, <2>2
    <3> QED BY <2>1, <2>2, <3>1 DEF CandType
  <2>3. CASE i \notin D
    BY <1>5, <2>1, <2>3
  <2> QED BY <2>2, <2>3
<1>7. cand' \in [Cands -> CandType]
  BY <1>3, <1>6
<1>8. Alive' = Alive \ D
  BY <1>6 DEF Alive
<1>9. Cardinality(Alive \ D) = live - DropCount
  <2>1. IsFiniteSet(Alive)
    BY AliveFinite DEF IInv
  <2>2. IsFiniteSet(D) /\ Alive \cap D = D
    BY <2>1, FS_Subset
  <2>3. Cardinality(Alive \ D) = Cardinality(Alive) - Cardinality(Alive \cap D)
    BY <2>1, FS_Difference, Zenon
  <2>4. Cardinality(Alive \cap D) = DropCount /\ Cardinality(Alive) = live
    BY <1>1, <1>3, <2>2
  <2> QED BY <2>3, <2>4
<1>10. live' = live - DropCount
  BY DEF Drop
<1>11. ASSUME NEW i \in Cands \ Alive', NEW j \in Alive'
       PROVE  cand'[j].cost <= cand'[i].cost
  <2>1. j \in Alive \ D /\ j \in Cands
    BY <1>4, <1>8
  <2>2. cand[i].cost \in Nat /\ cand[j].cost \in Nat
    BY <1>4, <2>1, Domains DEF CandType
  <2>3. CASE i \in D
    <3>1. Worse(i, j)
      BY <1>3, <2>1, <2>3
    <3>2. cand[j].cost <= cand[i].cost
      BY <2>2, <3>1 DEF Worse
    <3> QED BY <1>6, <2>1, <3>2
  <2>4. CASE i \notin D
    <3>1. i \in Cands \ Alive
      BY <1>8, <2>4
    <3>2. cand[j].cost <= cand[i].cost
      BY <2>1, <3>1 DEF Drop, IInv, LeadersRace
    <3> QED BY <1>6, <2>1, <3>2
  <2> QED BY <2>3, <2>4
<1>12. live' = Cardinality(Alive') /\ live' >= 1 /\ live' \in 0 .. Starts
  <2>1. Cardinality(Alive') = live - DropCount
    BY <1>8, <1>9
  <2>2. live - DropCount \in 0 .. Starts
    BY <1>1, <1>2, Domains
  <2> QED BY <1>2, <1>10, <2>1, <2>2
<1>13. \A i \in Cands : cand'[i] = cand[i] \/ (~cand'[i].alive /\ cand'[i] = [cand[i] EXCEPT !.alive = FALSE])
  <2> SUFFICES ASSUME NEW i \in Cands
               PROVE  cand'[i] = cand[i] \/ (~cand'[i].alive /\ cand'[i] = [cand[i] EXCEPT !.alive = FALSE])
    OBVIOUS
  <2>1. CASE i \in D
    BY <1>5, <1>6, <2>1
  <2>2. CASE i \notin D
    BY <1>5, <2>2
  <2> QED BY <2>1, <2>2
<1> QED BY <1>7, <1>11, <1>12, <1>13

LEMMA NextTypeOK == IInv /\ [Next]_vars => TypeOK'
<1> SUFFICES ASSUME IInv, [Next]_vars PROVE TypeOK'
  OBVIOUS
<1> USE DEF IInv
<1>0. /\ call \in Inputs /\ call.lens \in Lens /\ call.steps \in Nat
  BY InputsAssumption DEF TypeOK
<1>1. CASE NothingToDo
  BY <1>1 DEF NothingToDo, TypeOK, race
<1>2. CASE NoMemory
  BY <1>2 DEF NoMemory, TypeOK, race
<1>3. CASE InputFails
  BY <1>3 DEF InputFails, TypeOK, race
<1>4. CASE Begin
  <2> DEFINE k == [lens |-> call.lens, cost |-> Price(call.lens, Blocks),
                   blk |-> PricedBlk(call.lens, Blocks, cand[0].blk), alive |-> TRUE]
  <2>1. cand[0].blk \in [Blocks -> 0 .. SizeMax]
    BY Domains DEF TypeOK, CandType
  <2>2. k \in CandType
    BY <2>1, <1>0, PriceType DEF CandType
  <2>3. cand' = [cand EXCEPT ![0] = k]
    BY <1>4 DEF Begin
  <2>4. cand' \in [Cands -> CandType]
    BY <2>2, <2>3 DEF TypeOK
  <2>5. Price(call.lens, Blocks) \in 0 .. SizeMax
    BY <1>0, PriceType
  <2> QED BY <1>0, <1>4, <2>4, <2>5, Domains DEF Begin, TypeOK
<1>5. CASE Draw
  <2>1. cand[0].lens \in Lens
    BY Domains DEF TypeOK, CandType
  <2>2. cand' \in [Cands -> CandType]
    BY <1>5, <2>1 DEF Draw, TypeOK, CandType
  <2> QED BY <1>5, <2>2 DEF Draw, TypeOK
<1>6. CASE BurstMove
  <2>1. at \in Cands /\ cand[at] \in CandType /\ cand[at].lens \in Lens
    BY <1>6 DEF BurstMove, Phases, TypeOK, CandType
  <2>2. \A l \in Moved(cand[at].lens) : l \in Lens
    BY <1>0, <2>1, MovesAreLengths
  <2>3. cand' \in [Cands -> CandType]
    BY <1>6, <2>1, <2>2 DEF BurstMove, TypeOK, CandType
  <2>4. left' \in [moves : 0 .. Burst, moved : BOOLEAN]
    <3>1. left.moves - 1 \in 0 .. Burst /\ left.moved \in BOOLEAN
      BY <1>6, SizesAssumption DEF BurstMove, TypeOK
    <3>2. CASE left' = [left EXCEPT !.moves = @ - 1]
      BY <3>1, <3>2 DEF TypeOK
    <3>3. CASE left' = [moves |-> left.moves - 1, moved |-> TRUE]
      BY <3>1, <3>3
    <3> QED BY <1>6, <3>2, <3>3 DEF BurstMove
  <2> QED BY <1>6, <2>3, <2>4 DEF BurstMove, TypeOK
<1>7. CASE BurstWasted
  BY <1>7 DEF BurstWasted, TypeOK, race
<1>8. CASE BurstPriced
  <2> DEFINE l == cand[at].lens
  <2>1. at \in Cands /\ cand[at] \in CandType /\ l \in Lens /\ cand[at].blk \in [Blocks -> 0 .. SizeMax]
    BY <1>8 DEF BurstPriced, Phases, TypeOK, CandType
  <2>2. /\ Price(l, Blocks) \in 0 .. SizeMax
        /\ PricedBlk(l, Blocks, cand[at].blk) \in [Blocks -> 0 .. SizeMax]
    BY <2>1, PriceType
  <2> DEFINE k == [cand[at] EXCEPT !.cost = Price(l, Blocks), !.blk = PricedBlk(l, Blocks, cand[at].blk),
                                   !.alive = (Price(l, Blocks) # SizeMax)]
  <2>3. cand' = [cand EXCEPT ![at] = k]
    BY <1>8, <2>1 DEF BurstPriced, TypeOK
  <2>4. k \in CandType
    BY <2>1, <2>2 DEF CandType
  <2>5. cand' \in [Cands -> CandType]
    <3> HIDE DEF k
    <3> QED BY <2>3, <2>4 DEF TypeOK
  <2>6. cheapest' \in 0 .. SizeMax
    BY <1>8, <2>2 DEF BurstPriced, TypeOK
  <2> QED BY <1>8, <2>1, <2>5, <2>6 DEF BurstPriced, TypeOK
<1>9. CASE NextStart
  BY <1>9, Domains DEF NextStart, TypeOK, Cands
<1>10. CASE RaceBegins
  <2>1. live' = Cardinality(Alive) /\ live' \in 0 .. Starts
    BY <1>10, AliveFinite DEF RaceBegins
  <2>2. 0 \in Alive
    BY <1>10, Domains DEF RaceBegins, Phases, Alive
  <2>3. per' \in Nat
    BY <1>0, <1>10, <2>1, <2>2, AliveFinite, PerType DEF RaceBegins
  <2> QED BY <1>10, <2>1, <2>3, Domains DEF RaceBegins, TypeOK
<1>11. CASE StepWasted
  BY <1>11 DEF StepWasted, InTurn, Stepped, TypeOK
<1>12. CASE StepScreened
  <2>1. at \in Cands /\ cand[at].lens \in Lens
    BY <1>12 DEF StepScreened, InTurn, Phases, TypeOK, CandType
  <2>2. PICK l \in Moved(cand[at].lens) :
          /\ seen' = SeenWith(l)
          /\ candBlk' = PricedBlk(l, ScreenBlocks, candBlk)
    BY <1>12 DEF StepScreened
  <2>3. l \in Lens
    BY <1>0, <2>1, MovesAreLengths
  <2>4. candBlk' \in [Blocks -> 0 .. SizeMax]
    BY <2>2, <2>3, PriceType DEF TypeOK
  <2> QED BY <1>12, <2>2, <2>3, <2>4 DEF StepScreened, InTurn, Stepped, TypeOK
<1>13. CASE StepPriced
  <2>1. at \in Cands /\ cand[at] \in CandType /\ cand[at].lens \in Lens
    BY <1>13 DEF StepPriced, InTurn, Phases, TypeOK, CandType
  <2>2. PICK l \in Moved(cand[at].lens) :
          /\ seen' = SeenWith(l)
          /\ candBlk' = PricedBlk(l, Blocks, candBlk)
          /\ cand' = IF Better(l) THEN [cand EXCEPT ![at] = Accepted(l)] ELSE cand
          /\ cheapest' = IF Price(l, Blocks) < cheapest THEN Price(l, Blocks) ELSE cheapest
    BY <1>13 DEF StepPriced
  <2>3. l \in Lens
    BY <1>0, <2>1, MovesAreLengths
  <2>4. /\ PricedBlk(l, Blocks, candBlk) \in [Blocks -> 0 .. SizeMax]
        /\ Price(l, Blocks) \in 0 .. SizeMax
    BY <2>3, PriceType DEF TypeOK
  <2>5. Accepted(l) \in CandType
    BY <2>1, <2>3, <2>4 DEF Accepted, CandType
  <2>6. cand' \in [Cands -> CandType]
    BY <2>2, <2>5 DEF TypeOK
  <2> QED BY <1>13, <2>2, <2>3, <2>4, <2>6 DEF StepPriced, InTurn, Stepped, TypeOK
<1>14. CASE TurnEnds
  BY <1>14, Domains DEF TurnEnds, TypeOK, Phases, Cands
<1>15. CASE Drop
  <2>1. live' \in Nat /\ live' >= 1 /\ live' \in 0 .. Starts /\ cand' \in [Cands -> CandType]
    BY <1>15, DropLive, Domains
  <2>2. per' \in Nat
    BY <1>0, <1>15, <2>1, PerType DEF Drop, TypeOK
  <2> QED BY <1>15, <2>1, <2>2 DEF Drop, TypeOK
<1>16. CASE Pick
  <2>1. lengths' \in Lens
    BY <1>16 DEF Pick, TypeOK, CandType
  <2> QED BY <1>16, <2>1 DEF Pick, TypeOK, race
<1>17. CASE UNCHANGED vars
  BY <1>17 DEF vars, TypeOK
<1> QED BY <1>1, <1>2, <1>3, <1>4, <1>5, <1>6, <1>7, <1>8, <1>9, <1>10, <1>11, <1>12, <1>13, <1>14,
           <1>15, <1>16, <1>17 DEF Next

\* What an accepted move leaves of a candidate.
LEMMA StepEffect ==
  ASSUME IInv, StepPriced
  PROVE  /\ at \in Cands /\ cand[at].alive
         /\ \E l \in Moved(cand[at].lens) :
              /\ l \in Lens /\ Price(l, Blocks) \in 0 .. SizeMax
              /\ cheapest' = IF Price(l, Blocks) < cheapest THEN Price(l, Blocks) ELSE cheapest
              /\ \A i \in Cands \ {at} : cand'[i] = cand[i]
              /\ \/ Price(l, Blocks) < cand[at].cost /\ cand'[at] = Accepted(l)
                 \/ ~(Price(l, Blocks) < cand[at].cost) /\ cand' = cand
<1>1. at \in Cands /\ cand[at] \in CandType /\ cand[at].lens \in Lens /\ cand[at].alive
  BY DEF IInv, StepPriced, InTurn, Phases, TypeOK, CandType
<1>2. PICK l \in Moved(cand[at].lens) :
        /\ cand' = IF Better(l) THEN [cand EXCEPT ![at] = Accepted(l)] ELSE cand
        /\ cheapest' = IF Price(l, Blocks) < cheapest THEN Price(l, Blocks) ELSE cheapest
  BY DEF StepPriced
<1>3. l \in Lens
  BY <1>1, MovesAreLengths DEF IInv, TypeOK
<1>4. Price(l, Blocks) \in 0 .. SizeMax
  BY <1>3, PriceType
<1>5. DOMAIN cand = Cands
  BY DEF IInv, TypeOK
<1>6. \A i \in Cands \ {at} : cand'[i] = cand[i]
  BY <1>2, <1>5
<1>7. CASE Price(l, Blocks) < cand[at].cost
  <2>1. cand'[at] = Accepted(l)
    BY <1>1, <1>2, <1>5, <1>7 DEF Better
  <2> QED BY <1>1, <1>2, <1>3, <1>4, <1>6, <1>7, <2>1
<1>8. CASE ~(Price(l, Blocks) < cand[at].cost)
  <2>1. cand' = cand
    BY <1>2, <1>8 DEF Better
  <2> QED BY <1>1, <1>2, <1>3, <1>4, <1>6, <1>8, <2>1
<1> QED BY <1>7, <1>8

\* Where a start goes when its burst is over and its lengths are new.
LEMMA BurstEffect ==
  ASSUME IInv, BurstPriced
  PROVE  /\ at \in Cands \ {0} /\ cand[at].cost = SizeMax /\ cand[at].lens \in Lens
         /\ \A i \in Cands \ {at} : cand'[i] = cand[i]
         /\ cand'[at].lens = cand[at].lens /\ cand'[at].cost = Price(cand[at].lens, Blocks)
         /\ cand'[at].blk = PricedBlk(cand[at].lens, Blocks, cand[at].blk)
         /\ cand'[at].alive <=> Price(cand[at].lens, Blocks) # SizeMax
         /\ Price(cand[at].lens, Blocks) \in 0 .. SizeMax
<1>1. at \in Cands \ {0} /\ cand[at].cost = SizeMax /\ cand[at] \in CandType /\ cand \in [Cands -> CandType]
  BY DEF IInv, BurstPriced, Phases, TypeOK
<1>2. cand[at].lens \in Lens /\ DOMAIN cand = Cands
  BY <1>1 DEF CandType
<1> DEFINE k == [cand[at] EXCEPT !.cost = Price(cand[at].lens, Blocks),
                                 !.blk = PricedBlk(cand[at].lens, Blocks, cand[at].blk),
                                 !.alive = (Price(cand[at].lens, Blocks) # SizeMax)]
<1>3. cand' = [cand EXCEPT ![at] = k]
  BY <1>1 DEF BurstPriced
<1>4. /\ k.lens = cand[at].lens /\ k.cost = Price(cand[at].lens, Blocks)
      /\ k.blk = PricedBlk(cand[at].lens, Blocks, cand[at].blk)
      /\ k.alive <=> Price(cand[at].lens, Blocks) # SizeMax
  BY <1>1 DEF CandType
<1>5. cand'[at] = k /\ \A i \in Cands \ {at} : cand'[i] = cand[i]
  <2> HIDE DEF k
  <2> QED BY <1>1, <1>2, <1>3
<1>6. Price(cand[at].lens, Blocks) \in 0 .. SizeMax
  BY <1>2, PriceType
<1> QED BY <1>1, <1>2, <1>4, <1>5, <1>6

\* A draw and a move of a burst change the lengths of the candidate at only.
LEMMA LensOnly ==
  ASSUME IInv, NEW l, cand' = [cand EXCEPT ![at].lens = l], at \in Cands
  PROVE  /\ \A i \in Cands \ {at} : cand'[i] = cand[i]
         /\ cand'[at].lens = l /\ cand'[at].cost = cand[at].cost /\ cand'[at].blk = cand[at].blk
         /\ cand'[at].alive = cand[at].alive
<1>1. cand[at] \in CandType /\ DOMAIN cand = Cands
  BY DEF IInv, TypeOK
<1>2. cand'[at] = [cand[at] EXCEPT !.lens = l]
  BY <1>1
<1>3. \A i \in Cands \ {at} : cand'[i] = cand[i]
  BY <1>1
<1> QED BY <1>1, <1>2, <1>3 DEF CandType

LEMMA NextPhases == IInv /\ [Next]_vars => Phases'
<1> SUFFICES ASSUME IInv, [Next]_vars PROVE Phases'
  OBVIOUS
<1>0. TypeOK /\ Phases /\ 0 \in Cands /\ Starts \in Nat \ {0}
  BY Domains DEF IInv
<1>1. CASE NothingToDo
  BY <1>0, <1>1 DEF NothingToDo, Phases, race
<1>2. CASE NoMemory
  BY <1>0, <1>2 DEF NoMemory, Phases, race
<1>3. CASE InputFails
  BY <1>0, <1>3 DEF InputFails, Phases, race
<1>4. CASE Begin
  <2>1. /\ cand'[0].cost = Price(call.lens, Blocks) /\ cand'[0].alive
        /\ \A i \in Cands \ {0} : cand'[i] = cand[i]
    BY <1>0, <1>4 DEF Begin, TypeOK
  <2> QED BY <1>0, <1>4, <2>1 DEF Begin, Phases
<1>5. CASE Draw
  <2>1. at \in Cands
    BY <1>0, <1>5 DEF Draw, Phases, TypeOK, Cands
  <2>2. \A i \in Cands : cand'[i].cost = cand[i].cost /\ cand'[i].alive = cand[i].alive
    BY <1>5, <2>1, LensOnly DEF Draw
  <2> QED BY <1>0, <1>5, <2>1, <2>2 DEF Draw, Phases
<1>6. CASE BurstMove
  <2>1. at \in Cands
    BY <1>0, <1>6 DEF BurstMove, Phases
  <2>2. \A i \in Cands : cand'[i].cost = cand[i].cost /\ cand'[i].alive = cand[i].alive
    BY <1>6, <2>1, LensOnly DEF BurstMove
  <2> QED BY <1>0, <1>6, <2>1, <2>2 DEF BurstMove, Phases
<1>7. CASE BurstWasted
  BY <1>0, <1>7 DEF BurstWasted, Phases, race
<1>8. CASE BurstPriced
  <2>1. \A i \in Cands : cand'[i].alive <=> cand'[i].cost # SizeMax
    BY <1>0, <1>8, BurstEffect DEF BurstPriced, Phases
  <2>2. cand'[0].cost # SizeMax
    BY <1>0, <1>8, BurstEffect DEF BurstPriced, Phases
  <2> QED BY <1>0, <1>8, <2>1, <2>2 DEF BurstPriced, Phases
<1>9. CASE NextStart
  BY <1>0, <1>9 DEF NextStart, Phases, TypeOK
<1>10. CASE RaceBegins
  BY <1>0, <1>10 DEF RaceBegins, Phases
<1>11. CASE StepWasted
  BY <1>0, <1>11 DEF StepWasted, InTurn, Stepped, Phases
<1>12. CASE StepScreened
  BY <1>0, <1>12 DEF StepScreened, InTurn, Stepped, Phases
<1>13. CASE StepPriced
  <2>1. PICK l \in Lens : /\ Price(l, Blocks) \in 0 .. SizeMax
                          /\ \A i \in Cands \ {at} : cand'[i] = cand[i]
                          /\ \/ Price(l, Blocks) < cand[at].cost /\ cand'[at] = Accepted(l)
                             \/ cand' = cand
    BY <1>13, StepEffect DEF IInv
  <2>2. at \in Cands /\ cand[at] \in CandType
    BY <1>0, <1>13, StepEffect DEF IInv, TypeOK
  <2>3. Accepted(l).cost = Price(l, Blocks)
    BY <2>2 DEF Accepted, CandType
  <2>4. cand[at].cost \in 0 .. SizeMax /\ SizeMax \in Nat
    BY <2>2, Domains DEF CandType
  <2>5. cand'[0].cost # SizeMax
    BY <1>0, <1>13, <2>1, <2>2, <2>3, <2>4 DEF StepPriced, InTurn, Phases
  <2>6. \A i \in Cands : cand'[i].alive => cand'[i].cost # SizeMax
    <3>1. CASE cand' = cand
      BY <1>0, <3>1 DEF Phases
    <3>2. CASE Price(l, Blocks) < cand[at].cost /\ cand'[at] = Accepted(l)
      <4>1. cand'[at].cost # SizeMax
        BY <2>1, <2>3, <2>4, <3>2
      <4> QED BY <1>0, <2>1, <4>1 DEF Phases
    <3> QED BY <2>1, <3>1, <3>2
  <2> QED BY <1>0, <1>13, <2>5, <2>6 DEF StepPriced, InTurn, Stepped, Phases
<1>14. CASE TurnEnds
  BY <1>0, <1>14 DEF TurnEnds, Phases, Cands, TypeOK
<1>15. CASE Drop
  <2>1. \A i \in Cands : cand'[i].cost = cand[i].cost /\ (cand'[i].alive => cand[i].alive)
    <3> SUFFICES ASSUME NEW i \in Cands
                 PROVE  cand'[i].cost = cand[i].cost /\ (cand'[i].alive => cand[i].alive)
      OBVIOUS
    <3>1. cand[i] \in CandType
      BY <1>0 DEF TypeOK
    <3>2. cand'[i] = cand[i] \/ (~cand'[i].alive /\ cand'[i] = [cand[i] EXCEPT !.alive = FALSE])
      BY <1>15, DropLive
    <3> QED BY <3>1, <3>2 DEF CandType
  <2> QED BY <1>0, <1>15, <2>1 DEF Drop, Phases
<1>16. CASE Pick
  BY <1>0, <1>16 DEF Pick, Phases, race
<1>17. CASE UNCHANGED vars
  BY <1>0, <1>17 DEF vars, Phases
<1> QED BY <1>1, <1>2, <1>3, <1>4, <1>5, <1>6, <1>7, <1>8, <1>9, <1>10, <1>11, <1>12, <1>13, <1>14,
           <1>15, <1>16, <1>17 DEF Next

LEMMA NextLeaders == IInv /\ [Next]_vars => LeadersRace'
<1> SUFFICES ASSUME IInv, [Next]_vars PROVE LeadersRace'
  OBVIOUS
<1>0. TypeOK /\ Phases /\ LeadersRace /\ SizeMax \in Nat /\ 0 \in Cands
  BY Domains DEF IInv
<1>1. CASE NothingToDo \/ NoMemory \/ InputFails \/ Begin \/ Draw \/ BurstMove \/ BurstWasted
             \/ BurstPriced \/ NextStart \/ Pick
  BY <1>1 DEF NothingToDo, NoMemory, InputFails, Begin, Draw, BurstMove, BurstWasted, BurstPriced,
              NextStart, Pick, LeadersRace
<1>2. CASE RaceBegins
  <2>1. 0 \in Alive
    BY <1>0, <1>2 DEF RaceBegins, Phases, Alive
  <2>2. cand' = cand /\ Alive' = Alive
    BY <1>2 DEF RaceBegins, Alive
  <2>3. live' = Cardinality(Alive') /\ live' >= 1
    BY <1>0, <1>2, <2>1, <2>2, AliveFinite DEF RaceBegins
  <2>4. \A i \in Cands \ Alive, j \in Alive : cand[j].cost <= cand[i].cost
    <3> SUFFICES ASSUME NEW i \in Cands \ Alive, NEW j \in Alive PROVE cand[j].cost <= cand[i].cost
      OBVIOUS
    <3>1. cand[i].cost = SizeMax
      BY <1>0, <1>2 DEF RaceBegins, Phases, Alive
    <3>2. cand[j].cost \in 0 .. SizeMax
      BY <1>0 DEF TypeOK, CandType, Alive
    <3> QED BY <1>0, <3>1, <3>2
  <2> QED BY <2>2, <2>3, <2>4 DEF LeadersRace
<1>3. CASE StepWasted \/ StepScreened \/ TurnEnds \/ UNCHANGED vars
  <2>1. cand' = cand /\ live' = live /\ (pc' \in {"climb", "drop", "pick"} => pc \in {"climb", "drop", "pick"})
    BY <1>3 DEF StepWasted, StepScreened, TurnEnds, InTurn, Stepped, vars
  <2> QED BY <1>0, <2>1 DEF LeadersRace, Alive
<1>4. CASE StepPriced
  <2>1. PICK l \in Lens : /\ Price(l, Blocks) \in 0 .. SizeMax
                          /\ \A i \in Cands \ {at} : cand'[i] = cand[i]
                          /\ \/ Price(l, Blocks) < cand[at].cost /\ cand'[at] = Accepted(l)
                             \/ cand' = cand
    BY <1>4, StepEffect
  <2>2. at \in Cands /\ cand[at] \in CandType /\ cand[at].alive
    BY <1>0, <1>4, StepEffect DEF TypeOK
  <2>3. Accepted(l).cost = Price(l, Blocks) /\ Accepted(l).alive = cand[at].alive
    BY <2>2 DEF Accepted, CandType
  <2>4. /\ \A i \in Cands : cand'[i].alive = cand[i].alive /\ cand'[i].cost <= cand[i].cost
        /\ \A i \in Cands \ {at} : cand'[i].cost = cand[i].cost
    <3>1. \A i \in Cands : cand[i].cost \in 0 .. SizeMax
      BY <1>0 DEF TypeOK, CandType
    <3>2. cand'[at].cost <= cand[at].cost /\ cand'[at].alive = cand[at].alive
      <4>1. cand[at].cost \in Int
        BY <1>0, <2>2, <3>1
      <4>2. CASE cand' = cand
        BY <4>1, <4>2
      <4>3. CASE Price(l, Blocks) < cand[at].cost /\ cand'[at] = Accepted(l)
        BY <2>1, <2>3, <4>1, <4>3
      <4> QED BY <2>1, <4>2, <4>3
    <3>3. ASSUME NEW i \in Cands \ {at} PROVE cand'[i] = cand[i] /\ cand[i].cost <= cand[i].cost
      BY <1>0, <2>1, <3>1
    <3>4. ASSUME NEW i \in Cands PROVE cand'[i].alive = cand[i].alive /\ cand'[i].cost <= cand[i].cost
      <4>1. CASE i = at
        BY <3>2, <4>1
      <4>2. CASE i # at
        BY <3>3, <4>2
      <4> QED BY <4>1, <4>2
    <3> QED BY <3>3, <3>4
  <2>5. Alive' = Alive /\ live' = live /\ pc = "climb"
    BY <1>4, <2>4 DEF Alive, StepPriced, InTurn, Stepped
  <2>6. ASSUME NEW i \in Cands \ Alive, NEW j \in Alive PROVE cand'[j].cost <= cand'[i].cost
    <3>1. i # at /\ j \in Cands
      BY <2>2 DEF Alive
    <3>2. cand[j].cost <= cand[i].cost
      BY <1>0, <2>5 DEF LeadersRace
    <3>3. /\ cand[i].cost \in 0 .. SizeMax /\ cand[j].cost \in 0 .. SizeMax
          /\ cand'[j].cost \in 0 .. SizeMax
      BY <1>0, <2>1, <2>2, <2>3, <3>1 DEF TypeOK, CandType
    <3> QED BY <1>0, <2>4, <3>1, <3>2, <3>3
  <2> QED BY <1>0, <2>5, <2>6 DEF LeadersRace
<1>5. CASE Drop
  BY <1>5, DropLive DEF LeadersRace
<1> QED BY <1>1, <1>2, <1>3, <1>4, <1>5 DEF Next

LEMMA NextIInv == IInv /\ [Next]_vars => IInv'
BY NextTypeOK, NextPhases, NextLeaders DEF IInv

THEOREM Invariance == Spec => []IInv
BY InitIInv, NextIInv, PTL DEF Spec

\* Lengths, prices, counters and phases keep their ranges, the race's divisor
\* included.
THEOREM TypeCorrect == Spec => []TypeOK
<1>1. IInv => TypeOK
  BY DEF IInv
<1> QED BY Invariance, <1>1, PTL

\* The race always has a leader, and drops no candidate better than one it keeps.
THEOREM LeadersStay == Spec => []LeadersRace
<1>1. IInv => LeadersRace
  BY DEF IInv
<1> QED BY Invariance, <1>1, PTL

-----------------------------------------------------------------------------
\* A priced candidate's prices are those of its lengths.
PInv == PricesAreTrue

LEMMA CallKept == Keeps(call.lens)
BY DEF Keeps, KeepsFrozen

\* The two actions that give a candidate a price.
LEMMA BurstPrices ==
  ASSUME IInv, BurstPriced, NEW i \in Cands, cand'[i].cost # SizeMax
  PROVE  \/ cand'[i] = cand[i] /\ i # at
         \/ /\ i = at /\ cand'[i].lens = cand[i].lens /\ cand'[i].cost = Price(cand'[i].lens, Blocks)
            /\ cand'[i].blk = [b \in Blocks |-> BlockCost(cand'[i].lens, b)]
<1>1. CASE i = at
  BY <1>1, BurstEffect, PricedInFull
<1>2. CASE i # at
  BY <1>2, BurstEffect
<1> QED BY <1>1, <1>2

LEMMA StepPrices ==
  ASSUME IInv, StepPriced, NEW i \in Cands
  PROVE  \/ cand'[i] = cand[i]
         \/ /\ i = at /\ cand[i].cost # SizeMax
            /\ Keeps(cand[i].lens) => Keeps(cand'[i].lens)
            /\ cand'[i].cost = Price(cand'[i].lens, Blocks)
            /\ cand'[i].blk = [b \in Blocks |-> BlockCost(cand'[i].lens, b)]
<1>1. at \in Cands /\ cand[at].alive /\ cand[at] \in CandType /\ cand[at].cost \in 0 .. SizeMax
      /\ cand[at].lens \in Lens /\ SizeMax \in Nat
  BY StepEffect, Domains DEF IInv, TypeOK, CandType
<1>2. PICK l \in Moved(cand[at].lens) :
        /\ l \in Lens /\ Price(l, Blocks) \in 0 .. SizeMax
        /\ \A k \in Cands \ {at} : cand'[k] = cand[k]
        /\ \/ Price(l, Blocks) < cand[at].cost /\ cand'[at] = Accepted(l)
           \/ cand' = cand
  BY StepEffect
<1>3. CASE i # at \/ cand' = cand
  BY <1>2, <1>3
<1>4. CASE i = at /\ cand' # cand
  <2>1. Price(l, Blocks) < cand[at].cost /\ cand'[at] = Accepted(l)
    BY <1>2, <1>4
  <2>2. Price(l, Blocks) # SizeMax
    BY <1>1, <1>2, <2>1
  <2>3. /\ Accepted(l).lens = l /\ Accepted(l).cost = Price(l, Blocks)
        /\ Accepted(l).blk = PricedBlk(l, Blocks, candBlk)
    BY <1>1 DEF Accepted, CandType
  <2>4. PricedBlk(l, Blocks, candBlk) = [b \in Blocks |-> BlockCost(l, b)]
    BY <1>2, <2>2, PricedInFull
  <2>5. Keeps(cand[at].lens) => Keeps(l)
    <3>1. call \in Inputs
      BY DEF IInv, TypeOK
    <3> QED BY <1>1, <1>2, <3>1, MovesKeep
  <2>6. cand[at].cost # SizeMax
    BY <1>1 DEF IInv, Phases
  <2> QED BY <1>4, <2>1, <2>3, <2>4, <2>5, <2>6
<1> QED BY <1>3, <1>4

LEMMA BeginPrices ==
  ASSUME IInv, Begin
  PROVE  /\ \A i \in Cands \ {0} : cand'[i] = cand[i]
         /\ cand'[0].lens = call.lens /\ cand'[0].cost = Price(call.lens, Blocks)
         /\ cand'[0].blk = [b \in Blocks |-> BlockCost(call.lens, b)]
         /\ call.lens \in Lens /\ Price(call.lens, Blocks) \in 0 .. SizeMax
<1>1. call.lens \in Lens /\ 0 \in Cands
  BY InputsAssumption, Domains DEF IInv, TypeOK
<1>2. PricedBlk(call.lens, Blocks, cand[0].blk) = [b \in Blocks |-> BlockCost(call.lens, b)]
  BY <1>1, PricedInFull DEF Begin
<1>3. Price(call.lens, Blocks) \in 0 .. SizeMax
  BY <1>1, PriceType
<1> QED BY <1>1, <1>2, <1>3 DEF Begin, IInv, TypeOK

LEMMA DropPrices ==
  ASSUME IInv, Drop, NEW i \in Cands
  PROVE  cand'[i].lens = cand[i].lens /\ cand'[i].cost = cand[i].cost /\ cand'[i].blk = cand[i].blk
<1>1. cand[i] \in CandType
  BY DEF IInv, TypeOK
<1>2. cand'[i] = cand[i] \/ cand'[i] = [cand[i] EXCEPT !.alive = FALSE]
  BY DropLive
<1> QED BY <1>1, <1>2 DEF CandType

\* In a burst only the lengths of the candidate at move; it has no price.
LEMMA BurstLens ==
  ASSUME IInv, Draw \/ BurstMove, NEW i \in Cands
  PROVE  /\ cand'[i] = cand[i] \/ (i = at /\ cand[i].cost = SizeMax /\ cand'[i].cost = SizeMax)
         /\ at \in Cands
<1>1. at \in Cands /\ cand[at].cost = SizeMax
  <2>1. at \in Cands /\ pc \in {"draw", "burst"} /\ ~cand[at].alive
    BY Domains DEF IInv, TypeOK, Phases, Draw, BurstMove, Cands
  <2> QED BY <2>1 DEF IInv, Phases
<1>2. cand' = cand \/ \E l : cand' = [cand EXCEPT ![at].lens = l]
  <2>1. CASE Draw
    BY <2>1 DEF Draw
  <2>2. CASE BurstMove
    BY <2>2 DEF BurstMove
  <2> QED BY <2>1, <2>2
<1>3. CASE cand' = cand
  BY <1>1, <1>3
<1>4. CASE \E l : cand' = [cand EXCEPT ![at].lens = l]
  <2>1. PICK l : cand' = [cand EXCEPT ![at].lens = l]
    BY <1>4
  <2>2. (\A k \in Cands \ {at} : cand'[k] = cand[k]) /\ cand'[at].cost = cand[at].cost
    BY <1>1, <2>1, LensOnly
  <2> QED BY <1>1, <2>2
<1> QED BY <1>2, <1>3, <1>4

LEMMA NextPrices == IInv /\ PInv /\ [Next]_vars => PInv'
<1> SUFFICES ASSUME IInv, PInv, [Next]_vars, NEW i \in Cands, cand'[i].cost # SizeMax
             PROVE  /\ cand'[i].cost = Price(cand'[i].lens, Blocks)
                    /\ cand'[i].blk = [b \in Blocks |-> BlockCost(cand'[i].lens, b)]
  BY DEF PInv, PricesAreTrue
<1>1. CASE cand' = cand
  BY <1>1 DEF PInv, PricesAreTrue
<1>2. CASE Begin
  BY <1>2, BeginPrices DEF PInv, PricesAreTrue
<1>3. CASE Draw \/ BurstMove
  BY <1>3, BurstLens DEF PInv, PricesAreTrue
<1>4. CASE BurstPriced
  BY <1>4, BurstPrices DEF PInv, PricesAreTrue
<1>5. CASE StepPriced
  BY <1>5, StepPrices DEF PInv, PricesAreTrue
<1>6. CASE Drop
  BY <1>6, DropPrices DEF PInv, PricesAreTrue
<1> QED BY <1>1, <1>2, <1>3, <1>4, <1>5, <1>6
        DEF Next, vars, race, NothingToDo, NoMemory, InputFails, BurstWasted, NextStart, RaceBegins,
            StepWasted, StepScreened, TurnEnds, Pick

\* Whatever the draws, the prices a candidate is screened and ranked by are those
\* of its lengths.
THEOREM PricesStayTrue == Spec => []PricesAreTrue
<1>1. Init => PInv
  BY DEF Init, PInv, PricesAreTrue, NoCand
<1>2. PInv => PricesAreTrue
  BY DEF PInv
<1> QED BY Invariance, NextPrices, <1>1, <1>2, PTL DEF Spec

-----------------------------------------------------------------------------
\* Frozen symbols.
LEMMA CallStays == [Next]_vars => call' = call
BY DEF Next, vars, race, NothingToDo, NoMemory, InputFails, Begin, Draw, BurstMove, BurstWasted,
       BurstPriced, NextStart, RaceBegins, StepWasted, StepScreened, StepPriced, InTurn, Stepped,
       TurnEnds, Drop, Pick

LEMMA FrozenStays ==
  ASSUME call' = call, NEW CONSTANT s
  PROVE  Frozen(s)' = Frozen(s)
BY DEF Frozen, SegmentSize

\* What Pick returns has the least price.
LEMMA PickCheapest ==
  ASSUME IInv, Pick
  PROVE  \E b \in Cands : /\ lengths' = cand[b].lens /\ cand[b].cost # SizeMax
                          /\ \A i \in Cands : cand[b].cost <= cand[i].cost
<1>1. PICK b \in Cands :
        /\ \A i \in Cands : cand[b].cost < cand[i].cost \/ (cand[b].cost = cand[i].cost /\ b <= i)
        /\ lengths' = cand[b].lens
  BY DEF Pick
<1>2. \A i \in Cands : cand[i].cost \in 0 .. SizeMax
  BY DEF IInv, TypeOK, CandType
<1>3. cand[0].cost # SizeMax /\ 0 \in Cands /\ SizeMax \in Nat
  BY Domains DEF IInv, Phases, Pick
<1>4. \A i \in Cands : cand[b].cost <= cand[i].cost
  BY <1>1, <1>2
<1>5. cand[b].cost # SizeMax
  <2>1. cand[b].cost <= cand[0].cost /\ cand[0].cost \in 0 .. SizeMax /\ cand[b].cost \in 0 .. SizeMax
    BY <1>2, <1>3, <1>4
  <2> QED BY <1>3, <2>1
<1> QED BY <1>1, <1>4, <1>5

KeptInv ==
  /\ Keeps(lengths)
  /\ \A i \in Cands : cand[i].cost # SizeMax \/ (pc = "burst" /\ i = at) => Keeps(cand[i].lens)

LEMMA NextKept == IInv /\ KeptInv /\ [Next]_vars => KeptInv'
<1> SUFFICES ASSUME IInv, KeptInv, [Next]_vars PROVE KeptInv'
  OBVIOUS
<1>1. call' = call
  BY CallStays
<1>2. \A l : Keeps(l) =>
        /\ Kraft(l) = Kraft(call'.lens)
        /\ \A s \in Coded : Frozen(s)' => l[s] = call'.lens[s]
  BY <1>1, FrozenStays DEF Keeps, KeepsFrozen
<1> DEFINE Goal == /\ Keeps(lengths')
                   /\ \A i \in Cands : cand'[i].cost # SizeMax \/ (pc' = "burst" /\ i = at')
                                        => Keeps(cand'[i].lens)
<1>3. SUFFICES Goal
  BY <1>2 DEF KeptInv, Keeps, KeepsFrozen
<1>0. TypeOK /\ Phases /\ 0 \in Cands
  BY Domains DEF IInv
<1>4. CASE Pick
  <2>1. Keeps(lengths')
    BY <1>4, PickCheapest DEF KeptInv
  <2> QED BY <1>4, <2>1 DEF Pick, race, KeptInv
<1>5. CASE Begin
  <2>1. Keeps(call.lens)
    BY CallKept
  <2> QED BY <1>0, <1>5, <2>1, BeginPrices DEF Begin, KeptInv, Phases
<1>6. CASE Draw
  <2>1. at \in Cands /\ pc' = "burst" /\ at' = at /\ lengths' = lengths
    BY <1>0, <1>6, BurstLens DEF Draw
  <2>2. Keeps(cand[0].lens)
    BY <1>0, <1>6 DEF Draw, Phases, KeptInv
  <2>3. cand'[at].lens = cand[0].lens /\ \A i \in Cands \ {at} : cand'[i] = cand[i]
    BY <1>6, <2>1, LensOnly DEF Draw
  <2> QED BY <2>1, <2>2, <2>3 DEF KeptInv
<1>7. CASE BurstMove
  <2>1. at \in Cands /\ pc = "burst" /\ pc' = "burst" /\ at' = at /\ lengths' = lengths
    BY <1>0, <1>7, BurstLens DEF BurstMove
  <2>2. Keeps(cand[at].lens) /\ cand[at].lens \in Lens /\ call \in Inputs
    BY <1>0, <2>1 DEF KeptInv, TypeOK, CandType
  <2>3. CASE cand' = cand
    BY <2>1, <2>3 DEF KeptInv
  <2>4. CASE \E l \in Moved(cand[at].lens) : cand' = [cand EXCEPT ![at].lens = l]
    <3>1. PICK l \in Moved(cand[at].lens) : cand' = [cand EXCEPT ![at].lens = l]
      BY <2>4
    <3>2. Keeps(l)
      BY <2>2, MovesKeep
    <3>3. cand'[at].lens = l /\ \A i \in Cands \ {at} : cand'[i] = cand[i]
      BY <2>1, <3>1, LensOnly
    <3> QED BY <2>1, <3>2, <3>3 DEF KeptInv
  <2> QED BY <1>7, <2>3, <2>4 DEF BurstMove
<1>8. CASE BurstPriced
  <2>1. pc' # "burst" /\ lengths' = lengths /\ pc = "burst"
    BY <1>8 DEF BurstPriced
  <2> QED BY <1>8, <2>1, BurstPrices DEF KeptInv
<1>9. CASE StepPriced
  <2>1. pc' # "burst" /\ lengths' = lengths
    BY <1>9 DEF StepPriced, InTurn, Stepped
  <2> QED BY <1>9, <2>1, StepPrices DEF KeptInv
<1>10. CASE Drop
  <2>1. pc' # "burst" /\ lengths' = lengths
    BY <1>10 DEF Drop
  <2> QED BY <1>10, <2>1, DropPrices DEF KeptInv
<1>11. CASE cand' = cand /\ lengths' = lengths /\ (pc' = "burst" => pc = "burst" /\ at' = at)
  BY <1>11 DEF KeptInv
<1> HIDE DEF Goal
<1> QED BY <1>4, <1>5, <1>6, <1>7, <1>8, <1>9, <1>10, <1>11
        DEF Next, vars, race, NothingToDo, NoMemory, InputFails, BurstWasted, NextStart, RaceBegins,
            StepWasted, StepScreened, InTurn, Stepped, TurnEnds

\* A symbol that holds a quarter of the segment, or none of it, keeps its length.
THEOREM FrozenAlways == Spec => []FrozenStay
<1>1. Init => KeptInv
  BY CallKept DEF Init, KeptInv, NoCand
<1>2. KeptInv => FrozenStay
  BY DEF KeptInv, FrozenStay, Keeps, KeepsFrozen, Frozen
<1> QED BY Invariance, NextKept, <1>1, <1>2, PTL DEF Spec

\* Every priced candidate and the result have the Kraft sum of the call's lengths.
THEOREM CodeAlwaysComplete == Spec => []CodeComplete
<1>1. Init => KeptInv
  BY CallKept DEF Init, KeptInv, NoCand
<1>2. KeptInv => CodeComplete
  BY DEF KeptInv, CodeComplete, Keeps
<1> QED BY Invariance, NextKept, <1>1, <1>2, PTL DEF Spec

-----------------------------------------------------------------------------
\* The least price is that of a candidate, until the call returns with it.
CheapInv ==
  /\ pc \notin {"begin", "returned"} =>
       /\ cheapest <= Price(call.lens, Blocks)
       /\ \A i \in Cands : cheapest <= cand[i].cost
       /\ \E i \in Cands : cand[i].cost = cheapest
  /\ pc = "begin" => cheapest = SizeMax
  /\ CheapestReturned

LEMMA NextCheapest == IInv /\ PInv /\ CheapInv /\ [Next]_vars => CheapInv'
<1> SUFFICES ASSUME IInv, PInv, CheapInv, [Next]_vars PROVE CheapInv'
  OBVIOUS
<1>0. /\ TypeOK /\ Phases /\ 0 \in Cands /\ SizeMax \in Nat
      /\ \A i \in Cands : cand[i].cost \in 0 .. SizeMax
      /\ cheapest \in 0 .. SizeMax
  BY Domains DEF IInv, TypeOK, CandType
<1>1. call' = call
  BY CallStays
<1>2. CASE NothingToDo \/ NoMemory \/ InputFails
  BY <1>2 DEF NothingToDo, NoMemory, InputFails, race, CheapInv, CheapestReturned
<1>3. CASE Begin
  <2>1. /\ cheapest' = Price(call.lens, Blocks) /\ cand'[0].cost = cheapest' /\ cheapest' \in 0 .. SizeMax
        /\ \A i \in Cands \ {0} : cand'[i].cost = SizeMax
        /\ pc' = "draw"
    BY <1>0, <1>3, BeginPrices DEF Begin, Phases
  <2>2. \A i \in Cands : cheapest' <= cand'[i].cost
    BY <1>0, <2>1
  <2> QED BY <1>0, <1>1, <2>1, <2>2 DEF CheapInv, CheapestReturned
<1>4. CASE /\ cheapest' = cheapest /\ \A i \in Cands : cand'[i].cost = cand[i].cost
           /\ pc \notin {"begin", "returned"} /\ pc' \notin {"begin", "returned"}
  BY <1>1, <1>4 DEF CheapInv, CheapestReturned
<1>5. CASE Draw \/ BurstMove
  <2>1. \A i \in Cands : cand'[i].cost = cand[i].cost
    BY <1>5, BurstLens
  <2> QED BY <1>4, <1>5, <2>1 DEF Draw, BurstMove
<1>6. CASE BurstPriced
  <2> DEFINE p == Price(cand[at].lens, Blocks)
  <2>1. /\ p \in 0 .. SizeMax /\ cand'[at].cost = p /\ cand[at].cost = SizeMax /\ at \in Cands
        /\ \A i \in Cands \ {at} : cand'[i].cost = cand[i].cost
        /\ cheapest' = IF p < cheapest THEN p ELSE cheapest
        /\ pc' = "draw" /\ pc = "burst"
    BY <1>6, BurstEffect DEF BurstPriced
  <2>2. cand[0].cost # SizeMax /\ cheapest <= cand[0].cost
    BY <1>0, <2>1 DEF CheapInv, Phases
  <2>3. cheapest # SizeMax
    BY <1>0, <2>2
  <2>4. PICK j \in Cands : cand[j].cost = cheapest
    BY <2>1 DEF CheapInv
  <2>5. cheapest <= Price(call.lens, Blocks) /\ \A i \in Cands : cheapest <= cand[i].cost
    BY <2>1 DEF CheapInv
  <2> HIDE DEF p
  <2>6. cheapest' <= cheapest /\ cheapest' <= p /\ cheapest' \in 0 .. SizeMax
    BY <1>0, <2>1
  <2>7. \A i \in Cands : cheapest' <= cand'[i].cost
    BY <1>0, <2>1, <2>5, <2>6
  <2>8. \E i \in Cands : cand'[i].cost = cheapest'
    BY <2>1, <2>3, <2>4
  <2>9. cheapest' <= Price(call.lens, Blocks)
    <3>1. Price(call.lens, Blocks) \in 0 .. SizeMax
      BY <1>0, InputsAssumption, PriceType DEF TypeOK
    <3> QED BY <1>0, <2>5, <2>6, <3>1
  <2> QED BY <1>1, <2>1, <2>7, <2>8, <2>9 DEF CheapInv, CheapestReturned
<1>7. CASE StepPriced
  <2>1. PICK l \in Moved(cand[at].lens) :
          /\ l \in Lens /\ Price(l, Blocks) \in 0 .. SizeMax
          /\ cheapest' = IF Price(l, Blocks) < cheapest THEN Price(l, Blocks) ELSE cheapest
          /\ \A i \in Cands \ {at} : cand'[i] = cand[i]
          /\ \/ Price(l, Blocks) < cand[at].cost /\ cand'[at] = Accepted(l)
             \/ ~(Price(l, Blocks) < cand[at].cost) /\ cand' = cand
    BY <1>7, StepEffect
  <2>2. at \in Cands /\ pc = "climb" /\ pc' = "climb" /\ cand[at] \in CandType
    BY <1>0, <1>7, StepEffect DEF StepPriced, InTurn, Stepped, TypeOK
  <2>3. Accepted(l).cost = Price(l, Blocks)
    BY <2>2 DEF Accepted, CandType
  <2> DEFINE p == Price(l, Blocks)
  <2>4. /\ p \in 0 .. SizeMax /\ cheapest' = IF p < cheapest THEN p ELSE cheapest
        /\ \A i \in Cands \ {at} : cand'[i].cost = cand[i].cost
        /\ cand'[at].cost = IF p < cand[at].cost THEN p ELSE cand[at].cost
    BY <2>1, <2>3
  <2> HIDE DEF p
  <2>5. PICK j \in Cands : cand[j].cost = cheapest
    BY <2>2 DEF CheapInv
  <2>6. cheapest <= Price(call.lens, Blocks) /\ \A i \in Cands : cheapest <= cand[i].cost
    BY <2>2 DEF CheapInv
  <2>7. \A i \in Cands : cheapest' <= cand'[i].cost
    BY <1>0, <2>2, <2>4, <2>6
  <2>8. \E i \in Cands : cand'[i].cost = cheapest'
    <3>1. CASE p < cheapest
      BY <1>0, <2>2, <2>4, <2>6, <3>1
    <3>2. CASE ~(p < cheapest)
      BY <1>0, <2>2, <2>4, <2>5, <3>2
    <3> QED BY <3>1, <3>2
  <2>9. cheapest' <= Price(call.lens, Blocks)
    <3>1. Price(call.lens, Blocks) \in 0 .. SizeMax
      BY <1>0, InputsAssumption, PriceType DEF TypeOK
    <3> QED BY <1>0, <2>4, <2>6, <3>1
  <2> QED BY <1>1, <2>2, <2>7, <2>8, <2>9 DEF CheapInv, CheapestReturned
<1>8. CASE Drop
  <2>1. \A i \in Cands : cand'[i].cost = cand[i].cost
    BY <1>8, DropPrices
  <2> QED BY <1>4, <1>8, <2>1 DEF Drop
<1>9. CASE Pick
  <2>1. PICK b \in Cands : /\ lengths' = cand[b].lens /\ cand[b].cost # SizeMax
                          /\ \A i \in Cands : cand[b].cost <= cand[i].cost
    BY <1>9, PickCheapest
  <2>2. /\ cheapest <= Price(call.lens, Blocks) /\ cheapest <= cand[b].cost
        /\ \E i \in Cands : cand[i].cost = cheapest
    BY <1>9 DEF Pick, CheapInv
  <2>3. cand[b].cost = cheapest
    BY <1>0, <2>1, <2>2
  <2>4. Price(lengths', Blocks) = cheapest
    BY <2>1, <2>3 DEF PInv, PricesAreTrue
  <2> QED BY <1>1, <1>9, <2>2, <2>4 DEF Pick, race, CheapInv, CheapestReturned
<1>10. CASE UNCHANGED vars
  BY <1>10 DEF vars, CheapInv, CheapestReturned
<1>11. CASE BurstWasted \/ NextStart \/ RaceBegins \/ StepWasted \/ StepScreened \/ TurnEnds
  BY <1>4, <1>11 DEF BurstWasted, NextStart, RaceBegins, StepWasted, StepScreened, InTurn, Stepped,
                    TurnEnds, race
<1> QED BY <1>2, <1>3, <1>5, <1>6, <1>7, <1>8, <1>9, <1>10, <1>11 DEF Next

\* The result is the cheapest of everything priced in full, and never dearer than
\* the input.
THEOREM CheapestAlways == Spec => []CheapestReturned
<1>1. Init => CheapInv
  BY DEF Init, CheapInv, CheapestReturned
<1>2. CheapInv => CheapestReturned
  BY DEF CheapInv
<1>3. Init => PInv
  BY DEF Init, PInv, PricesAreTrue, NoCand
<1> QED BY Invariance, NextPrices, NextCheapest, <1>1, <1>2, <1>3, PTL DEF Spec

-----------------------------------------------------------------------------
\* Statistics come back on every way out, and failure leaves the lengths alone.
THEOREM CallerSafe == Spec => []CallerUndisturbed
<1>1. Init => CallerUndisturbed
  BY DEF Init, CallerUndisturbed
<1>2. IInv /\ CallerUndisturbed /\ [Next]_vars => CallerUndisturbed'
  BY CallStays DEF IInv, Phases, CallerUndisturbed, Next, vars, race, NothingToDo, NoMemory, InputFails,
     Begin, Draw, BurstMove, BurstWasted, BurstPriced, NextStart, RaceBegins, StepWasted, StepScreened,
     StepPriced, InTurn, Stepped, TurnEnds, Drop, Pick
<1> QED BY Invariance, <1>1, <1>2, PTL DEF Spec
\* ResultDue: the caller gets the cheapest lengths a race came across, and a call that
\* fails leaves its lengths alone.
THEOREM ResultIsDue == Spec => []ResultDue
<1>1. CheapestReturned /\ CallerUndisturbed => ResultDue
  BY DEF ResultDue
<1> QED BY <1>1, CheapestAlways, CallerSafe, PTL
-----------------------------------------------------------------------------
\* The rounds halve the race.
LEMMA Halving ==
  ASSUME NEW n \in Nat, NEW k \in Nat, n <= 2 ^ (k + 1)
  PROVE  n - (n \div 2) <= 2 ^ k
<1> DEFINE x == 2 ^ k
<1>1. x \in Nat /\ n <= 2 * x
  BY PowerDoubles, PowerIsPositive
<1> HIDE DEF x
<1>2. n - (n \div 2) <= x
  BY <1>1
<1> QED BY <1>2 DEF x

\* There are rounds enough: were 2 ^ (Rounds - 1) below the starts, the powers counted
\* would be one more than they are.
LEMMA RoundsEnough == Rounds - 1 \in Nat /\ Starts <= 2 ^ (Rounds - 1)
<1> DEFINE S == {r \in 0 .. Starts : 2 ^ r < Starts}
           m == Cardinality(S)
<1>1. Starts \in Nat /\ IsFiniteSet(0 .. Starts)
  BY SizesAssumption, FS_Interval
<1>2. IsFiniteSet(S) /\ m \in Nat
  BY <1>1, FS_Subset, FS_CardinalityType
<1>3. Rounds - 1 = m
  BY <1>2 DEF Rounds
<1>4. ASSUME 2 ^ m < Starts PROVE FALSE
  <2>1. m \in 0 .. Starts
    BY <1>1, <1>2, <1>4, PowerExceeds, PowerIsPositive
  <2>2. 0 .. m \subseteq S
    <3> SUFFICES ASSUME NEW r \in 0 .. m PROVE r \in S
      OBVIOUS
    <3> HIDE DEF m
    <3>1. 2 ^ r <= 2 ^ m /\ 2 ^ r \in Nat /\ 2 ^ m \in Nat
      BY <1>2, PowerGrows, PowerIsPositive
    <3>2. 2 ^ r < Starts /\ r \in 0 .. Starts
      BY <1>1, <1>2, <1>4, <2>1, <3>1
    <3> QED BY <3>2
  <2>3. Cardinality(0 .. m) = m + 1
    BY <1>2, FS_Interval
  <2>4. Cardinality(0 .. m) <= m
    <3> HIDE DEF S
    <3> QED BY <1>2, <2>2, FS_Subset
  <2> QED BY <1>2, <2>3, <2>4
<1>5. Starts <= 2 ^ m
  <2>1. 2 ^ m \in Nat
    BY <1>2, PowerIsPositive
  <2> QED BY <1>1, <1>4, <2>1
<1> QED BY <1>2, <1>3, <1>5

Halved ==
  /\ pc \in {"begin", "draw", "burst"} => round = 0
  /\ pc \in {"climb", "drop"} => round + 1 <= Rounds /\ live <= 2 ^ ((Rounds - 1) - round)
  /\ pc = "pick" => round = Rounds /\ live = 1

\* With a power of two at most left before the last round, one is left in it.
LEMMA HalvedLeavesOne == IInv /\ Halved => OneLeft
<1> SUFFICES ASSUME IInv, Halved, pc = "climb", round + 1 = Rounds PROVE live = 1
  BY DEF Halved, OneLeft
<1>1. live <= 2 ^ ((Rounds - 1) - round) /\ live >= 1 /\ live \in Nat /\ round \in Nat
  BY Domains DEF Halved, IInv, TypeOK, LeadersRace
<1>2. (Rounds - 1) - round = 0
  BY <1>1, Domains
<1>3. live <= 2 ^ 0
  BY <1>1, <1>2
<1>4. 2 ^ 0 = 1
  OBVIOUS
<1> QED BY <1>1, <1>3, <1>4

LEMMA NextHalved == IInv /\ Halved /\ [Next]_vars => Halved'
<1> SUFFICES ASSUME IInv, Halved, [Next]_vars PROVE Halved'
  OBVIOUS
<1>0. /\ TypeOK /\ round \in Nat /\ live \in 0 .. Starts
      /\ Starts \in Nat /\ Rounds \in Nat \ {0} /\ Rounds' = Rounds
  BY Domains DEF IInv, TypeOK, Rounds
<1>1. CASE /\ round' = round /\ live' = live
           /\ \/ pc' = pc
              \/ pc' = "returned"
              \/ pc' \in {"draw", "burst"} /\ pc \in {"begin", "draw", "burst"}
              \/ pc' = "drop" /\ pc = "climb"
  BY <1>0, <1>1 DEF Halved
<1>2. CASE RaceBegins
  <2>1. live' \in 0 .. Starts
    BY <1>0, <1>2, AliveFinite DEF RaceBegins
  <2>2. (Rounds - 1) - 0 = Rounds - 1 /\ Rounds - 1 \in Nat /\ 2 ^ (Rounds - 1) \in Nat
    BY RoundsEnough, PowerIsPositive
  <2>3. live' <= 2 ^ (Rounds - 1)
    BY <1>0, <2>1, <2>2, RoundsEnough
  <2>4. round = 0 /\ round' = 0 /\ pc' = "climb" /\ 0 + 1 <= Rounds
    BY <1>0, <1>2 DEF RaceBegins, Halved
  <2> QED BY <1>0, <2>2, <2>3, <2>4 DEF Halved
<1>3. CASE Drop
  <2>1. /\ round + 1 <= Rounds /\ live <= 2 ^ ((Rounds - 1) - round) /\ live >= 1
        /\ live' = live - (live \div 2) /\ round' = round + 1
        /\ live \in Nat
    BY <1>0, <1>3 DEF Drop, DropCount, Halved, IInv, LeadersRace
  <2>2. CASE round + 1 < Rounds
    <3>1. (Rounds - 1) - (round + 1) \in Nat /\ ((Rounds - 1) - (round + 1)) + 1 = (Rounds - 1) - round
      BY <1>0, <2>2
    <3>2. live <= 2 ^ (((Rounds - 1) - (round + 1)) + 1)
      BY <2>1, <3>1
    <3>3. live' <= 2 ^ ((Rounds - 1) - (round + 1))
      BY <2>1, <3>1, <3>2, Halving
    <3>4. pc' = "climb" /\ (round + 1) + 1 <= Rounds
      BY <1>0, <1>3, <2>2 DEF Drop
    <3> QED BY <1>0, <2>1, <3>3, <3>4 DEF Halved
  <2>3. CASE ~(round + 1 < Rounds)
    <3>1. (Rounds - 1) - round = 0 /\ round + 1 = Rounds /\ 2 ^ 0 = 1
      BY <1>0, <2>1, <2>3
    <3>2. live <= 1
      BY <2>1, <3>1
    <3>3. live' = 1
      BY <2>1, <3>2
    <3> QED BY <1>0, <1>3, <2>1, <2>3, <3>1, <3>3 DEF Drop, Halved
  <2> QED BY <2>2, <2>3
<1> QED BY <1>1, <1>2, <1>3
        DEF Next, vars, race, NothingToDo, NoMemory, InputFails, Begin, Draw, BurstMove, BurstWasted,
            BurstPriced, NextStart, StepWasted, StepScreened, StepPriced, InTurn, Stepped, TurnEnds,
            Pick

-----------------------------------------------------------------------------
\* The steps a round may make, and the candidates that have not had their turn.
Budget == call.steps \div Rounds
From(n) == {i \in Alive : i >= n}
Ahead == From(at)

\* What was spent, with what the turns still to come may spend, stays within the
\* rounds begun.
Spent ==
  /\ pc \in {"begin", "draw", "burst"} => steps = 0
  /\ pc = "climb" =>
       /\ per = Per(live) /\ made <= per /\ (made > 0 => cand[at].alive)
       /\ steps + Cardinality(Ahead) * per <= (round + 1) * Budget + made
  /\ pc = "drop" => at = 0 /\ made = 0 /\ steps <= (round + 1) * Budget
  /\ pc = "pick" => steps <= Rounds * Budget
  /\ WithinBudget

LEMMA BudgetType ==
  ASSUME TypeOK
  PROVE  Budget \in Nat /\ Rounds * Budget <= call.steps /\ call.steps \in Nat
<1>1. call.steps \in Nat /\ Rounds \in Nat \ {0}
  BY InputsAssumption, Domains DEF TypeOK
<1> QED BY <1>1 DEF Budget

\* A number of candidates share a round's steps.
LEMMA ShareFits ==
  ASSUME TypeOK, NEW n \in Nat, n >= 1
  PROVE  Per(n) \in Nat /\ n * Per(n) <= Budget
<1>1. Budget \in Nat /\ Per(n) = Budget \div n
  BY BudgetType DEF Per, Budget
<1> HIDE DEF Budget
<1>2. Budget \div n \in Nat /\ n * (Budget \div n) <= Budget
  BY <1>1
<1> QED BY <1>1, <1>2

LEMMA TimesNext ==
  ASSUME NEW k \in Nat, NEW p \in Nat
  PROVE  k * p \in Nat /\ (k + 1) * p = k * p + p
OBVIOUS

LEMMA TimesGrows ==
  ASSUME NEW j \in Nat, NEW k \in Nat, j <= k, NEW p \in Nat
  PROVE  j * p <= k * p
OBVIOUS

\* The candidate in turn leaves those ahead when its turn ends.
LEMMA AheadPasses ==
  ASSUME IInv, pc = "climb"
  PROVE  /\ Cardinality(Ahead) \in Nat
         /\ cand[at].alive => /\ Cardinality(Ahead) >= 1
                             /\ Cardinality(From(at + 1)) = Cardinality(Ahead) - 1
         /\ ~cand[at].alive => Cardinality(From(at + 1)) = Cardinality(Ahead)
<1>1. at \in Cands /\ IsFiniteSet(Alive) /\ Alive \subseteq Nat
  BY Domains, AliveFinite DEF IInv, Phases, Alive
<1>2. IsFiniteSet(Ahead) /\ Cardinality(Ahead) \in Nat
  BY <1>1, FS_Subset, FS_CardinalityType DEF Ahead, From
<1>3. CASE cand[at].alive
  <2>1. at \in Ahead /\ From(at + 1) = Ahead \ {at}
    BY <1>1, <1>3, Domains DEF Ahead, From, Alive
  <2>2. Cardinality(Ahead \ {at}) = Cardinality(Ahead) - 1
    BY <1>2, <2>1, FS_RemoveElement
  <2>3. Cardinality(Ahead) # 0
    BY <1>2, <2>1, FS_EmptySet
  <2>4. Cardinality(Ahead) >= 1
    BY <1>2, <2>3
  <2>5. Cardinality(From(at + 1)) = Cardinality(Ahead) - 1
    BY <2>1, <2>2
  <2> QED BY <1>2, <1>3, <2>4, <2>5
<1>4. CASE ~cand[at].alive
  <2>1. From(at + 1) = Ahead
    BY <1>1, <1>4, Domains DEF Ahead, From, Alive
  <2> QED BY <1>2, <1>4, <2>1
<1> QED BY <1>3, <1>4

\* A round begins with everyone ahead, and their shares fit.
LEMMA AllAhead ==
  ASSUME at' = 0
  PROVE  Ahead' = Alive'
<1>1. Ahead' = {i \in Cands : cand'[i].alive /\ i >= 0}
  BY DEF Ahead, From, Alive
<1>2. Alive' = {i \in Cands : cand'[i].alive}
  BY DEF Alive
<1>3. \A i \in Cands : i >= 0
  BY Domains
<1> QED BY <1>1, <1>2, <1>3

LEMMA RoundFits ==
  ASSUME TypeOK, NEW n \in Nat, n >= 1, NEW r \in Nat, NEW s \in Nat, s <= r * Budget
  PROVE  s + n * Per(n) <= (r + 1) * Budget
<1>1. Per(n) \in Nat /\ n * Per(n) <= Budget /\ Budget \in Nat
  BY ShareFits, BudgetType
<1>2. (r + 1) * Budget = r * Budget + Budget /\ r * Budget \in Nat
  BY <1>1, TimesNext
<1> DEFINE x == n * Per(n)
<1>3. x \in Nat /\ x <= Budget
  BY <1>1
<1> HIDE DEF x
<1>4. s + x <= (r + 1) * Budget
  BY <1>1, <1>2, <1>3
<1> QED BY <1>4 DEF x

\* What was spent by the end of a round begun is in the caller's budget.
LEMMA RoundsFit ==
  ASSUME TypeOK, NEW r \in Nat, r <= Rounds, NEW s \in Nat, s <= r * Budget
  PROVE  s <= call.steps
<1>1. Budget \in Nat /\ Rounds \in Nat /\ Rounds * Budget <= call.steps /\ call.steps \in Nat
  BY BudgetType, Domains
<1>2. r * Budget <= Rounds * Budget /\ r * Budget \in Nat /\ Rounds * Budget \in Nat
  BY <1>1, TimesGrows, TimesNext
<1> QED BY <1>1, <1>2

\* A step changes no candidate's place in the race.
LEMMA StepAlive ==
  ASSUME IInv, StepWasted \/ StepScreened \/ StepPriced
  PROVE  \A i \in Cands : cand'[i].alive = cand[i].alive
<1>1. CASE StepWasted \/ StepScreened
  BY <1>1 DEF StepWasted, StepScreened
<1>2. CASE StepPriced
  <2>1. PICK l \in Lens : /\ \A i \in Cands \ {at} : cand'[i] = cand[i]
                          /\ cand'[at] = Accepted(l) \/ cand' = cand
    BY <1>2, StepEffect
  <2>2. cand[at] \in CandType
    BY <1>2, StepEffect DEF IInv, TypeOK
  <2>3. Accepted(l).alive = cand[at].alive
    BY <2>2 DEF Accepted, CandType
  <2> QED BY <2>1, <2>3
<1> QED BY <1>1, <1>2

LEMMA NextSpent == IInv /\ Halved /\ Spent /\ [Next]_vars => Spent'
<1> SUFFICES ASSUME IInv, Halved, Spent, [Next]_vars PROVE Spent'
  OBVIOUS
<1>0. /\ TypeOK /\ TypeOK' /\ IInv' /\ call' = call
      /\ round \in Nat /\ live \in Nat /\ steps \in Nat /\ made \in Nat /\ per \in Nat /\ at \in Nat
      /\ Rounds \in Nat \ {0} /\ Rounds' = Rounds /\ Budget \in Nat
  BY Domains, NextIInv, CallStays, BudgetType DEF IInv, TypeOK, Rounds
<1>1. Budget' = Budget /\ Per(live)' = Per(live')
  BY <1>0 DEF Budget, Per
<1>2. CASE pc' \in {"begin", "draw", "burst"} /\ steps' = steps /\ pc \in {"begin", "draw", "burst"}
  BY <1>0, <1>2 DEF Spent, WithinBudget
<1>3. CASE pc' = "returned" /\ steps' = steps
  BY <1>0, <1>3 DEF Spent, WithinBudget
<1>4. CASE UNCHANGED vars
  BY <1>1, <1>4 DEF vars, Spent, WithinBudget, Ahead, From, Alive
<1>5. CASE RaceBegins
  <2>1. /\ steps = 0 /\ round = 0 /\ steps' = 0 /\ round' = 0 /\ at' = 0 /\ made' = 0
        /\ pc' = "climb" /\ per' = Per(live') /\ live' = Cardinality(Alive') /\ live' >= 1
    BY <1>0, <1>5, NextLeaders DEF RaceBegins, Spent, Halved, LeadersRace
  <2>2. Ahead' = Alive'
    BY <2>1, AllAhead
  <2>3. live' \in Nat /\ 0 <= 0 * Budget
    BY <1>0 DEF TypeOK
  <2>4. 0 + live' * Per(live') <= (0 + 1) * Budget
    BY <1>0, <2>1, <2>3, RoundFits
  <2>5. steps' + Cardinality(Ahead') * per' <= (round' + 1) * Budget' + made'
    <3>1. (0 + 1) * Budget \in Nat
      BY <1>0
    <3> QED BY <1>1, <2>1, <2>2, <2>4, <3>1
  <2>6. WithinBudget'
    BY <1>0, <2>1 DEF Spent, WithinBudget
  <2>7. made' <= per' /\ ~(made' > 0)
    BY <1>0, <2>1 DEF TypeOK
  <2> QED BY <1>1, <2>1, <2>5, <2>6, <2>7 DEF Spent
<1>6. CASE StepWasted \/ StepScreened \/ StepPriced
  <2>1. /\ pc = "climb" /\ pc' = "climb" /\ cand[at].alive /\ made < per
        /\ made' = made + 1 /\ steps' = steps + 1 /\ at' = at /\ round' = round /\ live' = live
        /\ per' = per
    BY <1>6 DEF StepWasted, StepScreened, StepPriced, InTurn, Stepped
  <2>2. at \in Cands /\ \A i \in Cands : cand'[i].alive = cand[i].alive
    BY <1>0, <1>6, <2>1, StepAlive DEF IInv, Phases
  <2>3. Ahead' = Ahead
    BY <2>1, <2>2 DEF Ahead, From, Alive
  <2>4. per = Per(live) /\ steps + Cardinality(Ahead) * per <= (round + 1) * Budget + made
    BY <2>1 DEF Spent
  <2>5. Cardinality(Ahead) \in Nat /\ Cardinality(Ahead) >= 1
    BY <2>1, AheadPasses
  <2> DEFINE k == Cardinality(Ahead)
             x == k * per
             y == (round + 1) * Budget
  <2>6. x \in Nat /\ x >= per /\ y \in Nat
    <3> HIDE DEF k
    <3>1. k \in Nat /\ k >= 1
      BY <2>5 DEF k
    <3> QED BY <1>0, <3>1, TimesNext, TimesGrows
  <2>7. steps + x <= y + made
    BY <2>4
  <2> HIDE DEF x, y
  <2>8. steps + 1 <= y /\ (steps + 1) + x <= y + (made + 1)
    BY <1>0, <2>1, <2>6, <2>7
  <2>9. steps + 1 <= call.steps
    BY <1>0, <2>1, <2>8, RoundsFit DEF y, Halved
  <2>10. steps' + Cardinality(Ahead') * per' <= (round' + 1) * Budget' + made'
    BY <1>1, <2>1, <2>3, <2>8 DEF x, y
  <2>11. per' = Per(live)' /\ made' <= per' /\ (made' > 0 => cand'[at'].alive)
    BY <1>0, <1>1, <2>1, <2>2, <2>4
  <2> QED BY <1>0, <2>1, <2>9, <2>10, <2>11 DEF Spent, WithinBudget
<1>7. CASE TurnEnds
  <2>1. /\ pc = "climb" /\ (~cand[at].alive \/ made = per) /\ made' = 0 /\ cand' = cand
        /\ round' = round /\ live' = live /\ per' = per /\ steps' = steps
        /\ \/ at + 1 < Starts /\ at' = at + 1 /\ pc' = "climb"
           \/ ~(at + 1 < Starts) /\ at' = 0 /\ pc' = "drop"
    BY <1>7 DEF TurnEnds
  <2>2. WithinBudget'
    BY <1>0, <2>1 DEF Spent, WithinBudget
  <2> DEFINE k == Cardinality(Ahead)
             n == Cardinality(From(at + 1))
             y == (round + 1) * Budget
  <2>3. /\ per = Per(live) /\ (made > 0 => cand[at].alive) /\ steps + k * per <= y + made
    BY <2>1 DEF Spent
  <2>4. /\ k \in Nat /\ (cand[at].alive => k >= 1 /\ n = k - 1) /\ (~cand[at].alive => n = k)
    BY <2>1, AheadPasses
  <2> HIDE DEF k, n
  <2>5. y \in Nat
    BY <1>0
  <2> HIDE DEF y
  <2>6. n \in Nat /\ steps + n * per <= y
    <3>1. CASE cand[at].alive
      <4>1. n \in Nat /\ k = n + 1 /\ made = per
        BY <2>1, <2>4, <3>1
      <4>2. k * per = n * per + per /\ n * per \in Nat
        BY <1>0, <4>1, TimesNext
      <4> QED BY <1>0, <2>3, <2>5, <4>1, <4>2
    <3>2. CASE ~cand[at].alive
      <4>1. n \in Nat /\ n = k /\ made = 0
        BY <1>0, <2>3, <2>4, <3>2
      <4> QED BY <2>3, <2>5, <4>1
    <3> QED BY <3>1, <3>2
  <2>7. CASE pc' = "climb"
    <3>1. Ahead' = From(at + 1)
      BY <2>1, <2>7 DEF Ahead, From, Alive
    <3>2. steps' + Cardinality(Ahead') * per' <= (round' + 1) * Budget' + made'
      <4>1. y + 0 = y
        BY <2>5
      <4> QED BY <1>1, <2>1, <2>6, <3>1, <4>1 DEF n, y
    <3>3. per' = Per(live)' /\ made' <= per' /\ ~(made' > 0)
      BY <1>0, <1>1, <2>1, <2>3
    <3> QED BY <2>2, <2>7, <3>2, <3>3 DEF Spent
  <2>8. CASE pc' = "drop"
    <3>1. n * per \in Nat
      BY <1>0, <2>6, TimesNext
    <3>2. steps <= y
      BY <1>0, <2>5, <2>6, <3>1
    <3>3. steps' <= (round' + 1) * Budget' /\ at' = 0 /\ made' = 0
      BY <1>1, <2>1, <2>8, <3>2 DEF y
    <3> QED BY <2>2, <2>8, <3>3 DEF Spent
  <2> QED BY <2>1, <2>7, <2>8
<1>8. CASE Drop
  <2>1. /\ pc = "drop" /\ at = 0 /\ made = 0 /\ steps <= (round + 1) * Budget /\ round + 1 <= Rounds
        /\ at' = 0 /\ made' = 0 /\ steps' = steps /\ round' = round + 1
    BY <1>8 DEF Drop, Spent, Halved
  <2>2. WithinBudget'
    BY <1>0, <2>1 DEF Spent, WithinBudget
  <2>3. CASE round + 1 < Rounds
    <3>1. /\ pc' = "climb" /\ per' = Per(live') /\ live' = Cardinality(Alive') /\ live' >= 1
          /\ live' \in Nat
      BY <1>0, <1>8, <2>3, DropLive DEF Drop, TypeOK
    <3>2. Ahead' = Alive'
      BY <2>1, AllAhead
    <3>3. steps + live' * Per(live') <= ((round + 1) + 1) * Budget
      <4> DEFINE r == round + 1
      <4>1. r \in Nat /\ steps <= r * Budget
        BY <1>0, <2>1
      <4> HIDE DEF r
      <4>2. steps + live' * Per(live') <= (r + 1) * Budget
        BY <1>0, <3>1, <4>1, RoundFits
      <4> QED BY <4>2 DEF r
    <3>4. steps' + Cardinality(Ahead') * per' <= (round' + 1) * Budget' + made'
      <4>1. ((round + 1) + 1) * Budget \in Nat
        BY <1>0
      <4> QED BY <1>1, <2>1, <3>1, <3>2, <3>3, <4>1
    <3>5. per' = Per(live)' /\ made' <= per' /\ ~(made' > 0)
      BY <1>0, <1>1, <2>1, <3>1 DEF TypeOK
    <3> QED BY <2>2, <3>1, <3>4, <3>5 DEF Spent
  <2>4. CASE ~(round + 1 < Rounds)
    <3>1. pc' = "pick" /\ round + 1 = Rounds
      BY <1>0, <1>8, <2>1, <2>4 DEF Drop
    <3>2. steps' <= Rounds' * Budget'
      BY <1>0, <1>1, <2>1, <3>1
    <3> QED BY <2>2, <3>1, <3>2 DEF Spent
  <2> QED BY <2>3, <2>4
<1> QED BY <1>2, <1>3, <1>4, <1>5, <1>6, <1>7, <1>8
        DEF Next, race, NothingToDo, NoMemory, InputFails, Begin, Draw, BurstMove, BurstWasted,
            BurstPriced, NextStart, Pick

\* The race ends with one candidate, and never outspends the caller.
THEOREM RaceInvariant == Spec => [](Halved /\ Spent)
<1>1. Init => Halved
  BY DEF Init, Halved
<1>2. Init => Spent
  BY InputsAssumption DEF Init, Spent, WithinBudget
<1> QED BY Invariance, NextHalved, NextSpent, <1>1, <1>2, PTL DEF Spec

\* RaceRules: complete codes, frozen symbols, one candidate in the last round, and no
\* more steps than the caller allowed.
THEOREM RaceRuled == Spec => []RaceRules
<1>1. IInv /\ Halved => OneLeft
  BY HalvedLeavesOne
<1>2. Spent => WithinBudget
  BY DEF Spent
<1>3. TypeOK /\ CodeComplete /\ FrozenStay /\ OneLeft /\ WithinBudget => RaceRules
  BY DEF RaceRules
<1> QED BY <1>1, <1>2, <1>3, Invariance, TypeCorrect, CodeAlwaysComplete, FrozenAlways, RaceInvariant, PTL

-----------------------------------------------------------------------------
\* From here on, pivco_build_table's lengths: one call, from any countable frequencies: their
\* total leaves no leaf deeper than the limiter has bins for.
Lengthening == (\E f \in [Symbols -> Nat] : Countable(f) /\ Gather(f)) \/ Build
LengthsSpec == LengthsInit /\ lens = Zeros /\ [][Lengthening]_<<lens, lengthsVars>>

\* A nonempty set of small numbers has a largest.
LEMMA MaxOf ==
  ASSUME NEW n \in Nat, NEW S \in SUBSET (1 .. n), S # {}
  PROVE  Max(S) \in S /\ \A y \in S : Max(S) >= y
<1> DEFINE W == {k \in Nat : \A x \in S : n - x <= k => \E m \in S : \A y \in S : m >= y}
<1>1. 0 \in W
  <2> SUFFICES ASSUME NEW x \in S, n - x <= 0 PROVE \E m \in S : \A y \in S : m >= y
    OBVIOUS
  <2>1. x = n
    OBVIOUS
  <2> QED BY <2>1
<1>2. ASSUME NEW k \in Nat, k \in W PROVE k + 1 \in W
  <2> SUFFICES ASSUME NEW x \in S, n - x <= k + 1 PROVE \E m \in S : \A y \in S : m >= y
    OBVIOUS
  <2>1. CASE \A y \in S : x >= y
    BY <2>1
  <2>2. CASE ~(\A y \in S : x >= y)
    <3>1. PICK y \in S : ~(x >= y)
      BY <2>2
    <3>2. n - y <= k
      BY <3>1
    <3> QED BY <1>2, <3>2
  <2> QED BY <2>1, <2>2
<1>3. PICK x \in S : n - x <= n
  <2>1. PICK x \in S : TRUE
    OBVIOUS
  <2>2. x \in 1 .. n
    OBVIOUS
  <2> QED BY <2>2
<1>4. n \in W
  <2> HIDE DEF W
  <2> QED BY <1>1, <1>2, NatInduction0
<1>5. \E m \in S : \A y \in S : m >= y
  BY <1>3, <1>4
<1> QED BY <1>5 DEF Max

\* The Kraft sums, as sums of shares.
Weights(c) == [l \in 1 .. MaxLen |-> c[l] * 2 ^ (MaxLen - l)]
IsKraftOf(h, c) ==
  h = [s \in SUBSET (1 .. MaxLen) |->
         IF s = {} THEN 0
         ELSE c[CHOOSE x \in s : TRUE] * 2 ^ (MaxLen - CHOOSE x \in s : TRUE)
                + h[s \ {CHOOSE x \in s : TRUE}]]

LEMMA KraftOfIsSum ==
  ASSUME NEW c
  PROVE  KraftOf(c) = SumOver(1 .. MaxLen, Weights(c))
<1> DEFINE M == 1 .. MaxLen
<1>0. IsFiniteSet(M)
  BY AlphabetAssumption, FS_Interval
<1>1. \A h : IsKraftOf(h, c) <=> IsSum(h, M, Weights(c))
  <2> SUFFICES ASSUME NEW h PROVE IsKraftOf(h, c) <=> IsSum(h, M, Weights(c))
    OBVIOUS
  <2> DEFINE f == [s \in SUBSET M |->
                     IF s = {} THEN 0
                     ELSE c[Picked(s)] * 2 ^ (MaxLen - Picked(s)) + h[s \ {Picked(s)}]]
             g == [s \in SUBSET M |->
                     IF s = {} THEN 0 ELSE Weights(c)[Picked(s)] + h[s \ {Picked(s)}]]
  <2>1. \A s \in SUBSET M : s # {} => Weights(c)[Picked(s)] = c[Picked(s)] * 2 ^ (MaxLen - Picked(s))
    BY DEF Weights, Picked
  <2>2. \A s \in SUBSET M : f[s] = g[s]
    <3> SUFFICES ASSUME NEW s \in SUBSET M PROVE f[s] = g[s]
      OBVIOUS
    <3>1. f[s] = IF s = {} THEN 0 ELSE c[Picked(s)] * 2 ^ (MaxLen - Picked(s)) + h[s \ {Picked(s)}]
      OBVIOUS
    <3>2. g[s] = IF s = {} THEN 0 ELSE Weights(c)[Picked(s)] + h[s \ {Picked(s)}]
      OBVIOUS
    <3> HIDE DEF f, g
    <3> QED BY <2>1, <3>1, <3>2, Zenon
  <2>3. f = [s \in SUBSET M |-> f[s]] /\ g = [s \in SUBSET M |-> g[s]]
    OBVIOUS
  <2>4. f = g
    <3> HIDE DEF f, g
    <3> QED BY <2>2, <2>3
  <2>5. IsKraftOf(h, c) <=> h = f
    BY Zenon DEF IsKraftOf, Picked
  <2>6. IsSum(h, M, Weights(c)) <=> h = g
    BY Zenon DEF IsSum, Picked
  <2> HIDE DEF f, g
  <2> QED BY <2>4, <2>5, <2>6
<1> DEFINE k == CHOOSE h : IsKraftOf(h, c)
<1>2. IsKraftOf(k, c)
  <2>1. \E h : IsKraftOf(h, c)
    BY <1>0, <1>1, SumExists
  <2> QED BY <2>1, Zenon
<1>3. KraftOf(c) = k[M]
  BY Zenon DEF KraftOf, MapThenSumSet, MapThenFoldSet, IsKraftOf
<1>4. M \in SUBSET M
  OBVIOUS
<1> HIDE DEF k, M
<1>5. k[M] = SumOver(M, Weights(c))
  BY <1>0, <1>1, <1>2, <1>4, TotalPart
<1> QED BY <1>3, <1>5 DEF M

CodeSum(ls, S) == MapThenSumSet(LAMBDA s : 2 ^ (MaxLen - ls[s]), S)
LengthShares(ls, S, n) == [s \in S |-> 2 ^ (n - ls[s])]
IsCodeSum(h, ls, S) ==
  h = [s \in SUBSET S |->
         IF s = {} THEN 0
         ELSE 2 ^ (MaxLen - ls[CHOOSE x \in s : TRUE]) + h[s \ {CHOOSE x \in s : TRUE}]]

LEMMA CodeSumIsSum ==
  ASSUME NEW ls, NEW S, IsFiniteSet(S)
  PROVE  CodeSum(ls, S) = SumOver(S, LengthShares(ls, S, MaxLen))
<1>1. \A h : IsCodeSum(h, ls, S) <=> IsSum(h, S, LengthShares(ls, S, MaxLen))
  <2> SUFFICES ASSUME NEW h PROVE IsCodeSum(h, ls, S) <=> IsSum(h, S, LengthShares(ls, S, MaxLen))
    OBVIOUS
  <2> DEFINE f == [s \in SUBSET S |->
                     IF s = {} THEN 0 ELSE 2 ^ (MaxLen - ls[Picked(s)]) + h[s \ {Picked(s)}]]
             g == [s \in SUBSET S |->
                     IF s = {} THEN 0 ELSE LengthShares(ls, S, MaxLen)[Picked(s)] + h[s \ {Picked(s)}]]
  <2>1. \A s \in SUBSET S : s # {} => LengthShares(ls, S, MaxLen)[Picked(s)] = 2 ^ (MaxLen - ls[Picked(s)])
    BY DEF LengthShares, Picked
  <2>2. \A s \in SUBSET S : f[s] = g[s]
    <3> SUFFICES ASSUME NEW s \in SUBSET S PROVE f[s] = g[s]
      OBVIOUS
    <3>1. f[s] = IF s = {} THEN 0 ELSE 2 ^ (MaxLen - ls[Picked(s)]) + h[s \ {Picked(s)}]
      OBVIOUS
    <3>2. g[s] = IF s = {} THEN 0 ELSE LengthShares(ls, S, MaxLen)[Picked(s)] + h[s \ {Picked(s)}]
      OBVIOUS
    <3> HIDE DEF f, g
    <3> QED BY <2>1, <3>1, <3>2, Zenon
  <2>3. f = [s \in SUBSET S |-> f[s]] /\ g = [s \in SUBSET S |-> g[s]]
    OBVIOUS
  <2>4. f = g
    <3> HIDE DEF f, g
    <3> QED BY <2>2, <2>3
  <2>5. IsCodeSum(h, ls, S) <=> h = f
    BY Zenon DEF IsCodeSum, Picked
  <2>6. IsSum(h, S, LengthShares(ls, S, MaxLen)) <=> h = g
    BY Zenon DEF IsSum, Picked
  <2> HIDE DEF f, g
  <2> QED BY <2>4, <2>5, <2>6
<1> DEFINE k == CHOOSE h : IsCodeSum(h, ls, S)
<1>2. IsCodeSum(k, ls, S)
  <2>1. \E h : IsCodeSum(h, ls, S)
    BY <1>1, SumExists
  <2> QED BY <2>1, Zenon
<1>3. CodeSum(ls, S) = k[S]
  BY Zenon DEF CodeSum, MapThenSumSet, MapThenFoldSet, IsCodeSum
<1>4. S \in SUBSET S
  OBVIOUS
<1> HIDE DEF k
<1>5. k[S] = SumOver(S, LengthShares(ls, S, MaxLen))
  BY <1>1, <1>2, <1>4, TotalPart
<1> QED BY <1>3, <1>5

-----------------------------------------------------------------------------
\* The sorted leaves are the used symbols, each at its place.
Placed(f, U, p) ==
  /\ p \in Bijection(U, 1 .. Cardinality(U))
  /\ Leaves(f) \in [1 .. Cardinality(U) -> U] /\ Len(Leaves(f)) = Cardinality(U)
  /\ \A s \in U : Leaves(f)[p[s]] = s
  /\ \A i, j \in 1 .. Cardinality(U) : i <= j => f[Leaves(f)[i]] <= f[Leaves(f)[j]]

LEMMA LeavesNumber ==
  ASSUME NEW f \in [Symbols -> Nat], NEW U, U = {s \in Symbols : f[s] > 0}
  PROVE  IsFiniteSet(U) /\ Cardinality(U) \in Nat /\ \E p : Placed(f, U, p)
<1>1. U \subseteq Symbols /\ \A s \in U : s \in Nat /\ f[s] \in Nat
  BY AlphabetAssumption
<1>2. IsFiniteSet(U) /\ Cardinality(U) \in Nat
  BY <1>1, AlphabetAssumption, FS_Subset, FS_CardinalityType
<1> DEFINE R == {pr \in U \X U : Before(f, pr[1], pr[2])}
           p == [s \in U |-> Cardinality(Upto(U, R, s))]
           n == Cardinality(U)
<1>3. \A s, t \in U : <<s, t>> \in R <=> Before(f, s, t)
  OBVIOUS
<1>4. IsOrder(U, R)
  <2> HIDE DEF R
  <2>1. /\ \A s \in U : Before(f, s, s)
        /\ \A s, t \in U : Before(f, s, t) \/ Before(f, t, s)
        /\ \A s, t \in U : Before(f, s, t) /\ Before(f, t, s) => s = t
    BY <1>1 DEF Before
  <2>2. \A s, t, u \in U : Before(f, s, t) /\ Before(f, t, u) => Before(f, s, u)
    BY <1>1 DEF Before
  <2> QED BY <1>3, <2>1, <2>2 DEF IsOrder
<1>5. p \in Bijection(U, 1 .. n) /\ \A s, t \in U : s # t /\ <<s, t>> \in R => p[s] < p[t]
  <2>1. p = [s \in U |-> Cardinality(Upto(U, R, s))]
    OBVIOUS
  <2> HIDE DEF R, p
  <2> QED BY <1>2, <1>4, <2>1, PlacesNumber
<1>6. \A s \in U : p[s] = Cardinality({t \in U : Before(f, t, s)})
  <2> SUFFICES ASSUME NEW s \in U PROVE p[s] = Cardinality({t \in U : Before(f, t, s)})
    OBVIOUS
  <2>1. Upto(U, R, s) = {t \in U : Before(f, t, s)}
    <3> HIDE DEF R
    <3> QED BY <1>3 DEF Upto
  <2>2. p[s] = Cardinality(Upto(U, R, s))
    OBVIOUS
  <2> QED BY <2>1, <2>2
<1> HIDE DEF p, R
<1>7. Leaves(f) = [i \in 1 .. n |-> CHOOSE s \in U : Cardinality({t \in U : Before(f, t, s)}) = i]
  BY DEF Leaves
<1>8. \A s, t \in U : p[s] = p[t] => s = t
  BY <1>5 DEF Bijection, Injection, IsInjective
<1>9. \A i \in 1 .. n : \E s \in U : p[s] = i
  BY <1>5 DEF Bijection, Surjection
<1>10. \A s \in U : p[s] \in 1 .. n
  BY <1>5 DEF Bijection, Injection
<1>11. \A i \in 1 .. n : Leaves(f)[i] \in U /\ p[Leaves(f)[i]] = i
  <2> SUFFICES ASSUME NEW i \in 1 .. n PROVE Leaves(f)[i] \in U /\ p[Leaves(f)[i]] = i
    OBVIOUS
  <2>1. Leaves(f)[i] = CHOOSE s \in U : Cardinality({t \in U : Before(f, t, s)}) = i
    BY <1>7
  <2>2. \E s \in U : Cardinality({t \in U : Before(f, t, s)}) = i
    BY <1>6, <1>9
  <2>3. Leaves(f)[i] \in U /\ Cardinality({t \in U : Before(f, t, Leaves(f)[i])}) = i
    BY <2>1, <2>2
  <2> QED BY <1>6, <2>3
<1>12. Leaves(f) \in [1 .. n -> U]
  <2> HIDE DEF n
  <2>1. Leaves(f) = [i \in 1 .. n |-> Leaves(f)[i]]
    BY <1>7
  <2> QED BY <1>11, <2>1
<1>13. Len(Leaves(f)) = n
  <2>1. ASSUME NEW k \in Nat, NEW L \in [1 .. k -> U] PROVE Len(L) = k
    OBVIOUS
  <2>2. n \in Nat
    BY <1>2
  <2> HIDE DEF n
  <2> QED BY <1>12, <2>1, <2>2
<1>14. \A s \in U : Leaves(f)[p[s]] = s
  BY <1>8, <1>10, <1>11
<1>15. ASSUME NEW i \in 1 .. n, NEW j \in 1 .. n, i <= j PROVE f[Leaves(f)[i]] <= f[Leaves(f)[j]]
  <2>1. PICK s \in U, t \in U : s = Leaves(f)[i] /\ t = Leaves(f)[j] /\ p[s] = i /\ p[t] = j
    BY <1>11
  <2>2. SUFFICES ASSUME ~(f[s] <= f[t]) PROVE FALSE
    BY <2>1
  <2>3. Before(f, t, s) /\ s # t
    BY <1>1, <2>2 DEF Before
  <2>4. p[t] < p[s]
    BY <1>3, <1>5, <2>3
  <2>5. i \in Nat /\ j \in Nat
    BY <1>2
  <2> QED BY <1>15, <2>1, <2>4, <2>5
<1> QED BY <1>2, <1>5, <1>12, <1>13, <1>14, <1>15 DEF Placed

-----------------------------------------------------------------------------
\* The depths below the root of a forest whose parents come later.
IsDepth(d, q, n) == d = [i \in 1 .. n |-> IF i = n THEN 0 ELSE d[q[i]] + 1]
Upward(q, n) == \A i \in 1 .. n : i # n => q[i] \in (i + 1) .. n
Topmost(n, k) == {i \in 1 .. n : i > n - k}
IsDepthOn(d, q, n, k) == d = [i \in Topmost(n, k) |-> IF i = n THEN 0 ELSE d[q[i]] + 1]

LEMMA DepthExists ==
  ASSUME NEW n \in Nat, NEW q, Upward(q, n)
  PROVE  \E d : IsDepth(d, q, n)
<1> DEFINE W == {k \in Nat : \E d : IsDepthOn(d, q, n, k)}
<1>1. 0 \in W
  <2>1. Topmost(n, 0) = {}
    BY DEF Topmost
  <2> DEFINE d == [i \in Topmost(n, 0) |-> 0]
  <2>2. IsDepthOn(d, q, n, 0)
    BY <2>1 DEF IsDepthOn
  <2> HIDE DEF d
  <2> QED BY <2>2
<1>2. ASSUME NEW k \in Nat, k \in W PROVE k + 1 \in W
  <2>1. PICK d : IsDepthOn(d, q, n, k)
    BY <1>2
  <2> DEFINE e == [i \in Topmost(n, k + 1) |-> IF i = n THEN 0 ELSE d[q[i]] + 1]
  <2>2. \A i \in Topmost(n, k) : i \in Topmost(n, k + 1) /\ e[i] = d[i]
    <3> SUFFICES ASSUME NEW i \in Topmost(n, k) PROVE i \in Topmost(n, k + 1) /\ e[i] = d[i]
      OBVIOUS
    <3>1. i \in Topmost(n, k + 1)
      BY DEF Topmost
    <3>2. d[i] = IF i = n THEN 0 ELSE d[q[i]] + 1
      BY <2>1 DEF IsDepthOn
    <3>3. e[i] = IF i = n THEN 0 ELSE d[q[i]] + 1
      BY <3>1
    <3> QED BY <3>1, <3>2, <3>3
  <2>3. \A i \in Topmost(n, k + 1) : i # n => q[i] \in Topmost(n, k)
    <3> SUFFICES ASSUME NEW i \in Topmost(n, k + 1), i # n PROVE q[i] \in Topmost(n, k)
      OBVIOUS
    <3>1. i \in 1 .. n /\ i > n - (k + 1)
      BY DEF Topmost
    <3>2. q[i] \in (i + 1) .. n
      BY <3>1 DEF Upward
    <3> QED BY <3>1, <3>2 DEF Topmost
  <2> DEFINE r == [i \in Topmost(n, k + 1) |-> IF i = n THEN 0 ELSE e[q[i]] + 1]
  <2>4. \A i \in Topmost(n, k + 1) : e[i] = r[i]
    <3> SUFFICES ASSUME NEW i \in Topmost(n, k + 1) PROVE e[i] = r[i]
      OBVIOUS
    <3>1. e[i] = IF i = n THEN 0 ELSE d[q[i]] + 1
      OBVIOUS
    <3>2. r[i] = IF i = n THEN 0 ELSE e[q[i]] + 1
      OBVIOUS
    <3>3. i # n => e[q[i]] = d[q[i]]
      BY <2>2, <2>3
    <3> HIDE DEF e, r
    <3> QED BY <3>1, <3>2, <3>3
  <2>5. e = [i \in Topmost(n, k + 1) |-> e[i]] /\ r = [i \in Topmost(n, k + 1) |-> r[i]]
    OBVIOUS
  <2>6. e = r
    <3> HIDE DEF e, r
    <3> QED BY <2>4, <2>5
  <2>7. IsDepthOn(e, q, n, k + 1)
    <3> HIDE DEF e
    <3> QED BY <2>6 DEF IsDepthOn
  <2> HIDE DEF e, r
  <2> QED BY <2>7
<1>3. n \in W
  <2> HIDE DEF W
  <2> QED BY <1>1, <1>2, NatInduction0
<1>4. Topmost(n, n) = 1 .. n
  BY DEF Topmost
<1> QED BY <1>3, <1>4 DEF IsDepthOn, IsDepth

\* A depth is a number, at most the number of nodes that come later.
LEMMA DepthType ==
  ASSUME NEW n \in Nat \ {0}, NEW q, Upward(q, n), NEW d, IsDepth(d, q, n)
  PROVE  /\ d[n] = 0 /\ \A i \in 1 .. n : d[i] \in 0 .. (n - i)
         /\ \A i \in 1 .. n : i # n => d[i] = d[q[i]] + 1 /\ d[i] >= 1
<1>0. \A i \in 1 .. n : d[i] = IF i = n THEN 0 ELSE d[q[i]] + 1
  BY DEF IsDepth
<1> DEFINE W == {k \in Nat : \A i \in Topmost(n, k) : d[i] \in 0 .. (n - i)}
<1>1. 0 \in W
  BY DEF Topmost
<1>2. ASSUME NEW k \in Nat, k \in W PROVE k + 1 \in W
  <2> SUFFICES ASSUME NEW i \in Topmost(n, k + 1) PROVE d[i] \in 0 .. (n - i)
    OBVIOUS
  <2>1. i \in 1 .. n /\ i > n - (k + 1)
    BY DEF Topmost
  <2>2. CASE i = n
    BY <1>0, <2>1, <2>2
  <2>3. CASE i # n
    <3>1. q[i] \in (i + 1) .. n
      BY <2>1, <2>3 DEF Upward
    <3>2. q[i] \in Topmost(n, k)
      BY <2>1, <3>1 DEF Topmost
    <3>3. d[q[i]] \in 0 .. (n - q[i])
      BY <1>2, <3>2
    <3>4. d[i] = d[q[i]] + 1
      BY <1>0, <2>1, <2>3
    <3> QED BY <2>1, <3>1, <3>3, <3>4
  <2> QED BY <2>2, <2>3
<1>3. n \in W
  <2> HIDE DEF W
  <2> QED BY <1>1, <1>2, NatInduction0
<1>4. \A i \in 1 .. n : d[i] \in 0 .. (n - i)
  BY <1>3 DEF Topmost
<1>5. ASSUME NEW i \in 1 .. n, i # n PROVE d[i] = d[q[i]] + 1 /\ d[i] >= 1
  <2>1. q[i] \in 1 .. n
    <3>1. q[i] \in (i + 1) .. n
      BY <1>5 DEF Upward
    <3> QED BY <3>1
  <2>2. d[q[i]] \in Nat
    BY <1>4, <2>1
  <2> QED BY <1>0, <1>5, <2>2
<1> QED BY <1>0, <1>4, <1>5

\* A tree of m leaves in which every other node weighs what its two children do: the root
\* weighs what the leaves do.
Children(q, n, k) == {i \in 1 .. n : i # n /\ q[i] = k}
Adds(q, n, m, w) ==
  \A k \in (m + 1) .. n : \E a, b : a # b /\ Children(q, n, k) = {a, b} /\ w[k] = w[a] + w[b]
Parents(q, n, m) == \A i \in 1 .. n : i # n => q[i] > m
Frontier(q, n, k) == {i \in 1 .. n : i <= k /\ (i = n \/ q[i] > k)}

LEMMA LeavesSum ==
  ASSUME NEW m \in Nat \ {0}, NEW n \in Nat, m < n, NEW q, Upward(q, n), Parents(q, n, m),
         NEW w, Adds(q, n, m, w), \A i \in 1 .. n : w[i] \in Int
  PROVE  SumOver(1 .. m, w) = w[n]
<1>1. \A i \in 1 .. n : w[i] \in Int
  OBVIOUS
<1>2. /\ SumOver({}, w) = 0
      /\ \A T \in SUBSET (1 .. n) : SumOver(T, w) \in Int
      /\ \A T \in SUBSET (1 .. n) : \A i \in T : SumOver(T, w) = w[i] + SumOver(T \ {i}, w)
  <2>1. IsFiniteSet(1 .. n)
    BY FS_Interval
  <2>2. PICK S : S = 1 .. n
    OBVIOUS
  <2> QED BY <1>1, <2>1, <2>2, TotalRules
<1>3. \A k \in 1 .. n : Frontier(q, n, k) \in SUBSET (1 .. n)
  BY DEF Frontier
<1> DEFINE W == {k \in Nat : k <= n - m => SumOver(Frontier(q, n, n - k), w) = w[n]}
<1>4. 0 \in W
  <2>1. Frontier(q, n, n) = {n}
    BY DEF Frontier, Upward
  <2>2. SumOver({n}, w) = w[n] + SumOver({n} \ {n}, w)
    <3>1. {n} \in SUBSET (1 .. n) /\ n \in {n}
      OBVIOUS
    <3> QED BY <1>2, <3>1
  <2>3. {n} \ {n} = {} /\ w[n] \in Int
    BY <1>1
  <2>4. SumOver({n}, w) = w[n]
    BY <1>2, <2>2, <2>3
  <2>5. n - 0 = n
    OBVIOUS
  <2> QED BY <2>1, <2>4, <2>5
<1>5. ASSUME NEW j \in Nat, j \in W PROVE j + 1 \in W
  <2> SUFFICES ASSUME j + 1 <= n - m PROVE SumOver(Frontier(q, n, n - (j + 1)), w) = w[n]
    OBVIOUS
  <2>1. PICK k \in (m + 1) .. n : k = n - j /\ k - 1 = n - (j + 1)
    OBVIOUS
  <2>2. SumOver(Frontier(q, n, k), w) = w[n]
    BY <1>5, <2>1
  <2>3. PICK a, b : a # b /\ Children(q, n, k) = {a, b} /\ w[k] = w[a] + w[b]
    BY DEF Adds
  <2>4. /\ a \in 1 .. n /\ a # n /\ q[a] = k /\ b \in 1 .. n /\ b # n /\ q[b] = k
        /\ \A i \in 1 .. n : i # n /\ q[i] = k => i \in {a, b}
    BY <2>3 DEF Children
  <2>5. a < k /\ b < k
    <3>1. q[a] \in (a + 1) .. n /\ q[b] \in (b + 1) .. n
      BY <2>4 DEF Upward
    <3> QED BY <2>4, <3>1
  <2> DEFINE F == Frontier(q, n, k)
             G == Frontier(q, n, k - 1)
  <2>6. \A i \in 1 .. n : i # n => q[i] \in (i + 1) .. n
    BY DEF Upward
  <2>7. k \in F /\ a \in G /\ b \in G \ {a}
    <3>1. k \in 1 .. n /\ (k = n \/ q[k] > k)
      BY <2>6
    <3>2. a <= k - 1 /\ q[a] > k - 1 /\ b <= k - 1 /\ q[b] > k - 1
      BY <2>4, <2>5
    <3> QED BY <2>3, <2>4, <3>1, <3>2 DEF Frontier
  <2>8. (G \ {a}) \ {b} = F \ {k}
    <3>1. \A i \in 1 .. n : i \in G /\ i # a /\ i # b => i \in F /\ i # k
      <4> SUFFICES ASSUME NEW i \in 1 .. n, i \in G, i # a, i # b PROVE i \in F /\ i # k
        OBVIOUS
      <4>1. i <= k - 1 /\ (i = n \/ q[i] > k - 1)
        BY DEF Frontier
      <4>2. i = n \/ q[i] # k
        BY <2>4
      <4>3. i # n => q[i] \in Int /\ k \in Int
        BY <2>1, <2>6
      <4>4. i = n \/ q[i] > k
        BY <4>1, <4>2, <4>3
      <4> QED BY <4>1, <4>4 DEF Frontier
    <3>2. \A i \in 1 .. n : i \in F /\ i # k => i \in G /\ i # a /\ i # b
      <4> SUFFICES ASSUME NEW i \in 1 .. n, i \in F, i # k PROVE i \in G /\ i # a /\ i # b
        OBVIOUS
      <4>1. i <= k /\ (i = n \/ q[i] > k)
        BY DEF Frontier
      <4>2. i <= k - 1 /\ (i = n \/ q[i] > k - 1)
        BY <2>6, <4>1
      <4>3. i # a /\ i # b
        BY <2>4, <4>1
      <4> QED BY <4>2, <4>3 DEF Frontier
    <3>3. F \subseteq 1 .. n /\ G \subseteq 1 .. n
      BY DEF Frontier
    <3> HIDE DEF F, G
    <3> QED BY <3>1, <3>2, <3>3
  <2>9. SumOver(F, w) = w[k] + SumOver(F \ {k}, w)
    <3>1. F \in SUBSET (1 .. n)
      BY DEF Frontier
    <3> HIDE DEF F
    <3> QED BY <1>2, <2>7, <3>1
  <2>10. SumOver(G, w) = w[a] + SumOver(G \ {a}, w) /\ SumOver(G \ {a}, w) = w[b] + SumOver((G \ {a}) \ {b}, w)
    <3>1. G \in SUBSET (1 .. n) /\ G \ {a} \in SUBSET (1 .. n)
      BY DEF Frontier
    <3> HIDE DEF G
    <3> QED BY <1>2, <2>7, <3>1
  <2>11. w[k] = w[a] + w[b] /\ w[a] \in Int /\ w[b] \in Int
    BY <1>1, <2>3, <2>4
  <2>12. SumOver(F \ {k}, w) \in Int
    <3>1. F \ {k} \in SUBSET (1 .. n)
      BY DEF Frontier
    <3> HIDE DEF F
    <3> QED BY <1>2, <3>1
  <2> HIDE DEF F, G
  <2>13. SumOver(G, w) = SumOver(F, w)
    BY <2>8, <2>9, <2>10, <2>11, <2>12
  <2> QED BY <2>1, <2>2, <2>13 DEF F, G
<1>6. n - m \in W
  <2>1. n - m \in Nat
    OBVIOUS
  <2> HIDE DEF W
  <2> QED BY <1>4, <1>5, <2>1, NatInduction0
<1>7. Frontier(q, n, m) = 1 .. m
  BY DEF Frontier, Parents
<1>8. n - (n - m) = m /\ n - m <= n - m
  OBVIOUS
<1> QED BY <1>6, <1>7, <1>8

\* Where every other node is the parent of exactly two, the shares of the leaves fill the
\* code.
Binary(q, n, m) == \A k \in (m + 1) .. n : \E a, b : a # b /\ Children(q, n, k) = {a, b}

LEMMA LeavesFill ==
  ASSUME NEW m \in Nat \ {0}, NEW n \in Nat, m < n, NEW q, Upward(q, n), Binary(q, n, m),
         Parents(q, n, m), NEW d, IsDepth(d, q, n), NEW x \in Nat, x >= n,
         NEW w, \A i \in 1 .. n : w[i] = 2 ^ (x - d[i])
  PROVE  SumOver(1 .. m, w) = 2 ^ x
<1>0. /\ d[n] = 0 /\ \A i \in 1 .. n : d[i] \in 0 .. (n - i)
      /\ \A i \in 1 .. n : i # n => d[i] = d[q[i]] + 1
  <2>1. n \in Nat \ {0}
    OBVIOUS
  <2> QED BY <2>1, DepthType
<1>1. \A i \in 1 .. n : w[i] \in Int
  <2> SUFFICES ASSUME NEW i \in 1 .. n PROVE w[i] \in Int
    OBVIOUS
  <2>1. x - d[i] \in Nat
    BY <1>0
  <2> QED BY <2>1, PowerIsPositive
<1>2. ASSUME NEW k \in (m + 1) .. n
      PROVE  \E a, b : a # b /\ Children(q, n, k) = {a, b} /\ w[k] = w[a] + w[b]
  <2>1. PICK a, b : a # b /\ Children(q, n, k) = {a, b}
    BY DEF Binary
  <2>2. a \in 1 .. n /\ a # n /\ q[a] = k /\ b \in 1 .. n /\ b # n /\ q[b] = k
    BY <2>1 DEF Children
  <2>3. d[a] = d[k] + 1 /\ d[b] = d[k] + 1
    BY <1>0, <2>2
  <2>4. d[a] \in Nat /\ x - d[a] \in Nat /\ d[k] \in Nat /\ k \in 1 .. n
    <3>1. k \in 1 .. n /\ d[a] \in 0 .. (n - a) /\ d[k] \in 0 .. (n - k)
      BY <1>0, <2>2
    <3> QED BY <2>2, <3>1
  <2>5. x - d[k] = (x - d[a]) + 1 /\ x - d[b] = x - d[a]
    BY <2>3, <2>4
  <2>6. 2 ^ ((x - d[a]) + 1) = 2 * 2 ^ (x - d[a]) /\ 2 ^ (x - d[a]) \in Nat
    BY <2>4, PowerDoubles, PowerIsPositive
  <2>7. w[a] = 2 ^ (x - d[a]) /\ w[b] = 2 ^ (x - d[b]) /\ w[k] = 2 ^ (x - d[k])
    BY <2>2, <2>4
  <2>8. w[b] = 2 ^ (x - d[a]) /\ w[k] = 2 ^ ((x - d[a]) + 1)
    BY <2>5, <2>7
  <2>9. w[k] = w[a] + w[b]
    BY <2>6, <2>7, <2>8
  <2> QED BY <2>1, <2>9
<1>3. Adds(q, n, m, w)
  BY <1>2 DEF Adds
<1>4. SumOver(1 .. m, w) = w[n]
  BY <1>1, <1>3, LeavesSum
<1>5. w[n] = 2 ^ x
  <2>1. n \in 1 .. n /\ x - d[n] = x
    BY <1>0
  <2>2. w[n] = 2 ^ (x - d[n])
    BY <2>1
  <2> QED BY <2>1, <2>2
<1> QED BY <1>4, <1>5

-----------------------------------------------------------------------------
\* While the queues are merged: what left a queue has a later node as its parent, which
\* no other node but one has; what did not has none.
Nodes == 2 * NumUsed - 1
Consumed(l, h, i) == i \in 1 .. (l - 1) \/ i \in (NumUsed + 1) .. (h - 1)
Heads(l, h) == l \in 1 .. (NumUsed + 1) /\ h \in (NumUsed + 1) .. (Len(nfreq) + 1)
Out(l, h) == (l - 1) + (h - NumUsed - 1)
HasParent(l, h, i) ==
  IF Consumed(l, h, i) THEN parent[i] \in (i + 1) .. Len(nfreq) /\ parent[i] > NumUsed
  ELSE parent[i] = 0
HasTwo(k) == \E a, b : a # b /\ {i \in 1 .. Nodes : parent[i] = k} = {a, b}
Merging ==
  /\ NumUsed \in Nat /\ NumUsed >= 2
  /\ nfreq \in Seq(Nat) /\ Len(nfreq) \in NumUsed .. Nodes
  /\ Heads(li, ih) /\ Out(li, ih) = 2 * (Len(nfreq) - NumUsed)
  /\ parent \in [1 .. Nodes -> Nat]
  /\ \A i \in 1 .. Nodes : HasParent(li, ih, i)
  /\ \A k \in (NumUsed + 1) .. Len(nfreq) : HasTwo(k)

\* Taking the lighter head takes a node that was there, and no other.
Next1(l, h) == IF LeafNext(l, h) THEN l + 1 ELSE l
Next2(l, h) == IF LeafNext(l, h) THEN h ELSE h + 1
Taken(l, h) == IF LeafNext(l, h) THEN l ELSE h

LEMMA HeadTaken ==
  ASSUME NumUsed \in Nat, Len(nfreq) \in Nat, NumUsed <= Len(nfreq), NEW l, NEW h, Heads(l, h),
         Out(l, h) < Len(nfreq)
  PROVE  /\ Taken(l, h) \in 1 .. Len(nfreq) /\ ~Consumed(l, h, Taken(l, h))
         /\ Heads(Next1(l, h), Next2(l, h)) /\ Out(Next1(l, h), Next2(l, h)) = Out(l, h) + 1
         /\ \A i \in Nat : Consumed(Next1(l, h), Next2(l, h), i)
                             <=> (Consumed(l, h, i) \/ i = Taken(l, h))
<1>1. l \in 1 .. (NumUsed + 1) /\ h \in (NumUsed + 1) .. (Len(nfreq) + 1)
  BY DEF Heads
<1>2. CASE LeafNext(l, h)
  <2>1. l <= NumUsed
    BY <1>2 DEF LeafNext
  <2>2. Taken(l, h) = l /\ Next1(l, h) = l + 1 /\ Next2(l, h) = h
    BY <1>2 DEF Taken, Next1, Next2
  <2>3. /\ l \in 1 .. Len(nfreq) /\ ~Consumed(l, h, l)
        /\ Heads(l + 1, h) /\ Out(l + 1, h) = Out(l, h) + 1
    BY <1>1, <2>1 DEF Consumed, Heads, Out
  <2>4. \A i \in Nat : Consumed(l + 1, h, i) <=> (Consumed(l, h, i) \/ i = l)
    BY <1>1, <2>1 DEF Consumed
  <2> QED BY <2>2, <2>3, <2>4
<1>3. CASE ~LeafNext(l, h)
  <2>1. l > NumUsed \/ h <= Len(nfreq)
    BY <1>1, <1>3 DEF LeafNext
  <2>2. h <= Len(nfreq)
    BY <1>1, <2>1 DEF Out
  <2>3. Taken(l, h) = h /\ Next1(l, h) = l /\ Next2(l, h) = h + 1
    BY <1>3 DEF Taken, Next1, Next2
  <2>4. /\ h \in 1 .. Len(nfreq) /\ ~Consumed(l, h, h)
        /\ Heads(l, h + 1) /\ Out(l, h + 1) = Out(l, h) + 1
    BY <1>1, <2>2 DEF Consumed, Heads, Out
  <2>5. \A i \in Nat : Consumed(l, h + 1, i) <=> (Consumed(l, h, i) \/ i = h)
    BY <1>1, <2>2 DEF Consumed
  <2> QED BY <2>3, <2>4, <2>5
<1> QED BY <1>2, <1>3

\* The queues: leaves in order of weight, internal nodes too, and a weight m that no node
\* still queued is below and no internal node more than twice.
SortedOn(w, S) == \A i, j \in S : i <= j => w[i] <= w[j]
Apart(l, h, w, m) ==
  /\ \A i \in 1 .. Len(w) : ~Consumed(l, h, i) => w[i] >= m
  /\ \A i \in (NumUsed + 1) .. Len(w) : w[i] <= 2 * m
Queued ==
  /\ SortedOn(nfreq, 1 .. NumUsed) /\ SortedOn(nfreq, (NumUsed + 1) .. Len(nfreq))
  /\ \E m \in Nat : Apart(li, ih, nfreq, m)

\* The head taken is no heavier than any node still queued.
LEMMA HeadLightest ==
  ASSUME NumUsed \in Nat, nfreq \in Seq(Nat), NumUsed <= Len(nfreq), NEW l, NEW h, Heads(l, h),
         Out(l, h) < Len(nfreq), SortedOn(nfreq, 1 .. NumUsed),
         SortedOn(nfreq, (NumUsed + 1) .. Len(nfreq)),
         NEW i \in 1 .. Len(nfreq), ~Consumed(l, h, i)
  PROVE  nfreq[Taken(l, h)] <= nfreq[i]
<1>1. /\ l \in 1 .. (NumUsed + 1) /\ h \in (NumUsed + 1) .. (Len(nfreq) + 1) /\ Len(nfreq) \in Nat
      /\ \A k \in 1 .. Len(nfreq) : nfreq[k] \in Nat
  BY DEF Heads
<1>2. IF i <= NumUsed THEN l <= i ELSE h <= i
  BY <1>1 DEF Consumed
<1>3. CASE i <= NumUsed
  <2>1. nfreq[l] <= nfreq[i] /\ l <= NumUsed /\ l \in 1 .. Len(nfreq)
    BY <1>1, <1>2, <1>3 DEF SortedOn
  <2>2. CASE LeafNext(l, h)
    BY <2>1, <2>2 DEF Taken
  <2>3. CASE ~LeafNext(l, h)
    <3>1. h <= Len(nfreq) /\ ~(nfreq[l] <= nfreq[h])
      BY <1>1, <2>1, <2>3 DEF LeafNext
    <3>2. nfreq[h] \in Nat /\ nfreq[l] \in Nat /\ nfreq[i] \in Nat
      BY <1>1, <2>1, <3>1
    <3> QED BY <2>1, <2>3, <3>1, <3>2 DEF Taken
  <2> QED BY <2>2, <2>3
<1>4. CASE ~(i <= NumUsed)
  <2>1. nfreq[h] <= nfreq[i] /\ h <= Len(nfreq) /\ h \in 1 .. Len(nfreq)
    BY <1>1, <1>2, <1>4 DEF SortedOn
  <2>2. CASE ~LeafNext(l, h)
    BY <2>1, <2>2 DEF Taken
  <2>3. CASE LeafNext(l, h)
    <3>1. l <= NumUsed /\ nfreq[l] <= nfreq[h]
      BY <1>1, <2>1, <2>3 DEF LeafNext
    <3>2. nfreq[h] \in Nat /\ nfreq[l] \in Nat /\ nfreq[i] \in Nat
      BY <1>1, <2>1, <3>1
    <3> QED BY <2>1, <2>3, <3>1, <3>2 DEF Taken
  <2> QED BY <2>2, <2>3
<1> QED BY <1>3, <1>4

\* A turn takes two nodes and makes their parent.
LEMMA TurnOfMerge ==
  ASSUME Merging, MergeTwo
  PROVE  \E a \in 1 .. Len(nfreq), b \in 1 .. Len(nfreq), w \in Nat :
           /\ a # b /\ ~Consumed(li, ih, a) /\ ~Consumed(li, ih, b)
           /\ Heads(li', ih') /\ Out(li', ih') = Out(li, ih) + 2
           /\ \A i \in Nat : Consumed(li', ih', i) <=> (Consumed(li, ih, i) \/ i = a \/ i = b)
           /\ nfreq' = Append(nfreq, w)
           /\ parent' = [parent EXCEPT ![a] = Len(nfreq) + 1, ![b] = Len(nfreq) + 1]
           /\ Len(nfreq) < Nodes /\ UNCHANGED <<freq, phase, lens, count, kraft>>
           /\ w = nfreq[a] + nfreq[b]
           /\ SortedOn(nfreq, 1 .. NumUsed) /\ SortedOn(nfreq, (NumUsed + 1) .. Len(nfreq)) =>
                /\ nfreq[a] <= nfreq[b]
                /\ \A i \in 1 .. Len(nfreq) : ~Consumed(li', ih', i) => nfreq[b] <= nfreq[i]
<1>0. /\ NumUsed \in Nat /\ NumUsed >= 2 /\ nfreq \in Seq(Nat) /\ Len(nfreq) \in NumUsed .. Nodes
      /\ Heads(li, ih) /\ Out(li, ih) = 2 * (Len(nfreq) - NumUsed)
  BY DEF Merging
<1>1. Len(nfreq) < Nodes /\ Nodes = 2 * NumUsed - 1 /\ Len(nfreq) \in Nat /\ NumUsed <= Len(nfreq)
  BY <1>0 DEF MergeTwo, Nodes
<1> DEFINE a == Taken(li, ih)
           l1 == Next1(li, ih)
           h1 == Next2(li, ih)
           b == Taken(l1, h1)
<1>2. Out(li, ih) + 2 <= Len(nfreq) /\ Out(li, ih) \in Nat
  BY <1>0, <1>1
<1>3. /\ a \in 1 .. Len(nfreq) /\ ~Consumed(li, ih, a)
      /\ Heads(l1, h1) /\ Out(l1, h1) = Out(li, ih) + 1
      /\ \A i \in Nat : Consumed(l1, h1, i) <=> (Consumed(li, ih, i) \/ i = a)
  BY <1>0, <1>1, <1>2, HeadTaken
<1>4. /\ li' = Next1(l1, h1) /\ ih' = Next2(l1, h1)
      /\ nfreq' = Append(nfreq, nfreq[a] + nfreq[b])
      /\ parent' = [parent EXCEPT ![a] = Len(nfreq) + 1, ![b] = Len(nfreq) + 1]
      /\ UNCHANGED <<freq, phase, lens, count, kraft>>
  BY DEF MergeTwo, Taken, Next1, Next2
<1>5. /\ b \in 1 .. Len(nfreq) /\ ~Consumed(l1, h1, b)
      /\ Heads(li', ih') /\ Out(li', ih') = Out(l1, h1) + 1
      /\ \A i \in Nat : Consumed(li', ih', i) <=> (Consumed(l1, h1, i) \/ i = b)
  <2>1. Out(l1, h1) < Len(nfreq)
    BY <1>1, <1>2, <1>3
  <2> HIDE DEF l1, h1
  <2> QED BY <1>1, <1>0, <1>3, <1>4, <2>1, HeadTaken
<1> HIDE DEF a, b, l1, h1
<1>6. nfreq[a] + nfreq[b] \in Nat
  <2>1. nfreq[a] \in Nat /\ nfreq[b] \in Nat
    BY <1>0, <1>3, <1>5
  <2> QED BY <2>1
<1>7. a # b /\ ~Consumed(li, ih, b)
  BY <1>3, <1>5
<1>8. Out(li', ih') = Out(li, ih) + 2
  BY <1>2, <1>3, <1>5
<1>9. \A i \in Nat : Consumed(li', ih', i) <=> (Consumed(li, ih, i) \/ i = a \/ i = b)
  BY <1>3, <1>5
<1>10. ASSUME SortedOn(nfreq, 1 .. NumUsed), SortedOn(nfreq, (NumUsed + 1) .. Len(nfreq))
       PROVE  /\ nfreq[a] <= nfreq[b]
              /\ \A i \in 1 .. Len(nfreq) : ~Consumed(li', ih', i) => nfreq[b] <= nfreq[i]
  <2>1. nfreq[a] <= nfreq[b]
    <3>1. nfreq[Taken(li, ih)] <= nfreq[b]
      BY <1>0, <1>1, <1>2, <1>5, <1>7, <1>10, HeadLightest, SMTT(40)
    <3> QED BY <3>1 DEF a
  <2>2. ASSUME NEW i \in 1 .. Len(nfreq), ~Consumed(li', ih', i) PROVE nfreq[b] <= nfreq[i]
    <3>1. ~Consumed(l1, h1, i) /\ Out(l1, h1) < Len(nfreq)
      BY <1>1, <1>2, <1>3, <1>5, <2>2
    <3>2. nfreq[Taken(l1, h1)] <= nfreq[i]
      BY <1>0, <1>1, <1>3, <1>10, <3>1, HeadLightest
    <3> QED BY <3>2 DEF b
  <2> QED BY <2>1, <2>2
<1>11. nfreq' = Append(nfreq, nfreq[a] + nfreq[b])
  BY <1>4
<1> QED BY <1>1, <1>3, <1>4, <1>5, <1>6, <1>7, <1>8, <1>9, <1>10, <1>11

\* A new node is at least as heavy as every internal node before it.
LEMMA QueuesKept ==
  ASSUME Merging, Queued, MergeTwo
  PROVE  Queued'
<1>0. NumUsed \in Nat /\ nfreq \in Seq(Nat) /\ Len(nfreq) \in Nat /\ NumUsed <= Len(nfreq)
  BY DEF Merging
<1> DEFINE n == Len(nfreq)
<1>1. PICK a \in 1 .. n, b \in 1 .. n, w \in Nat :
        /\ ~Consumed(li, ih, a) /\ ~Consumed(li, ih, b)
        /\ \A i \in Nat : Consumed(li', ih', i) <=> (Consumed(li, ih, i) \/ i = a \/ i = b)
        /\ nfreq' = Append(nfreq, w) /\ UNCHANGED freq
        /\ w = nfreq[a] + nfreq[b] /\ nfreq[a] <= nfreq[b]
        /\ \A i \in 1 .. n : ~Consumed(li', ih', i) => nfreq[b] <= nfreq[i]
  BY TurnOfMerge DEF Queued
<1>2. PICK m \in Nat : Apart(li, ih, nfreq, m)
  BY DEF Queued
<1>3. NumUsed' = NumUsed
  BY <1>1 DEF NumUsed, Occurring
<1>4. Len(nfreq') = n + 1 /\ nfreq'[n + 1] = w /\ \A i \in 1 .. n : nfreq'[i] = nfreq[i]
  BY <1>0, <1>1
<1>5. \A i \in 1 .. n : nfreq[i] \in Nat
  BY <1>0
<1>6. nfreq[a] >= m /\ nfreq[b] >= m /\ w <= 2 * nfreq[b] /\ w >= nfreq[b] /\ 2 * m <= w
  <2>1. nfreq[a] >= m /\ nfreq[b] >= m
    BY <1>1, <1>2 DEF Apart
  <2>2. nfreq[a] \in Nat /\ nfreq[b] \in Nat
    BY <1>5
  <2> QED BY <1>1, <2>1, <2>2
<1>7. \A i \in (NumUsed + 1) .. n : nfreq[i] <= w /\ nfreq[i] \in Nat
  <2> SUFFICES ASSUME NEW i \in (NumUsed + 1) .. n PROVE nfreq[i] <= w /\ nfreq[i] \in Nat
    OBVIOUS
  <2>1. nfreq[i] <= 2 * m
    BY <1>2 DEF Apart
  <2>2. i \in 1 .. n
    BY <1>0
  <2> QED BY <1>5, <1>6, <2>1, <2>2
<1> HIDE DEF n
<1>8. SortedOn(nfreq', 1 .. NumUsed)
  <2>1. \A i \in 1 .. NumUsed : i \in 1 .. n
    BY <1>0 DEF n
  <2> QED BY <1>4, <2>1 DEF Queued, SortedOn
<1>9. SortedOn(nfreq', (NumUsed + 1) .. (n + 1))
  <2> SUFFICES ASSUME NEW i \in (NumUsed + 1) .. (n + 1), NEW j \in (NumUsed + 1) .. (n + 1), i <= j
               PROVE  nfreq'[i] <= nfreq'[j]
    BY DEF SortedOn
  <2>1. n \in Nat
    BY <1>0 DEF n
  <2>2. CASE j <= n
    <3>1. i \in (NumUsed + 1) .. n /\ j \in (NumUsed + 1) .. n /\ i \in 1 .. n /\ j \in 1 .. n
      BY <1>0, <2>1, <2>2
    <3>2. nfreq[i] <= nfreq[j]
      BY <3>1 DEF Queued, SortedOn, n
    <3> QED BY <1>4, <3>1, <3>2
  <2>3. CASE j = n + 1 /\ i <= n
    <3>1. i \in (NumUsed + 1) .. n /\ i \in 1 .. n
      BY <1>0, <2>1, <2>3
    <3> QED BY <1>4, <1>7, <2>3, <3>1
  <2>4. CASE i = n + 1 /\ j = n + 1
    BY <1>4, <2>4
  <2> QED BY <1>0, <2>1, <2>2, <2>3, <2>4
<1>10. PICK k \in Nat : k = nfreq[b]
  BY <1>5
<1>11. \A i \in 1 .. (n + 1) : ~Consumed(li', ih', i) => nfreq'[i] >= k
  <2> SUFFICES ASSUME NEW i \in 1 .. (n + 1), ~Consumed(li', ih', i) PROVE nfreq'[i] >= k
    OBVIOUS
  <2>1. n \in Nat
    BY <1>0 DEF n
  <2>2. CASE i = n + 1
    BY <1>4, <1>6, <1>10, <2>2
  <2>3. CASE i # n + 1
    <3>1. i \in 1 .. n
      BY <2>1, <2>3
    <3> QED BY <1>1, <1>4, <1>5, <1>10, <3>1
  <2> QED BY <2>2, <2>3
<1>12. \A i \in (NumUsed + 1) .. (n + 1) : nfreq'[i] <= 2 * k
  <2> SUFFICES ASSUME NEW i \in (NumUsed + 1) .. (n + 1) PROVE nfreq'[i] <= 2 * k
    OBVIOUS
  <2>1. n \in Nat
    BY <1>0 DEF n
  <2>2. CASE i = n + 1
    BY <1>4, <1>6, <1>10, <2>2
  <2>3. CASE i # n + 1
    <3>1. i \in (NumUsed + 1) .. n /\ i \in 1 .. n
      BY <1>0, <2>1, <2>3
    <3> QED BY <1>4, <1>6, <1>7, <1>10, <3>1
  <2> QED BY <2>2, <2>3
<1>13. \A i \in Nat : Consumed(li, ih, i)' <=> Consumed(li', ih', i)
  BY <1>3 DEF Consumed
<1>14. Apart(li, ih, nfreq, k)'
  <2>1. \A i \in 1 .. (n + 1) : i \in Nat
    BY <1>0 DEF n
  <2> QED BY <1>3, <1>4, <1>11, <1>12, <1>13, <2>1 DEF Apart
<1> QED BY <1>3, <1>4, <1>8, <1>9, <1>14 DEF Queued, SortedOn

LEMMA MergeKept ==
  ASSUME Merging, MergeTwo
  PROVE  Merging'
<1>0. /\ NumUsed \in Nat /\ NumUsed >= 2 /\ nfreq \in Seq(Nat) /\ Len(nfreq) \in NumUsed .. Nodes
      /\ Heads(li, ih) /\ Out(li, ih) = 2 * (Len(nfreq) - NumUsed)
      /\ parent \in [1 .. Nodes -> Nat]
      /\ \A i \in 1 .. Nodes : HasParent(li, ih, i)
      /\ \A k \in (NumUsed + 1) .. Len(nfreq) : HasTwo(k)
      /\ Nodes \in Nat
  BY DEF Merging, Nodes
<1>1. PICK a \in 1 .. Len(nfreq), b \in 1 .. Len(nfreq), w \in Nat :
           /\ a # b /\ ~Consumed(li, ih, a) /\ ~Consumed(li, ih, b)
           /\ Heads(li', ih') /\ Out(li', ih') = Out(li, ih) + 2
           /\ \A i \in Nat : Consumed(li', ih', i) <=> (Consumed(li, ih, i) \/ i = a \/ i = b)
           /\ nfreq' = Append(nfreq, w)
           /\ parent' = [parent EXCEPT ![a] = Len(nfreq) + 1, ![b] = Len(nfreq) + 1]
           /\ Len(nfreq) < Nodes /\ UNCHANGED <<freq, phase, lens, count, kraft>>
  BY TurnOfMerge
<1>2. NumUsed' = NumUsed /\ Nodes' = Nodes
  BY <1>1 DEF NumUsed, Occurring, Nodes
<1>3. nfreq' \in Seq(Nat) /\ Len(nfreq') = Len(nfreq) + 1
  BY <1>0, <1>1
<1>4. Len(nfreq) \in Nat /\ Len(nfreq)' = Len(nfreq) + 1 /\ Len(nfreq)' \in NumUsed .. Nodes
  BY <1>0, <1>1, <1>3, SMTT(40)
<1>5. Heads(li, ih)' /\ Out(li, ih)' = 2 * (Len(nfreq)' - NumUsed)
  <2>1. Heads(li, ih)'
    BY <1>1, <1>2, <1>4, <1>0 DEF Heads
  <2>2. Out(li, ih)' = Out(li, ih) + 2
    BY <1>1, <1>2 DEF Out
  <2> QED BY <1>0, <1>4, <2>1, <2>2
<1>6. a \in 1 .. Nodes /\ b \in 1 .. Nodes /\ Len(nfreq) + 1 \in Nat
  BY <1>0, <1>1, <1>4, SMTT(40)
<1>7. /\ parent' \in [1 .. Nodes -> Nat]
      /\ parent'[a] = Len(nfreq) + 1 /\ parent'[b] = Len(nfreq) + 1
      /\ \A i \in 1 .. Nodes : i # a /\ i # b => parent'[i] = parent[i]
  BY <1>0, <1>1, <1>6
<1>8. ASSUME NEW i \in 1 .. Nodes PROVE HasParent(li, ih, i)'
  <2>1. Consumed(li, ih, i)' <=> (Consumed(li, ih, i) \/ i = a \/ i = b)
    <3>1. i \in Nat
      OBVIOUS
    <3>2. Consumed(li, ih, i)' <=> Consumed(li', ih', i)
      BY <1>2 DEF Consumed
    <3> QED BY <1>1, <3>1, <3>2
  <2>2. HasParent(li, ih, i)
    BY <1>0
  <2>3. CASE i = a \/ i = b
    <3>1. parent'[i] = Len(nfreq) + 1 /\ i <= Len(nfreq)
      BY <1>1, <1>7, <2>3
    <3> QED BY <1>0, <1>2, <1>4, <2>1, <2>3, <3>1, SMTT(40) DEF HasParent
  <2>4. CASE i # a /\ i # b
    <3>1. parent'[i] = parent[i]
      BY <1>7, <2>4
    <3> QED BY <1>0, <1>2, <1>4, <2>1, <2>2, <2>4, <3>1, SMTT(40) DEF HasParent
  <2> QED BY <2>3, <2>4
<1>9. ASSUME NEW k \in (NumUsed + 1) .. Len(nfreq)' PROVE HasTwo(k)'
  <2>1. parent[a] = 0 /\ parent[b] = 0
    BY <1>0, <1>1, <1>6 DEF HasParent
  <2>2. CASE k = Len(nfreq) + 1
    <3>1. \A i \in 1 .. Nodes : parent[i] # k
      <4> SUFFICES ASSUME NEW i \in 1 .. Nodes PROVE parent[i] # k
        OBVIOUS
      <4>1. HasParent(li, ih, i)
        BY <1>0
      <4>2. parent[i] \in (i + 1) .. Len(nfreq) \/ parent[i] = 0
        BY <4>1 DEF HasParent
      <4> QED BY <1>4, <2>2, <4>2
    <3>2. {i \in 1 .. Nodes : parent'[i] = k} = {a, b}
      BY <1>6, <1>7, <2>2, <3>1
    <3> QED BY <1>1, <1>2, <3>2 DEF HasTwo
  <2>3. CASE k # Len(nfreq) + 1
    <3>0. \A n, m \in Nat : k \in (n + 1) .. (m + 1) /\ k # m + 1 => k \in (n + 1) .. m /\ k # 0
      OBVIOUS
    <3>1. k \in (NumUsed + 1) .. Len(nfreq) /\ k # 0
      <4>1. k \in (NumUsed + 1) .. (Len(nfreq) + 1)
        BY <1>4
      <4> QED BY <1>0, <1>4, <2>3, <3>0, <4>1
    <3>2. \A i \in 1 .. Nodes : parent'[i] = k <=> parent[i] = k
      BY <1>7, <2>1, <2>3, <3>1
    <3>3. {i \in 1 .. Nodes : parent'[i] = k} = {i \in 1 .. Nodes : parent[i] = k}
      BY <3>2
    <3>4. HasTwo(k)
      BY <1>0, <3>1
    <3> QED BY <1>2, <3>3, <3>4 DEF HasTwo
  <2> QED BY <2>2, <2>3
<1>10. \A i \in 1 .. Nodes' : HasParent(li, ih, i)'
  BY <1>2, <1>8
<1>11. \A k \in (NumUsed' + 1) .. Len(nfreq)' : HasTwo(k)'
  BY <1>2, <1>9
<1>12. /\ NumUsed' \in Nat /\ NumUsed' >= 2 /\ nfreq' \in Seq(Nat)
       /\ Len(nfreq)' \in NumUsed' .. Nodes' /\ parent' \in [1 .. Nodes' -> Nat]
  BY <1>0, <1>2, <1>3, <1>4, <1>7
<1>13. Out(li, ih)' = 2 * (Len(nfreq)' - NumUsed')
  BY <1>2, <1>5
<1> QED BY <1>5, <1>10, <1>11, <1>12, <1>13 DEF Merging

\* The queues start with the sorted leaves and no parents.
LEMMA GatherStarts ==
  ASSUME NEW f \in [Symbols -> Nat], Gather(f), li = 1
  PROVE  /\ freq' = f /\ phase' \in {"empty", "done", "merge"}
         /\ phase' = "merge" => Merging' /\ li' = 1
         /\ phase' = "done" => NumUsed' = 1
         /\ phase' = "merge" => Queued'
<1> DEFINE U == {s \in Symbols : f[s] > 0}
           n == Cardinality(U)
<1>1. n \in Nat /\ \E p : Placed(f, U, p)
  BY LeavesNumber
<1>2. /\ Leaves(f) \in [1 .. n -> U] /\ Len(Leaves(f)) = n
      /\ \A i, j \in 1 .. n : i <= j => f[Leaves(f)[i]] <= f[Leaves(f)[j]]
  BY <1>1 DEF Placed
<1>3. freq' = f /\ NumUsed' = n
  BY DEF Gather, NumUsed, Occurring
<1>4. /\ phase' = CASE n = 0 -> "empty" [] n = 1 -> "done" [] OTHER -> "merge"
      /\ nfreq' = [i \in 1 .. n |-> f[Leaves(f)[i]]]
      /\ parent' = [i \in 1 .. (2 * n - 1) |-> 0]
      /\ ih' = n + 1 /\ li' = 1
  BY <1>2 DEF Gather
<1>5. nfreq' \in [1 .. n -> Nat]
  <2>1. \A i \in 1 .. n : f[Leaves(f)[i]] \in Nat
    BY <1>2
  <2> HIDE DEF n
  <2> QED BY <1>4, <2>1
<1> HIDE DEF n
<1>6. nfreq' \in Seq(Nat) /\ Len(nfreq)' = n
  <2>1. ASSUME NEW k \in Nat, NEW L \in [1 .. k -> Nat] PROVE L \in Seq(Nat) /\ Len(L) = k
    OBVIOUS
  <2> QED BY <1>1, <1>5, <2>1
<1>7. ASSUME phase' = "merge" PROVE Merging'
  <2>1. n >= 2
    BY <1>1, <1>4, <1>7
  <2>2. Nodes' = 2 * n - 1 /\ Nodes' \in Nat
    BY <1>1, <1>3, <2>1 DEF Nodes
  <2>3. Heads(li, ih)' /\ Out(li, ih)' = 0
    BY <1>1, <1>3, <1>4, <1>6 DEF Heads, Out
  <2>4. \A i \in 1 .. Nodes' : parent'[i] = 0 /\ ~Consumed(li, ih, i)'
    <3> SUFFICES ASSUME NEW i \in 1 .. Nodes' PROVE parent'[i] = 0 /\ ~Consumed(li, ih, i)'
      OBVIOUS
    <3>1. parent'[i] = 0
      BY <1>4, <2>2
    <3>2. ~Consumed(li, ih, i)'
      BY <1>1, <1>3, <1>4 DEF Consumed
    <3> QED BY <3>1, <3>2
  <2>5. \A i \in 1 .. Nodes' : HasParent(li, ih, i)'
    BY <2>4 DEF HasParent
  <2>6. \A k \in (NumUsed' + 1) .. Len(nfreq)' : HasTwo(k)'
    <3>1. \A k \in (n + 1) .. n : FALSE
      BY <1>1
    <3> QED BY <1>3, <1>6, <3>1
  <2>7. parent' \in [1 .. Nodes' -> Nat]
    BY <1>4, <2>2
  <2>8. Len(nfreq)' \in NumUsed' .. Nodes' /\ Out(li, ih)' = 2 * (Len(nfreq)' - NumUsed')
    BY <1>1, <1>3, <1>6, <2>1, <2>2, <2>3
  <2> QED BY <1>1, <1>3, <1>6, <2>1, <2>3, <2>5, <2>6, <2>7, <2>8 DEF Merging
<1>8. phase' \in {"empty", "done", "merge"} /\ (phase' = "done" => NumUsed' = 1)
  BY <1>1, <1>3, <1>4
<1>9. Queued'
  <2>1. \A i, j \in 1 .. n : i <= j => nfreq'[i] <= nfreq'[j]
    BY <1>2, <1>4
  <2>2. \A i \in 1 .. Len(nfreq') : nfreq'[i] >= 0
    BY <1>5, <1>6
  <2>3. (n + 1) .. n = {}
    BY <1>1
  <2>4. SortedOn(nfreq, 1 .. NumUsed)'
    BY <1>3, <2>1 DEF SortedOn
  <2>5. SortedOn(nfreq, (NumUsed + 1) .. Len(nfreq))'
    BY <1>3, <1>6, <2>3 DEF SortedOn
  <2>6. Apart(li, ih, nfreq, 0)'
    BY <1>3, <1>6, <2>2, <2>3 DEF Apart
  <2> QED BY <2>4, <2>5, <2>6 DEF Queued
<1> QED BY <1>3, <1>4, <1>7, <1>8, <1>9

-----------------------------------------------------------------------------
\* The depths of the leaves are lengths of a complete code, of any depth.
Size == Nodes + MaxLen
Coding(ls) == ls \in [Symbols -> Nat] /\ \A s \in Symbols : ls[s] > 0 <=> s \in Occurring
Filled(ls) ==
  /\ \A s \in Occurring : ls[s] <= Size
  /\ SumOver(Occurring, LengthShares(ls, Occurring, Size)) = 2 ^ Size

LEMMA MergedTree ==
  ASSUME Merging, Len(nfreq) = Nodes
  PROVE  /\ Upward(parent, Nodes) /\ Binary(parent, Nodes, NumUsed) /\ Parents(parent, Nodes, NumUsed)
         /\ \A i \in 1 .. Nodes : IF i = Nodes THEN parent[i] = 0 ELSE Consumed(li, ih, i)
<1>0. /\ NumUsed \in Nat /\ NumUsed >= 2 /\ Nodes = 2 * NumUsed - 1 /\ Nodes \in Nat
      /\ Heads(li, ih) /\ Out(li, ih) = 2 * (Nodes - NumUsed)
      /\ \A i \in 1 .. Nodes : HasParent(li, ih, i)
      /\ \A k \in (NumUsed + 1) .. Nodes : HasTwo(k)
  BY DEF Merging, Nodes
<1>1. Nodes \in 1 .. Nodes /\ ~Consumed(li, ih, Nodes) /\ parent[Nodes] = 0
  <2>1. HasParent(li, ih, Nodes) /\ Nodes \in 1 .. Nodes
    BY <1>0
  <2> QED BY <1>0, <2>1 DEF HasParent
<1>2. li = NumUsed + 1 /\ ih = Nodes
  BY <1>0, <1>1 DEF Consumed, Heads, Out
<1>3. \A i \in 1 .. Nodes : i # Nodes => Consumed(li, ih, i)
  BY <1>0, <1>2 DEF Consumed
<1>4. \A i \in 1 .. Nodes : i # Nodes => parent[i] \in (i + 1) .. Nodes /\ parent[i] > NumUsed
  BY <1>0, <1>3 DEF HasParent
<1>5. ASSUME NEW k \in (NumUsed + 1) .. Nodes
      PROVE  \E a, b : a # b /\ Children(parent, Nodes, k) = {a, b}
  <2>1. Children(parent, Nodes, k) = {i \in 1 .. Nodes : parent[i] = k}
    BY <1>0, <1>1 DEF Children
  <2> QED BY <1>0, <2>1 DEF HasTwo
<1> QED BY <1>1, <1>3, <1>4, <1>5 DEF Upward, Binary, Parents

LEMMA DepthsFill ==
  ASSUME freq \in [Symbols -> Nat], Merging, Depths
  PROVE  Coding(lens') /\ Filled(lens') /\ UNCHANGED freq /\ phase' = "limit"
<1> DEFINE n == NumUsed
           N == Nodes
           L == Leaves(freq)
<1>0. n \in Nat /\ n >= 2 /\ N = 2 * n - 1 /\ Len(nfreq) = N /\ MaxLen \in Nat
  BY AlphabetAssumption DEF Merging, Nodes, Depths
<1>1. Upward(parent, N) /\ Binary(parent, N, n) /\ Parents(parent, N, n)
  BY <1>0, MergedTree
<1>2. IsDepth(Depth, parent, N)
  <2>1. \E d : IsDepth(d, parent, N)
    BY <1>0, <1>1, DepthExists
  <2>2. Depth = CHOOSE d : IsDepth(d, parent, N)
    BY Zenon DEF Depth, IsDepth, Nodes
  <2> QED BY <2>1, <2>2, Zenon
<1>3. \A i \in 1 .. N : Depth[i] \in 0 .. (N - i) /\ (i # N => Depth[i] >= 1)
  <2>1. N \in Nat \ {0}
    BY <1>0
  <2> HIDE DEF N
  <2> QED BY <1>1, <1>2, <2>1, DepthType
<1>4. PICK p : Placed(freq, Occurring, p)
  BY LeavesNumber DEF Occurring
<1>5. /\ IsFiniteSet(Occurring) /\ Occurring \subseteq Symbols
      /\ p \in Bijection(Occurring, 1 .. n) /\ L \in [1 .. n -> Occurring]
      /\ \A s \in Occurring : L[p[s]] = s
  BY <1>4, LeavesNumber DEF Occurring, NumUsed, Placed
<1>6. /\ \A s \in Occurring : p[s] \in 1 .. n
      /\ \A i \in 1 .. n : \E s \in Occurring : p[s] = i
  BY <1>5 DEF Bijection, Injection, Surjection
<1>7. \A s \in Occurring : (CHOOSE i \in DOMAIN L : L[i] = s) = p[s]
  <2> SUFFICES ASSUME NEW s \in Occurring PROVE (CHOOSE i \in DOMAIN L : L[i] = s) = p[s]
    OBVIOUS
  <2>1. DOMAIN L = 1 .. n
    BY <1>5
  <2>2. p[s] \in DOMAIN L /\ L[p[s]] = s
    BY <1>5, <1>6, <2>1
  <2>3. \A i \in DOMAIN L : L[i] = s => i = p[s]
    BY <1>5, <1>6, <2>1
  <2> HIDE DEF L, n
  <2> QED BY <2>2, <2>3
<1>8. lens' = [s \in Symbols |-> IF s \in Occurring THEN Depth[CHOOSE i \in DOMAIN L : L[i] = s] ELSE 0]
      /\ UNCHANGED freq /\ phase' = "limit"
  BY DEF Depths
<1>9. \A s \in Symbols : lens'[s] = IF s \in Occurring THEN Depth[p[s]] ELSE 0
  <2> HIDE DEF L
  <2> QED BY <1>7, <1>8
<1>10. \A s \in Occurring : Depth[p[s]] \in 0 .. N /\ Depth[p[s]] >= 1
  <2> SUFFICES ASSUME NEW s \in Occurring PROVE Depth[p[s]] \in 0 .. N /\ Depth[p[s]] >= 1
    OBVIOUS
  <2>1. p[s] \in 1 .. N /\ p[s] # N
    BY <1>0, <1>6
  <2>2. Depth[p[s]] \in 0 .. (N - p[s]) /\ Depth[p[s]] >= 1
    BY <1>3, <2>1
  <2> HIDE DEF N
  <2> QED BY <1>0, <2>1, <2>2
<1>11. Coding(lens')
  <2>1. lens' = [s \in Symbols |-> lens'[s]]
    BY <1>8
  <2>2. \A s \in Symbols : lens'[s] \in Nat /\ (lens'[s] > 0 <=> s \in Occurring)
    <3> HIDE DEF N
    <3> QED BY <1>9, <1>10
  <2> QED BY <2>1, <2>2 DEF Coding
<1> DEFINE w == [i \in 1 .. N |-> 2 ^ (Size - Depth[i])]
<1>12. SumOver(1 .. n, w) = 2 ^ Size
  <2>1. n \in Nat \ {0} /\ N \in Nat /\ n < N /\ Size \in Nat /\ Size >= N
    BY <1>0 DEF Size
  <2>2. \A i \in 1 .. N : w[i] = 2 ^ (Size - Depth[i])
    OBVIOUS
  <2> HIDE DEF w, n, N, Size
  <2> QED BY <1>1, <1>2, <2>1, <2>2, LeavesFill
<1>13. SumOver(Occurring, LengthShares(lens', Occurring, Size)) = SumOver(1 .. n, w)
  <2>1. \A i \in 1 .. n : w[i] \in Int
    <3> SUFFICES ASSUME NEW i \in 1 .. n PROVE w[i] \in Int
      OBVIOUS
    <3>1. i \in 1 .. N
      BY <1>0
    <3>2. Depth[i] \in 0 .. (N - i)
      BY <1>3, <3>1
    <3>3. Size - Depth[i] \in Nat
      BY <1>0, <3>1, <3>2 DEF Size
    <3>4. w[i] = 2 ^ (Size - Depth[i])
      BY <3>1
    <3> QED BY <3>3, <3>4, PowerIsPositive
  <2>2. \A s \in Occurring : LengthShares(lens', Occurring, Size)[s] = w[p[s]]
    <3> SUFFICES ASSUME NEW s \in Occurring PROVE LengthShares(lens', Occurring, Size)[s] = w[p[s]]
      OBVIOUS
    <3>1. p[s] \in 1 .. N
      BY <1>0, <1>6
    <3>2. w[p[s]] = 2 ^ (Size - Depth[p[s]])
      BY <3>1
    <3>3. lens'[s] = Depth[p[s]]
      BY <1>5, <1>9
    <3>4. LengthShares(lens', Occurring, Size)[s] = 2 ^ (Size - lens'[s])
      BY DEF LengthShares
    <3> QED BY <3>2, <3>3, <3>4
  <2>3. PICK h : h = LengthShares(lens', Occurring, Size)
    OBVIOUS
  <2>4. PICK T : T = 1 .. n
    OBVIOUS
  <2>5. p \in Bijection(Occurring, T) /\ IsFiniteSet(Occurring)
    BY <1>5, <2>4
  <2>6. (\A i \in T : w[i] \in Int) /\ \A s \in Occurring : h[s] = w[p[s]]
    BY <2>1, <2>2, <2>3, <2>4
  <2> HIDE DEF w, n
  <2>7. SumOver(Occurring, h) = SumOver(T, w)
    BY <2>5, <2>6, TotalRenamed
  <2> QED BY <2>3, <2>4, <2>7
<1>14. \A s \in Occurring : lens'[s] <= Size
  <2> SUFFICES ASSUME NEW s \in Occurring PROVE lens'[s] <= Size
    OBVIOUS
  <2>1. lens'[s] = Depth[p[s]] /\ Depth[p[s]] \in 0 .. N
    BY <1>5, <1>9, <1>10
  <2> QED BY <1>0, <2>1 DEF Size
<1> QED BY <1>8, <1>11, <1>12, <1>13, <1>14 DEF Filled

-----------------------------------------------------------------------------
\* Products compare as their factors do.
LEMMA ProductGrows ==
  ASSUME NEW p \in Nat, NEW a \in Int, NEW b \in Int, a <= b
  PROVE  p * a <= p * b /\ p * a \in Int /\ p * b \in Int
<1>1. PICK d \in Nat : b = a + d
  <2>1. b - a \in Nat /\ b = a + (b - a)
    OBVIOUS
  <2> QED BY <2>1
<1>2. p * (a + d) = p * a + p * d /\ p * a \in Int
  BY Distributes
<1>3. p * d \in Nat
  OBVIOUS
<1> QED BY <1>1, <1>2, <1>3

LEMMA ProductCompares ==
  ASSUME NEW p \in Nat, p >= 1, NEW a \in Int, NEW b \in Int
  PROVE  /\ p * a <= p * b => a <= b
         /\ p * a < p * b => a < b
         /\ p * a = p * b => a = b
<1>1. ASSUME NEW x \in Int, NEW y \in Int, p * x <= p * y PROVE x <= y
  <2> SUFFICES ASSUME y + 1 <= x PROVE FALSE
    OBVIOUS
  <2>1. p * (y + 1) <= p * x /\ p * x \in Int
    <3>1. y + 1 \in Int
      OBVIOUS
    <3> QED BY <3>1, ProductGrows
  <2>2. p * (y + 1) = p * y + p * 1 /\ p * y \in Int
    BY Distributes
  <2>3. p * 1 = p
    OBVIOUS
  <2> QED BY <1>1, <2>1, <2>2, <2>3
<1>2. p * a \in Int /\ p * b \in Int
  BY ProductGrows
<1>3. p * a <= p * b => a <= b
  BY <1>1
<1>4. p * b <= p * a => b <= a
  BY <1>1
<1>5. p * a = p * b => a = b
  BY <1>2, <1>3, <1>4
<1>6. p * a < p * b => a # b
  BY <1>2
<1> QED BY <1>2, <1>3, <1>5, <1>6

\* The used symbols are finitely many, and no more than there are codes.
LEMMA UsedFinite ==
  ASSUME freq \in [Symbols -> Nat]
  PROVE  /\ IsFiniteSet(Occurring) /\ Occurring \subseteq Symbols /\ NumUsed \in Nat
         /\ NumUsed <= Target /\ Target \in Nat /\ Target >= 1 /\ MaxLen \in Nat \ {0}
<1>1. IsFiniteSet(Symbols) /\ MaxLen \in Nat \ {0}
  BY AlphabetAssumption
<1>2. Occurring \in SUBSET Symbols
  BY DEF Occurring
<1>3. IsFiniteSet(Occurring) /\ NumUsed <= Cardinality(Symbols)
  BY <1>1, <1>2, FS_Subset DEF NumUsed
<1>4. NumUsed \in Nat /\ Cardinality(Symbols) \in Nat
  BY <1>1, <1>3, FS_CardinalityType DEF NumUsed
<1>5. Target \in Nat /\ Target >= 1
  BY <1>1, PowerIsPositive DEF Target
<1>6. Cardinality(Symbols) <= Target
  BY LimitAssumption DEF Target
<1> QED BY <1>1, <1>2, <1>3, <1>4, <1>5, <1>6

\* What a length of at most n bits takes of a longer code's units.
LEMMA UnitsOf ==
  ASSUME NEW m \in Nat, NEW n \in Nat, NEW l \in Nat, l <= m
  PROVE  2 ^ ((n + m) - l) = 2 ^ n * 2 ^ (m - l) /\ 2 ^ (m - l) \in Nat /\ 2 ^ (m - l) >= 1
<1>1. m - l \in Nat /\ (n + m) - l = n + (m - l)
  OBVIOUS
<1>2. 2 ^ (n + (m - l)) = 2 ^ n * 2 ^ (m - l)
  BY <1>1, PowerAdds
<1> QED BY <1>1, <1>2, PowerIsPositive

\* A tree no deeper than the limit is a complete code of at most MaxLen bits.
LEMMA ShallowComplete ==
  ASSUME freq \in [Symbols -> Nat], NumUsed >= 2, Coding(lens), Filled(lens),
         \A s \in Occurring : lens[s] <= MaxLen
  PROVE  CodeSum(lens, Occurring) = Target
<1> DEFINE g == LengthShares(lens, Occurring, MaxLen)
           f == LengthShares(lens, Occurring, Size)
           P == 2 ^ Nodes
<1>0. /\ IsFiniteSet(Occurring) /\ NumUsed \in Nat /\ Occurring \subseteq Symbols /\ MaxLen \in Nat
      /\ Target \in Nat
  BY UsedFinite
<1>1. Nodes \in Nat /\ Size = Nodes + MaxLen
  BY <1>0 DEF Nodes, Size
<1>2. P \in Nat /\ P >= 1
  BY <1>1, PowerIsPositive
<1>3. \A s \in Occurring : g[s] \in Int /\ f[s] = P * g[s]
  <2> SUFFICES ASSUME NEW s \in Occurring PROVE g[s] \in Int /\ f[s] = P * g[s]
    OBVIOUS
  <2>1. lens[s] \in Nat /\ lens[s] <= MaxLen
    BY <1>0 DEF Coding
  <2>2. g[s] = 2 ^ (MaxLen - lens[s]) /\ f[s] = 2 ^ ((Nodes + MaxLen) - lens[s])
    BY <1>1 DEF LengthShares
  <2>3. PICK l \in Nat : l = lens[s] /\ l <= MaxLen
    BY <2>1
  <2>4. 2 ^ ((Nodes + MaxLen) - l) = 2 ^ Nodes * 2 ^ (MaxLen - l) /\ 2 ^ (MaxLen - l) \in Nat
    <3>1. MaxLen \in Nat /\ Nodes \in Nat
      BY <1>0, <1>1
    <3> HIDE DEF g, f, P
    <3> QED BY <2>3, <3>1, UnitsOf, ZenonT(60)
  <2> HIDE DEF g, f
  <2> QED BY <2>2, <2>3, <2>4
<1> HIDE DEF g, f, P
<1>4. SumOver(Occurring, f) = P * SumOver(Occurring, g)
  BY <1>0, <1>2, <1>3, TotalScaled
<1>5. SumOver(Occurring, g) \in Int
  BY <1>0, <1>3, TotalRules
<1>6. SumOver(Occurring, f) = P * Target
  <2>1. SumOver(Occurring, f) = 2 ^ Size
    BY DEF Filled, f
  <2>2. 2 ^ (Nodes + MaxLen) = 2 ^ Nodes * 2 ^ MaxLen
    BY <1>0, <1>1, PowerAdds
  <2> QED BY <1>1, <2>1, <2>2 DEF Target, P
<1>7. SumOver(Occurring, g) = Target
  <2>1. P * SumOver(Occurring, g) = P * Target
    BY <1>4, <1>6
  <2> QED BY <1>0, <1>2, <1>5, <2>1, ProductCompares
<1>8. CodeSum(lens, Occurring) = SumOver(Occurring, g)
  BY <1>0, CodeSumIsSum DEF g
<1> QED BY <1>7, <1>8

-----------------------------------------------------------------------------
\* The books of the limiter.
Booked(c) ==
  /\ c \in [1 .. MaxLen -> Nat] /\ SumOver(1 .. MaxLen, c) = NumUsed
  /\ KraftOf(c) \in Nat

\* A code's share of the units, and the sums the limiter keeps.
LEMMA WeightsType ==
  ASSUME freq \in [Symbols -> Nat], NEW c \in [1 .. MaxLen -> Nat]
  PROVE  /\ IsFiniteSet(1 .. MaxLen) /\ MaxLen \in 1 .. MaxLen
         /\ \A l \in 1 .. MaxLen : /\ Weights(c)[l] = c[l] * 2 ^ (MaxLen - l)
                                   /\ 2 ^ (MaxLen - l) \in Nat /\ 2 ^ (MaxLen - l) >= 1
                                   /\ Weights(c)[l] \in Nat /\ Weights(c)[l] >= c[l]
         /\ Weights(c)[MaxLen] = c[MaxLen]
         /\ KraftOf(c) = SumOver(1 .. MaxLen, Weights(c)) /\ KraftOf(c) \in Nat
<1>0. MaxLen \in Nat \ {0} /\ IsFiniteSet(1 .. MaxLen) /\ MaxLen \in 1 .. MaxLen
  BY AlphabetAssumption, FS_Interval
<1>1. ASSUME NEW l \in 1 .. MaxLen
      PROVE  /\ Weights(c)[l] = c[l] * 2 ^ (MaxLen - l)
             /\ 2 ^ (MaxLen - l) \in Nat /\ 2 ^ (MaxLen - l) >= 1
             /\ Weights(c)[l] \in Nat /\ Weights(c)[l] >= c[l]
  <2>1. MaxLen - l \in Nat
    BY <1>0
  <2>2. PICK p \in Nat : p = 2 ^ (MaxLen - l) /\ p >= 1
    BY <2>1, PowerIsPositive
  <2>3. PICK n \in Nat : n = c[l]
    OBVIOUS
  <2>4. Weights(c)[l] = n * p
    BY <2>2, <2>3 DEF Weights
  <2>5. n * 1 <= n * p /\ n * p \in Int /\ n * 1 = n
    BY <2>2, <2>3, ProductGrows
  <2>6. n * p \in Nat
    BY <2>5
  <2> QED BY <2>2, <2>3, <2>4, <2>5, <2>6
<1>2. Weights(c)[MaxLen] = c[MaxLen]
  <2>1. MaxLen - MaxLen = 0 /\ 2 ^ 0 = 1 /\ c[MaxLen] \in Nat
    BY <1>0
  <2>2. Weights(c)[MaxLen] = c[MaxLen] * 2 ^ 0
    BY <1>0, <1>1, <2>1
  <2> QED BY <2>1, <2>2
<1>3. KraftOf(c) = SumOver(1 .. MaxLen, Weights(c))
  BY KraftOfIsSum
<1>4. SumOver(1 .. MaxLen, Weights(c)) \in Nat
  <2>1. \A l \in 1 .. MaxLen : Weights(c)[l] \in Nat
    BY <1>1
  <2> QED BY <1>0, <2>1, TotalNat
<1> QED BY <1>0, <1>1, <1>2, <1>3, <1>4

\* Clamping books every used symbol and overfills the code, by less than the codes of
\* the longest length.
Clamping(c) == c = [l \in 1 .. MaxLen |-> Cardinality({s \in Occurring : Clamped(lens[s]) = l})]

LEMMA ClampBooks ==
  ASSUME freq \in [Symbols -> Nat], NumUsed >= 2, Coding(lens), Filled(lens),
         \E s \in Occurring : lens[s] > MaxLen, NEW c, Clamping(c)
  PROVE  /\ Booked(c) /\ KraftOf(c) >= Target /\ KraftOf(c) - Target < c[MaxLen]
<1> DEFINE M == 1 .. MaxLen
           q == [s \in Occurring |-> Clamped(lens[s])]
           g == LengthShares(q, Occurring, MaxLen)
           v == LengthShares(q, Occurring, Size)
           u == LengthShares(lens, Occurring, Size)
           P == 2 ^ Nodes
           D == Sharing(Occurring, q, MaxLen)
<1>0. /\ IsFiniteSet(Occurring) /\ NumUsed \in Nat /\ Occurring \subseteq Symbols
      /\ MaxLen \in Nat \ {0} /\ Target \in Nat /\ IsFiniteSet(M) /\ MaxLen \in M
      /\ Nodes \in Nat /\ Size = Nodes + MaxLen /\ Size \in Nat
  <2>1. NumUsed \in Nat /\ MaxLen \in Nat \ {0}
    BY UsedFinite
  <2>2. Nodes \in Nat /\ Size = Nodes + MaxLen /\ Size \in Nat
    BY <2>1 DEF Nodes, Size
  <2>3. IsFiniteSet(M) /\ MaxLen \in M
    BY <2>1, FS_Interval
  <2> HIDE DEF M
  <2> QED BY <2>2, <2>3, UsedFinite
<1>1. P \in Nat /\ P >= 1
  BY <1>0, PowerIsPositive
<1>2. \A s \in Occurring : /\ lens[s] \in Nat /\ lens[s] >= 1 /\ lens[s] <= Size
                           /\ q[s] = Clamped(lens[s]) /\ q[s] \in M /\ q[s] <= lens[s]
                           /\ (q[s] # MaxLen => lens[s] = q[s])
  <2> SUFFICES ASSUME NEW s \in Occurring
               PROVE  /\ lens[s] \in Nat /\ lens[s] >= 1 /\ lens[s] <= Size
                      /\ q[s] = Clamped(lens[s]) /\ q[s] \in M /\ q[s] <= lens[s]
                      /\ (q[s] # MaxLen => lens[s] = q[s])
    OBVIOUS
  <2>1. lens[s] \in Nat /\ lens[s] >= 1 /\ lens[s] <= Size
    BY <1>0 DEF Coding, Filled
  <2>2. q[s] = Clamped(lens[s])
    OBVIOUS
  <2> HIDE DEF q
  <2> QED BY <1>0, <2>1, <2>2 DEF Clamped
<1>3. \A l \in M : c[l] = Cardinality(Sharing(Occurring, q, l)) /\ c[l] \in Nat
  <2> SUFFICES ASSUME NEW l \in M PROVE c[l] = Cardinality(Sharing(Occurring, q, l)) /\ c[l] \in Nat
    OBVIOUS
  <2>1. Sharing(Occurring, q, l) = {s \in Occurring : Clamped(lens[s]) = l}
    BY <1>2 DEF Sharing
  <2>2. c[l] = Cardinality({s \in Occurring : Clamped(lens[s]) = l})
    BY DEF Clamping
  <2>3. Sharing(Occurring, q, l) \in SUBSET Occurring
    BY DEF Sharing
  <2>4. Cardinality(Sharing(Occurring, q, l)) \in Nat
    <3> HIDE DEF q
    <3> QED BY <1>0, <2>3, FS_Subset, FS_CardinalityType
  <2> QED BY <2>1, <2>2, <2>4
<1>4. c \in [M -> Nat]
  <2>1. c = [l \in M |-> c[l]]
    BY DEF Clamping
  <2> HIDE DEF M
  <2> QED BY <1>3, <2>1
<1>5. \A s \in Occurring : /\ g[s] = 2 ^ (MaxLen - q[s]) /\ g[s] \in Nat
                           /\ v[s] = P * g[s] /\ v[s] \in Int
                           /\ u[s] = 2 ^ (Size - lens[s]) /\ u[s] \in Nat /\ u[s] >= 1 /\ u[s] <= v[s]
                           /\ (q[s] # MaxLen => u[s] = v[s])
                           /\ (q[s] = MaxLen => v[s] = P)
  <2> SUFFICES ASSUME NEW s \in Occurring
               PROVE  /\ g[s] = 2 ^ (MaxLen - q[s]) /\ g[s] \in Nat
                      /\ v[s] = P * g[s] /\ v[s] \in Int
                      /\ u[s] = 2 ^ (Size - lens[s]) /\ u[s] \in Nat /\ u[s] >= 1 /\ u[s] <= v[s]
                      /\ (q[s] # MaxLen => u[s] = v[s])
                      /\ (q[s] = MaxLen => v[s] = P)
    OBVIOUS
  <2>1. g[s] = 2 ^ (MaxLen - q[s]) /\ v[s] = 2 ^ (Size - q[s]) /\ u[s] = 2 ^ (Size - lens[s])
    BY DEF LengthShares
  <2> HIDE DEF g, v, u, q
  <2>2. q[s] \in Nat /\ q[s] <= MaxLen /\ MaxLen - q[s] \in Nat /\ Size - q[s] \in Nat
        /\ Size - lens[s] \in Nat /\ Size - lens[s] <= Size - q[s]
    BY <1>0, <1>2
  <2>3. 2 ^ ((Nodes + MaxLen) - q[s]) = P * 2 ^ (MaxLen - q[s]) /\ 2 ^ (MaxLen - q[s]) \in Nat
    <3>1. PICK l \in Nat : l = q[s] /\ l <= MaxLen
      BY <2>2
    <3>2. 2 ^ ((Nodes + MaxLen) - l) = 2 ^ Nodes * 2 ^ (MaxLen - l) /\ 2 ^ (MaxLen - l) \in Nat
      <4>1. MaxLen \in Nat /\ Nodes \in Nat
        BY <1>0
      <4> HIDE DEF P
      <4> QED BY <3>1, <4>1, UnitsOf, ZenonT(60)
    <3> QED BY <3>1, <3>2
  <2>4. v[s] = P * g[s] /\ g[s] \in Nat
    BY <1>0, <2>1, <2>3
  <2>5. u[s] \in Nat /\ u[s] >= 1 /\ v[s] \in Nat /\ u[s] <= v[s]
    BY <2>1, <2>2, PowerIsPositive, PowerGrows
  <2>6. q[s] # MaxLen => u[s] = v[s]
    BY <1>2, <2>1
  <2>7. q[s] = MaxLen => v[s] = P
    <3>1. SUFFICES ASSUME q[s] = MaxLen PROVE v[s] = P
      OBVIOUS
    <3>2. Size - q[s] = Nodes
      BY <1>0, <3>1
    <3> QED BY <2>1, <3>2
  <2> QED BY <2>1, <2>4, <2>5, <2>6, <2>7
<1>6. SumOver(M, c) = NumUsed
  <2> DEFINE one == [l \in M |-> 1]
             ones == [s \in Occurring |-> 1]
  <2>1. FeatureSum(Occurring, q, one, ones, c, M)
    <3>1. \A s \in Occurring : q[s] \in M /\ ones[s] = one[q[s]]
      BY <1>2
    <3>2. \A l \in M : one[l] \in Int /\ c[l] = Cardinality(Sharing(Occurring, q, l)) * one[l]
      <4> SUFFICES ASSUME NEW l \in M
                   PROVE  one[l] \in Int /\ c[l] = Cardinality(Sharing(Occurring, q, l)) * one[l]
        OBVIOUS
      <4>1. one[l] = 1 /\ c[l] = Cardinality(Sharing(Occurring, q, l)) /\ c[l] \in Nat
        BY <1>3
      <4> HIDE DEF one
      <4> QED BY <4>1
    <3> HIDE DEF one, ones, q
    <3> QED BY <3>1, <3>2 DEF FeatureSum
  <2>2. SumOver(Occurring, ones) = SumOver(M, c)
    <3> HIDE DEF one, ones, q, M
    <3> QED BY <1>0, <2>1, TotalByFeature
  <2>3. SumOver(Occurring, ones) = NumUsed * 1
    <3>1. \A s \in Occurring : ones[s] = 1
      OBVIOUS
    <3> HIDE DEF ones
    <3> QED BY <1>0, <3>1, TotalEqual DEF NumUsed
  <2> QED BY <1>0, <2>2, <2>3
<1>7. KraftOf(c) = SumOver(Occurring, g) /\ KraftOf(c) \in Nat
  <2> DEFINE e == [l \in M |-> 2 ^ (MaxLen - l)]
  <2>1. FeatureSum(Occurring, q, e, g, Weights(c), M)
    <3>1. \A s \in Occurring : q[s] \in M /\ g[s] = e[q[s]]
      BY <1>2, <1>5
    <3>2. \A l \in M : e[l] \in Int /\ Weights(c)[l] = Cardinality(Sharing(Occurring, q, l)) * e[l]
      <4> SUFFICES ASSUME NEW l \in M
                   PROVE  e[l] \in Int /\ Weights(c)[l] = Cardinality(Sharing(Occurring, q, l)) * e[l]
        OBVIOUS
      <4>1. e[l] = 2 ^ (MaxLen - l) /\ Weights(c)[l] = c[l] * 2 ^ (MaxLen - l)
        BY DEF Weights
      <4>2. 2 ^ (MaxLen - l) \in Nat
        BY <1>4, WeightsType
      <4>3. c[l] = Cardinality(Sharing(Occurring, q, l))
        BY <1>3
      <4> HIDE DEF e, q
      <4> QED BY <4>1, <4>2, <4>3
    <3> HIDE DEF e, q, g
    <3> QED BY <3>1, <3>2 DEF FeatureSum
  <2>2. SumOver(Occurring, g) = SumOver(M, Weights(c))
    <3> HIDE DEF e, q, g, M
    <3> QED BY <1>0, <2>1, TotalByFeature
  <2>3. KraftOf(c) = SumOver(M, Weights(c)) /\ KraftOf(c) \in Nat
    BY <1>4, WeightsType
  <2> QED BY <2>2, <2>3
<1> HIDE DEF g, v, u, P, M
<1>8. SumOver(Occurring, v) = P * KraftOf(c)
  <2>1. \A s \in Occurring : g[s] \in Int /\ v[s] = P * g[s]
    BY <1>5
  <2>2. P \in Int
    BY <1>1
  <2>3. SumOver(Occurring, v) = P * SumOver(Occurring, g)
    BY <1>0, <2>1, <2>2, TotalScaled
  <2> QED BY <1>7, <2>3
<1>9. SumOver(Occurring, u) = P * Target
  <2>1. SumOver(Occurring, u) = 2 ^ Size
    BY DEF Filled, u
  <2>2. 2 ^ (Nodes + MaxLen) = 2 ^ Nodes * 2 ^ MaxLen
    BY <1>0, PowerAdds
  <2> QED BY <1>0, <2>1, <2>2 DEF Target, P
<1>10. KraftOf(c) >= Target
  <2>1. \A s \in Occurring : u[s] \in Int /\ v[s] \in Int /\ u[s] <= v[s]
    BY <1>5
  <2>2. SumOver(Occurring, u) <= SumOver(Occurring, v)
    BY <1>0, <2>1, TotalBounded
  <2>3. P * Target <= P * KraftOf(c)
    BY <1>8, <1>9, <2>2
  <2>4. Target <= KraftOf(c)
    BY <1>0, <1>1, <1>7, <2>3, ProductCompares
  <2> QED BY <1>0, <1>7, <2>4
<1>11. PICK deep \in Occurring : lens[deep] > MaxLen
  OBVIOUS
<1>12. /\ IsFiniteSet(D) /\ D \in SUBSET Occurring /\ deep \in D
       /\ \A s \in D : q[s] = MaxLen
       /\ \A s \in Occurring \ D : q[s] # MaxLen
  <2>1. D \in SUBSET Occurring /\ (\A s \in D : q[s] = MaxLen)
        /\ \A s \in Occurring \ D : q[s] # MaxLen
    BY DEF Sharing
  <2>2. q[deep] = MaxLen
    <3>1. q[deep] = Clamped(lens[deep])
      BY <1>2
    <3> QED BY <1>11, <3>1 DEF Clamped
  <2>3. deep \in D
    BY <1>11, <2>2 DEF Sharing
  <2> HIDE DEF D, q
  <2> QED BY <1>0, <2>1, <2>3, FS_Subset
<1> HIDE DEF D, q
<1> DEFINE R == Occurring \ D
<1>13. IsFiniteSet(R) /\ D \cup R = Occurring /\ D \cap R = {}
  BY <1>0, <1>12, FS_Difference
<1>14. SumOver(Occurring, v) = SumOver(D, v) + SumOver(R, v)
  <2>1. \A s \in D \cup R : v[s] \in Int
    BY <1>5, <1>13
  <2> HIDE DEF R
  <2> QED BY <1>12, <1>13, <2>1, TotalUnion
<1>15. SumOver(Occurring, u) = SumOver(D, u) + SumOver(R, u)
  <2>1. \A s \in D \cup R : u[s] \in Int
    BY <1>5, <1>13
  <2> HIDE DEF R
  <2> QED BY <1>12, <1>13, <2>1, TotalUnion
<1>16. SumOver(R, u) = SumOver(R, v) /\ SumOver(R, v) \in Int
  <2>1. \A s \in R : u[s] = v[s] /\ v[s] \in Int
    BY <1>5, <1>12
  <2>2. R \in SUBSET R
    OBVIOUS
  <2> HIDE DEF R
  <2>3. SumOver(R, u) = SumOver(R, v)
    BY <1>13, <2>1, TotalSame
  <2>4. SumOver(R, v) \in Int
    BY <1>13, <2>1, <2>2, TotalRules
  <2> QED BY <2>3, <2>4
<1>17. SumOver(D, v) = P * c[MaxLen] /\ c[MaxLen] \in Nat
  <2>1. \A s \in D : v[s] = P
    BY <1>5, <1>12
  <2>2. SumOver(D, v) = Cardinality(D) * P
    BY <1>1, <1>12, <2>1, TotalEqual
  <2>3. c[MaxLen] = Cardinality(D) /\ c[MaxLen] \in Nat
    BY <1>0, <1>3 DEF D
  <2> QED BY <1>1, <2>2, <2>3
<1>18. SumOver(D, u) >= 1 /\ SumOver(D, u) \in Nat
  <2>1. \A s \in D : u[s] \in Nat /\ u[s] \in Int /\ u[s] >= 1
    BY <1>5, <1>12
  <2>2. SumOver(D, u) = u[deep] + SumOver(D \ {deep}, u)
    <3>1. D \in SUBSET D
      OBVIOUS
    <3> QED BY <1>12, <2>1, <3>1, TotalRules
  <2>3. SumOver(D \ {deep}, u) \in Nat
    <3>1. IsFiniteSet(D \ {deep}) /\ \A s \in D \ {deep} : u[s] \in Nat
      BY <1>12, <2>1, FS_RemoveElement
    <3> QED BY <3>1, TotalNat
  <2> QED BY <1>12, <2>1, <2>2, <2>3
<1> HIDE DEF R
<1>19. KraftOf(c) < Target + c[MaxLen]
  <2>1. PICK k \in Nat, m \in Nat, tg \in Nat : k = KraftOf(c) /\ m = c[MaxLen] /\ tg = Target
    BY <1>0, <1>7, <1>17
  <2>2. P * (tg + m) = P * tg + P * m /\ P * tg \in Int
    BY <1>1, <2>1, Distributes
  <2>3. P * m \in Int /\ P * k \in Int
    BY <1>1, <2>1
  <2>4. P * k = P * m + SumOver(R, v)
    BY <1>8, <1>14, <1>17, <2>1
  <2>5. P * tg = SumOver(D, u) + SumOver(R, v)
    BY <1>9, <1>15, <1>16, <2>1
  <2>6. P * k < P * (tg + m)
    BY <1>16, <1>18, <2>2, <2>3, <2>4, <2>5
  <2>7. k < tg + m
    BY <1>1, <2>1, <2>6, ProductCompares
  <2> QED BY <2>1, <2>7
<1> QED BY <1>0, <1>4, <1>6, <1>7, <1>10, <1>17, <1>19 DEF Booked, M

\* Moving a code to another length books what it frees or takes.
IsMove(c, d, a, b) ==
  /\ Booked(d) /\ KraftOf(d) = KraftOf(c) - 2 ^ (MaxLen - a) + 2 ^ (MaxLen - b)
  /\ d[a] = c[a] - 1 /\ d[b] = c[b] + 1
  /\ \A l \in 1 .. MaxLen : l # a /\ l # b => d[l] = c[l]

LEMMA MoveBooks ==
  ASSUME freq \in [Symbols -> Nat], NEW c, Booked(c), NEW a \in 1 .. MaxLen, NEW b \in 1 .. MaxLen,
         a # b, c[a] > 0
  PROVE  IsMove(c, Move(c, a, b), a, b)
<1> DEFINE d == Move(c, a, b)
           M == 1 .. MaxLen
<1>0. c \in [M -> Nat] /\ SumOver(M, c) = NumUsed /\ KraftOf(c) \in Nat
  BY DEF Booked
<1>1. /\ d \in [M -> Nat] /\ d[a] = c[a] - 1 /\ d[b] = c[b] + 1
      /\ \A l \in M : l # a /\ l # b => d[l] = c[l]
  BY <1>0 DEF Move
<1> HIDE DEF d
<1>2. /\ IsFiniteSet(M)
      /\ \A l \in M : /\ Weights(c)[l] = c[l] * 2 ^ (MaxLen - l) /\ Weights(c)[l] \in Nat
                      /\ 2 ^ (MaxLen - l) \in Nat
      /\ KraftOf(c) = SumOver(M, Weights(c))
  BY <1>0, WeightsType
<1>3. /\ \A l \in M : Weights(d)[l] = d[l] * 2 ^ (MaxLen - l) /\ Weights(d)[l] \in Nat
      /\ KraftOf(d) = SumOver(M, Weights(d)) /\ KraftOf(d) \in Nat
  BY <1>1, WeightsType
<1>4. SumOver(M, d) = NumUsed
  <2>1. \A l \in M : c[l] \in Int /\ d[l] \in Int
    BY <1>0, <1>1
  <2>2. \A l \in M : l \notin {a, b} => c[l] = d[l]
    BY <1>1
  <2>3. a \in M /\ b \in M
    OBVIOUS
  <2>4. SumOver(M, d) = SumOver(M, c) + (d[a] - c[a]) + (d[b] - c[b])
    <3>1. IsFiniteSet(M) /\ TwoApart(M, c, d, a, b)
      BY <1>2, <2>1, <2>2, <2>3 DEF TwoApart
    <3> HIDE DEF M
    <3> QED BY <3>1, TotalTwo
  <2>5. PICK s \in Int : s = SumOver(M, c)
    <3>1. M \in SUBSET M
      OBVIOUS
    <3> HIDE DEF M
    <3> QED BY <1>2, <2>1, <3>1, TotalRules
  <2>6. c[a] \in Int /\ c[b] \in Int
    BY <2>1
  <2> HIDE DEF M
  <2> QED BY <1>0, <1>1, <2>4, <2>5, <2>6
<1>5. KraftOf(d) = KraftOf(c) - 2 ^ (MaxLen - a) + 2 ^ (MaxLen - b)
  <2>1. \A l \in M : Weights(c)[l] \in Int /\ Weights(d)[l] \in Int
    BY <1>2, <1>3
  <2>2. \A l \in M : l \notin {a, b} => Weights(c)[l] = Weights(d)[l]
    <3> SUFFICES ASSUME NEW l \in M, l \notin {a, b} PROVE Weights(c)[l] = Weights(d)[l]
      OBVIOUS
    <3>1. d[l] = c[l]
      BY <1>1
    <3> QED BY <1>2, <1>3, <3>1
  <2>3. PICK p \in Nat, r \in Nat : p = 2 ^ (MaxLen - a) /\ r = 2 ^ (MaxLen - b)
    BY <1>2
  <2>4. PICK x \in Nat, y \in Nat : x = c[a] /\ y = c[b]
    BY <1>0
  <2>5. /\ Weights(c)[a] = x * p /\ Weights(d)[a] = (x - 1) * p
        /\ Weights(c)[b] = y * r /\ Weights(d)[b] = (y + 1) * r
    BY <1>1, <1>2, <1>3, <2>3, <2>4
  <2>6. (x - 1) * p = x * p - p /\ (y + 1) * r = y * r + r /\ x * p \in Int /\ y * r \in Int
    BY <2>3, <2>4
  <2>7. a \in M /\ b \in M
    OBVIOUS
  <2>8. SumOver(M, Weights(d)) = SumOver(M, Weights(c)) + (Weights(d)[a] - Weights(c)[a])
                                   + (Weights(d)[b] - Weights(c)[b])
    <3>1. PICK g, f : g = Weights(c) /\ f = Weights(d)
      OBVIOUS
    <3>2. (\A l \in M : g[l] \in Int /\ f[l] \in Int) /\ \A l \in M : l \notin {a, b} => g[l] = f[l]
      BY <2>1, <2>2, <3>1
    <3>3. SumOver(M, f) = SumOver(M, g) + (f[a] - g[a]) + (f[b] - g[b])
      <4>1. IsFiniteSet(M) /\ TwoApart(M, g, f, a, b)
        BY <1>2, <2>7, <3>2 DEF TwoApart
      <4> HIDE DEF M
      <4> QED BY <4>1, TotalTwo
    <3> QED BY <3>1, <3>3
  <2>9. Weights(d)[a] - Weights(c)[a] = 0 - p /\ Weights(d)[b] - Weights(c)[b] = r
    BY <2>3, <2>5, <2>6
  <2>10. KraftOf(d) = KraftOf(c) + (0 - p) + r
    BY <1>2, <1>3, <2>8, <2>9
  <2> QED BY <1>0, <2>3, <2>10
<1>6. Booked(d)
  BY <1>1, <1>3, <1>4 DEF Booked
<1> QED BY <1>1, <1>5, <1>6 DEF d, IsMove

\* Every code takes a unit at least; codes of the longest length take no more.
LEMMA KraftFloor ==
  ASSUME freq \in [Symbols -> Nat], NEW c, Booked(c)
  PROVE  /\ KraftOf(c) >= NumUsed
         /\ Shorter(c) = {} => KraftOf(c) = NumUsed
<1>0. /\ c \in [1 .. MaxLen -> Nat] /\ SumOver(1 .. MaxLen, c) = NumUsed
      /\ MaxLen \in Nat \ {0} /\ NumUsed \in Nat
  BY UsedFinite DEF Booked
<1>1. PICK M : M = 1 .. MaxLen
  OBVIOUS
<1>2. PICK w : w = Weights(c)
  OBVIOUS
<1>3. /\ IsFiniteSet(M) /\ KraftOf(c) = SumOver(M, w) /\ KraftOf(c) \in Nat
      /\ \A l \in M : c[l] \in Int /\ w[l] \in Int /\ c[l] <= w[l]
      /\ w[MaxLen] = c[MaxLen]
      /\ \A l \in M : w[l] = c[l] * 2 ^ (MaxLen - l) /\ 2 ^ (MaxLen - l) \in Nat
  <2>1. /\ IsFiniteSet(1 .. MaxLen)
        /\ \A l \in 1 .. MaxLen : /\ Weights(c)[l] = c[l] * 2 ^ (MaxLen - l)
                                  /\ 2 ^ (MaxLen - l) \in Nat
                                  /\ Weights(c)[l] \in Nat /\ Weights(c)[l] >= c[l]
        /\ Weights(c)[MaxLen] = c[MaxLen]
        /\ KraftOf(c) = SumOver(1 .. MaxLen, Weights(c)) /\ KraftOf(c) \in Nat
    BY <1>0, WeightsType, Zenon
  <2>2. \A l \in M : c[l] \in Nat
    BY <1>0, <1>1
  <2> QED BY <1>1, <1>2, <2>1, <2>2
<1>4. SumOver(M, c) <= SumOver(M, w)
  BY <1>3, TotalBounded
<1>5. ASSUME Shorter(c) = {} PROVE KraftOf(c) = NumUsed
  <2>1. \A l \in M : w[l] = c[l]
    <3> SUFFICES ASSUME NEW l \in M PROVE w[l] = c[l]
      OBVIOUS
    <3>1. CASE l = MaxLen
      BY <1>3, <3>1
    <3>2. CASE l # MaxLen
      <4>1. l \in 1 .. (MaxLen - 1) /\ c[l] \in Nat
        BY <1>0, <1>1, <3>2
      <4>2. c[l] = 0
        BY <1>5, <4>1 DEF Shorter
      <4>3. w[l] = 0 * 2 ^ (MaxLen - l) /\ 2 ^ (MaxLen - l) \in Nat
        BY <1>3, <4>2
      <4> QED BY <4>2, <4>3
    <3> QED BY <3>1, <3>2
  <2>2. SumOver(M, w) = SumOver(M, c)
    BY <1>3, <2>1, TotalSame
  <2> QED BY <1>0, <1>1, <1>3, <2>2
<1> QED BY <1>0, <1>1, <1>3, <1>4, <1>5

\* With no code between the longest that can grow and the limit, the Kraft sum is the
\* codes of the longest length and a multiple of what a code frees by growing, twice.
LEMMA KraftParts ==
  ASSUME freq \in [Symbols -> Nat], NEW c, Booked(c), NEW best \in 1 .. (MaxLen - 1),
         \A l \in 1 .. (MaxLen - 1) : l > best => c[l] = 0
  PROVE  \E r \in Int : KraftOf(c) - Target = c[MaxLen] + 2 ^ (MaxLen - best) * r
<1>0. /\ c \in [1 .. MaxLen -> Nat] /\ MaxLen \in Nat \ {0} /\ MaxLen - best \in Nat
      /\ Target \in Nat
  BY UsedFinite DEF Booked
<1>1. PICK w : w = Weights(c)
  OBVIOUS
<1>2. /\ IsFiniteSet(1 .. MaxLen) /\ KraftOf(c) = SumOver(1 .. MaxLen, w) /\ KraftOf(c) \in Nat
      /\ \A l \in 1 .. MaxLen : w[l] \in Int /\ w[l] = c[l] * 2 ^ (MaxLen - l)
      /\ w[MaxLen] = c[MaxLen] /\ MaxLen \in 1 .. MaxLen
  <2>1. /\ IsFiniteSet(1 .. MaxLen) /\ MaxLen \in 1 .. MaxLen
        /\ \A l \in 1 .. MaxLen : Weights(c)[l] = c[l] * 2 ^ (MaxLen - l) /\ Weights(c)[l] \in Nat
        /\ Weights(c)[MaxLen] = c[MaxLen]
        /\ KraftOf(c) = SumOver(1 .. MaxLen, Weights(c)) /\ KraftOf(c) \in Nat
    BY <1>0, WeightsType, Zenon
  <2> QED BY <1>1, <2>1
<1>3. PICK P \in Nat : P = 2 ^ (MaxLen - best)
  BY <1>0, PowerIsPositive
<1> DEFINE S == 1 .. (MaxLen - 1)
           v == [l \in S |-> IF l <= best THEN c[l] * 2 ^ (best - l) ELSE 0]
<1>4. ASSUME NEW l \in S PROVE v[l] \in Int /\ w[l] = P * v[l]
  <2>1. CASE l <= best
    <3>1. best - l \in Nat /\ MaxLen - l = (MaxLen - best) + (best - l) /\ MaxLen - best \in Nat
      BY <1>0, <2>1
    <3>2. PICK e \in Nat : e = 2 ^ (best - l)
      BY <3>1, PowerIsPositive
    <3>3. 2 ^ ((MaxLen - best) + (best - l)) = 2 ^ (MaxLen - best) * 2 ^ (best - l)
      BY <3>1, PowerAdds
    <3>4. 2 ^ (MaxLen - l) = P * e
      BY <1>3, <3>1, <3>2, <3>3
    <3>5. PICK n \in Nat : n = c[l]
      BY <1>0
    <3>6. v[l] = n * e
      BY <2>1, <3>2, <3>5
    <3>7. l \in 1 .. MaxLen
      BY <1>0
    <3>8. w[l] = n * (P * e)
      BY <1>2, <3>4, <3>5, <3>7
    <3>9. n * (P * e) = P * (n * e) /\ n * e \in Int
      BY <1>3, <3>2, <3>5
    <3> HIDE DEF v
    <3> QED BY <3>6, <3>8, <3>9
  <2>2. CASE ~(l <= best)
    <3>1. l > best /\ l \in 1 .. MaxLen /\ MaxLen - l \in Nat
      BY <1>0, <2>2
    <3>2. c[l] = 0
      BY <3>1
    <3>3. w[l] = 0 * 2 ^ (MaxLen - l) /\ 2 ^ (MaxLen - l) \in Nat
      BY <1>2, <3>1, <3>2, PowerIsPositive
    <3>4. v[l] = 0
      BY <2>2
    <3>5. P * 0 = 0
      BY <1>3
    <3> HIDE DEF v
    <3> QED BY <3>3, <3>4, <3>5
  <2> QED BY <2>1, <2>2
<1>5. SumOver(1 .. MaxLen, w) = c[MaxLen] + SumOver(S, w)
  <2>1. PICK M : M = 1 .. MaxLen
    OBVIOUS
  <2>2. M \ {MaxLen} = S /\ M \in SUBSET M /\ MaxLen \in M
    BY <1>0, <2>1
  <2>3. SumOver(M, w) = w[MaxLen] + SumOver(M \ {MaxLen}, w)
    <3>1. IsFiniteSet(M) /\ \A l \in M : w[l] \in Int
      BY <1>2, <2>1
    <3>2. \A T \in SUBSET M : \A l \in T : SumOver(T, w) = w[l] + SumOver(T \ {l}, w)
      BY <3>1, TotalRules, Zenon
    <3> QED BY <2>2, <3>2
  <2> HIDE DEF S
  <2> QED BY <1>2, <2>1, <2>2, <2>3
<1>6. PICK t \in Int : t = SumOver(S, v) /\ SumOver(S, w) = P * t
  <2>1. IsFiniteSet(S)
    BY <1>0, FS_Interval
  <2>2. S \in SUBSET S
    OBVIOUS
  <2> HIDE DEF S, v
  <2>3. SumOver(S, v) \in Int
    BY <1>4, <2>1, <2>2, TotalRules
  <2>4. SumOver(S, w) = P * SumOver(S, v)
    BY <1>3, <1>4, <2>1, TotalScaled
  <2> QED BY <2>3, <2>4
<1>7. PICK b \in Nat : b = 2 ^ best /\ Target = P * b
  <2>1. best \in Nat /\ MaxLen = (MaxLen - best) + best
    BY <1>0
  <2>2. 2 ^ ((MaxLen - best) + best) = 2 ^ (MaxLen - best) * 2 ^ best /\ 2 ^ best \in Nat
    BY <1>0, <2>1, PowerAdds, PowerIsPositive
  <2> QED BY <1>3, <2>1, <2>2 DEF Target
<1>8. P * (t - b) = P * t - P * b /\ P * t \in Int /\ P * b \in Int /\ t - b \in Int
  BY <1>3, <1>6, <1>7
<1>9. c[MaxLen] \in Nat
  BY <1>0, <1>2
<1>10. KraftOf(c) - Target = c[MaxLen] + P * (t - b)
  <2>1. KraftOf(c) = c[MaxLen] + P * t
    BY <1>2, <1>5, <1>6
  <2>2. PICK x \in Int, y \in Int, z \in Nat : x = P * t /\ y = P * b /\ z = c[MaxLen]
    BY <1>8, <1>9
  <2>3. P * (t - b) = x - y
    BY <1>8, <2>2
  <2>4. KraftOf(c) = z + x /\ Target = y
    BY <1>7, <2>1, <2>2
  <2> QED BY <2>2, <2>3, <2>4
<1> QED BY <1>3, <1>8, <1>10

-----------------------------------------------------------------------------
\* The loops: over target or under it, the code misses it by less than the number of
\* codes of the longest length.
Balanced == Booked(count) /\ kraft = KraftOf(count)
Near == kraft - Target < count[MaxLen] /\ Target - kraft < count[MaxLen]
Fits == kraft <= Target /\ Target - kraft < count[MaxLen]

LEMMA LengthenNears ==
  ASSUME freq \in [Symbols -> Nat], Balanced, Near, Lengthen
  PROVE  Balanced' /\ Near'
<1>0. /\ Booked(count) /\ kraft = KraftOf(count) /\ kraft \in Nat /\ kraft > Target
      /\ count \in [1 .. MaxLen -> Nat] /\ Shorter(count) # {} /\ UNCHANGED freq
      /\ MaxLen \in Nat \ {0} /\ Target \in Nat /\ NumUsed \in Nat
  BY UsedFinite DEF Balanced, Booked, Lengthen
<1>1. PICK best : /\ best = Max(Shorter(count)) /\ best \in Shorter(count)
                  /\ \A l \in Shorter(count) : best >= l
  <2>1. Shorter(count) \in SUBSET (1 .. (MaxLen - 1)) /\ MaxLen - 1 \in Nat
    BY <1>0 DEF Shorter
  <2> QED BY <1>0, <2>1, MaxOf
<1>2. /\ best \in 1 .. (MaxLen - 1) /\ count[best] > 0
      /\ \A l \in 1 .. (MaxLen - 1) : l > best => count[l] = 0
  <2>1. best \in 1 .. (MaxLen - 1) /\ count[best] > 0
    BY <1>1 DEF Shorter
  <2>2. ASSUME NEW l \in 1 .. (MaxLen - 1), l > best PROVE count[l] = 0
    <3>1. l \notin Shorter(count)
      BY <1>1, <2>1, <2>2
    <3>2. count[l] \in Nat
      BY <1>0
    <3> QED BY <3>1, <3>2 DEF Shorter
  <2> QED BY <2>1, <2>2
<1>3. best \in 1 .. MaxLen /\ best + 1 \in 1 .. MaxLen /\ best # best + 1
  BY <1>0, <1>2
<1>4. count' = Move(count, best, best + 1) /\ kraft' = kraft - Freed(best)
  BY <1>1 DEF Lengthen
<1>5. /\ Booked(count')
      /\ KraftOf(count') = KraftOf(count) - 2 ^ (MaxLen - best) + 2 ^ (MaxLen - (best + 1))
      /\ count'[best + 1] = count[best + 1] + 1
      /\ \A l \in 1 .. MaxLen : l # best /\ l # best + 1 => count'[l] = count[l]
  <2>1. IsMove(count, Move(count, best, best + 1), best, best + 1)
    BY <1>0, <1>2, <1>3, MoveBooks
  <2> QED BY <1>4, <2>1 DEF IsMove
<1>6. PICK F \in Nat : F = Freed(best) /\ F = 2 ^ (MaxLen - (best + 1)) /\ F >= 1
                       /\ 2 ^ (MaxLen - best) = 2 * F
  <2>1. MaxLen - (best + 1) \in Nat /\ MaxLen - best - 1 = MaxLen - (best + 1)
        /\ MaxLen - best = (MaxLen - (best + 1)) + 1
    BY <1>0, <1>2
  <2>2. 2 ^ ((MaxLen - (best + 1)) + 1) = 2 * 2 ^ (MaxLen - (best + 1))
        /\ 2 ^ (MaxLen - (best + 1)) \in Nat /\ 2 ^ (MaxLen - (best + 1)) >= 1
    BY <2>1, PowerDoubles, PowerIsPositive
  <2> QED BY <2>1, <2>2 DEF Freed
<1>7. kraft' = KraftOf(count')
  BY <1>0, <1>4, <1>5, <1>6
<1>8. PICK m \in Nat : m = count[MaxLen] /\ count'[MaxLen] >= m /\ count'[MaxLen] \in Nat
  <2>1. MaxLen \in 1 .. MaxLen /\ MaxLen # best /\ count[MaxLen] \in Nat
    BY <1>0, <1>2
  <2> QED BY <1>5, <2>1
<1>9. kraft - Target + 2 * F <= m
  <2>1. PICK r \in Int : KraftOf(count) - Target = count[MaxLen] + 2 ^ (MaxLen - best) * r
    BY <1>0, <1>2, KraftParts
  <2>2. kraft - Target = m + (2 * F) * r
    BY <1>0, <1>6, <1>8, <2>1
  <2>3. kraft - Target < m
    BY <1>8 DEF Near
  <2>4. r <= 0 - 1
    <3>1. SUFFICES ASSUME 0 <= r PROVE FALSE
      OBVIOUS
    <3>2. (2 * F) * 0 <= (2 * F) * r /\ (2 * F) * r \in Int
      <4>1. 2 * F \in Nat
        BY <1>6
      <4> QED BY <3>1, <4>1, ProductGrows
    <3> QED BY <1>6, <1>8, <2>2, <2>3, <3>2
  <2>5. (2 * F) * r <= (2 * F) * (0 - 1) /\ (2 * F) * r \in Int
    <3>1. 2 * F \in Nat /\ 0 - 1 \in Int
      BY <1>6
    <3> QED BY <2>4, <3>1, ProductGrows
  <2>6. (2 * F) * (0 - 1) = 0 - 2 * F
    BY <1>6
  <2>7. PICK k \in Int, tg \in Int, x \in Int : k = kraft /\ tg = Target /\ x = (2 * F) * r
    BY <1>0, <2>5
  <2>8. k - tg = m + x /\ x <= 0 - 2 * F
    BY <2>2, <2>5, <2>6, <2>7
  <2> QED BY <1>6, <1>8, <2>7, <2>8
<1>10. kraft' = kraft - F /\ Target' = Target
  BY <1>4, <1>6 DEF Target
<1>11. kraft' - Target < count'[MaxLen] /\ Target - kraft' < count'[MaxLen]
  <2>1. PICK k \in Int, tg \in Int, n \in Nat : k = kraft /\ tg = Target /\ n = count'[MaxLen]
    BY <1>0, <1>8
  <2>2. k - tg + 2 * F <= m /\ n >= m /\ k > tg /\ F >= 1 /\ kraft' = k - F
    BY <1>0, <1>6, <1>8, <1>9, <1>10, <2>1
  <2>3. (k - F) - tg < n /\ tg - (k - F) < n
    BY <1>8, <2>1, <2>2
  <2> QED BY <2>1, <2>2, <2>3
<1>12. Booked(count)'
  <2>1. NumUsed' = NumUsed
    BY <1>0 DEF NumUsed, Occurring
  <2> QED BY <1>5, <2>1 DEF Booked
<1> QED BY <1>7, <1>10, <1>11, <1>12 DEF Balanced, Near

\* The first loop stops only when the codes fit: that none can grow never happens before.
LEMMA LengthenedFits ==
  ASSUME freq \in [Symbols -> Nat], Balanced, Near, Lengthened
  PROVE  Balanced' /\ Fits'
<1>1. UNCHANGED <<freq, count, kraft>> /\ (kraft <= Target \/ Shorter(count) = {})
  BY DEF Lengthened
<1>2. kraft <= Target
  <2>1. CASE Shorter(count) = {}
    <3>1. kraft = NumUsed
      BY <2>1, KraftFloor DEF Balanced
    <3> QED BY <3>1, UsedFinite
  <2> QED BY <1>1, <2>1
<1>3. Booked(count)'
  BY <1>1 DEF Balanced, Booked, NumUsed, Occurring
<1> QED BY <1>1, <1>2, <1>3 DEF Balanced, Near, Fits, Target

\* A turn of the second loop moves up one code or two by one bit, and never leaves the
\* loop while the code is under-full.
LEMMA ShortenFits ==
  ASSUME freq \in [Symbols -> Nat], NumUsed >= 2, Balanced, Fits, Shorten
  PROVE  Balanced' /\ Fits' /\ phase' = "under"
<1>0. /\ Booked(count) /\ kraft = KraftOf(count) /\ kraft \in Nat /\ kraft < Target
      /\ count \in [1 .. MaxLen -> Nat] /\ UNCHANGED freq
      /\ MaxLen \in Nat \ {0} /\ Target \in Nat /\ NumUsed \in Nat
      /\ Target - kraft < count[MaxLen]
  BY UsedFinite DEF Balanced, Booked, Fits, Shorten, UnderFull
<1>1. MaxLen >= 2
  <2>1. SUFFICES ASSUME MaxLen = 1 PROVE FALSE
    BY <1>0
  <2>2. kraft >= 2
    BY <1>0, KraftFloor
  <2>3. Target = 2
    <3>1. 2 ^ (0 + 1) = 2 * 2 ^ 0 /\ 2 ^ 0 = 1 /\ 0 + 1 = 1
      BY PowerDoubles
    <3> QED BY <2>1, <3>1 DEF Target
  <2> QED BY <1>0, <2>2, <2>3
<1> DEFINE L == MaxLen - 1
<1>2. L \in 1 .. MaxLen /\ MaxLen \in 1 .. MaxLen /\ L # MaxLen /\ L \in 1 .. (MaxLen - 1)
      /\ MaxLen - L = 1 /\ 2 ^ (MaxLen - L) = 2 /\ 2 ^ (MaxLen - MaxLen) = 1
  <2>1. 2 ^ (0 + 1) = 2 * 2 ^ 0 /\ 2 ^ 0 = 1 /\ 0 + 1 = 1
    BY PowerDoubles
  <2>2. MaxLen - L = 1 /\ MaxLen - MaxLen = 0
    BY <1>0, <1>1
  <2>3. 2 ^ (MaxLen - L) = 2 /\ 2 ^ (MaxLen - MaxLen) = 1
    <3>1. 2 ^ 1 = 2 /\ 2 ^ 0 = 1
      BY <2>1
    <3> HIDE DEF L
    <3> QED BY <2>2, <3>1, Zenon
  <2>4. L \in 1 .. MaxLen /\ MaxLen \in 1 .. MaxLen /\ L # MaxLen /\ L \in 1 .. (MaxLen - 1)
    BY <1>0, <1>1
  <2> HIDE DEF L
  <2> QED BY <2>2, <2>3, <2>4
<1>3. L \in Fitting /\ Max(Fitting) = L /\ Fitting # {}
  <2>1. L \in Fitting
    BY <1>0, <1>2 DEF Fitting
  <2>2. Fitting \in SUBSET (1 .. L) /\ L \in Nat
    BY <1>0, <1>1 DEF Fitting
  <2>3. Max(Fitting) \in Fitting /\ \A y \in Fitting : Max(Fitting) >= y
    <3> HIDE DEF L
    <3> QED BY <2>1, <2>2, MaxOf
  <2>4. Max(Fitting) \in 1 .. L /\ Max(Fitting) >= L
    BY <2>1, <2>2, <2>3
  <2> QED BY <2>1, <2>2, <2>4
<1> DEFINE c1 == Move(count, MaxLen, L)
           k1 == kraft + 2 ^ (MaxLen - L) - 1
           again == k1 < Target /\ k1 + 1 <= Target /\ c1[MaxLen] >= 2
<1>4. /\ count' = IF again THEN Move(c1, MaxLen, MaxLen - 1) ELSE c1
      /\ kraft' = IF again THEN k1 + 1 ELSE k1
      /\ phase' = IF k1 < Target /\ ~again THEN "deal" ELSE "under"
  BY <1>3 DEF Shorten, StepUp
<1>5. PICK m \in Nat : m = count[MaxLen] /\ m > 1
  BY <1>0, <1>2
<1>6. Booked(c1) /\ KraftOf(c1) = kraft + 1 /\ k1 = kraft + 1 /\ c1[MaxLen] = m - 1
  <2>1. count[MaxLen] > 0
    BY <1>5
  <2>2. /\ Booked(c1) /\ c1[MaxLen] = count[MaxLen] - 1
        /\ KraftOf(c1) = KraftOf(count) - 2 ^ (MaxLen - MaxLen) + 2 ^ (MaxLen - L)
    <3> HIDE DEF L
    <3>1. IsMove(count, Move(count, MaxLen, L), MaxLen, L)
      BY <1>0, <1>2, <2>1, MoveBooks
    <3> QED BY <3>1 DEF IsMove
  <2> HIDE DEF L, c1
  <2> QED BY <1>0, <1>2, <1>5, <2>2
<1>7. Target' = Target /\ NumUsed' = NumUsed
  BY <1>0 DEF Target, NumUsed, Occurring
<1>8. CASE again
  <2>1. count' = Move(c1, MaxLen, L) /\ kraft' = k1 + 1 /\ phase' = "under" /\ k1 < Target
        /\ c1[MaxLen] >= 2
    BY <1>4, <1>8
  <2> HIDE DEF again, k1, L, c1
  <2>2. c1[MaxLen] > 0
    BY <1>5, <2>1, <1>6
  <2>3. /\ Booked(count') /\ count'[MaxLen] = c1[MaxLen] - 1
        /\ KraftOf(count') = KraftOf(c1) - 2 ^ (MaxLen - MaxLen) + 2 ^ (MaxLen - L)
    <3>1. IsMove(c1, Move(c1, MaxLen, L), MaxLen, L)
      BY <1>2, <1>6, <2>2, MoveBooks
    <3> QED BY <2>1, <3>1 DEF IsMove
  <2>4. KraftOf(count') = kraft + 2 /\ kraft' = kraft + 2 /\ count'[MaxLen] = m - 2
    <3>1. KraftOf(count') = (kraft + 1) - 1 + 2
      BY <1>2, <1>6, <2>3, Zenon
    <3>2. kraft' = (kraft + 1) + 1
      BY <1>6, <2>1
    <3>3. count'[MaxLen] = (m - 1) - 1
      BY <1>6, <2>3
    <3> QED BY <1>0, <1>5, <3>1, <3>2, <3>3
  <2>5. kraft' <= Target /\ Target - kraft' < count'[MaxLen]
    BY <1>0, <1>5, <1>6, <2>1, <2>4, SMTT(40)
  <2>6. Booked(count)'
    BY <1>7, <2>3 DEF Booked
  <2> QED BY <1>7, <2>1, <2>4, <2>5, <2>6 DEF Balanced, Fits
<1>9. CASE ~again
  <2>1. k1 = Target
    <3>1. ~(k1 < Target /\ k1 + 1 <= Target /\ c1[MaxLen] >= 2)
      BY <1>9
    <3> HIDE DEF again, k1, L, c1
    <3> QED BY <1>0, <1>5, <1>6, <3>1
  <2>2. count' = c1 /\ kraft' = k1 /\ phase' = "under"
    <3>1. ~(k1 < Target)
      BY <1>0, <2>1
    <3> HIDE DEF again, k1, L, c1
    <3> QED BY <1>4, <1>9, <3>1
  <2> HIDE DEF again, k1, L, c1
  <2>3. kraft' = KraftOf(count') /\ kraft' <= Target /\ Target - kraft' < count'[MaxLen]
    <3>1. kraft' = kraft + 1 /\ KraftOf(count') = kraft + 1 /\ count'[MaxLen] = m - 1
      BY <1>6, <2>2
    <3>2. kraft' = Target
      BY <2>1, <2>2
    <3>3. m \in Int /\ m > 1 /\ Target \in Int
      BY <1>0, <1>5
    <3> QED BY <3>1, <3>2, <3>3, SMTT(40)
  <2>4. Booked(count)'
    BY <1>6, <1>7, <2>2 DEF Booked
  <2> QED BY <1>7, <2>2, <2>3, <2>4 DEF Balanced, Fits
<1> QED BY <1>8, <1>9

\* The second loop ends with the code full.
LEMMA ShortenedFull ==
  ASSUME freq \in [Symbols -> Nat], Balanced, Fits, Shortened
  PROVE  Balanced' /\ kraft' = Target
<1>1. UNCHANGED <<freq, count, kraft>> /\ ~(kraft < Target /\ count[MaxLen] > 0) /\ phase = "under"
  BY DEF Shortened, UnderFull
<1>2. kraft \in Nat /\ Target \in Nat /\ kraft <= Target /\ Target - kraft < count[MaxLen]
  BY UsedFinite DEF Balanced, Booked, Fits
<1>3. count[MaxLen] \in Nat
  <2>1. MaxLen \in 1 .. MaxLen /\ count \in [1 .. MaxLen -> Nat]
    BY UsedFinite DEF Balanced, Booked
  <2> QED BY <2>1
<1>4. kraft = Target
  BY <1>1, <1>2, <1>3
<1>5. Booked(count)'
  BY <1>1 DEF Balanced, Booked, NumUsed, Occurring
<1> QED BY <1>1, <1>4, <1>5 DEF Balanced

-----------------------------------------------------------------------------
\* Dealing the lengths out: the places from 1 on are cut into as many of each length as
\* the books say.
Ends(c, l) == SumOver(1 .. l, c)
LengthAt(c, x) == CHOOSE l \in 1 .. MaxLen : Ends(c, l - 1) < x /\ x <= Ends(c, l)

LEMMA EndsRise ==
  ASSUME freq \in [Symbols -> Nat], NEW c, Booked(c)
  PROVE  /\ \A l \in 0 .. MaxLen : Ends(c, l) \in Nat
         /\ Ends(c, 0) = 0 /\ Ends(c, MaxLen) = NumUsed
         /\ \A l \in 1 .. MaxLen : Ends(c, l) = Ends(c, l - 1) + c[l]
         /\ \A l \in 0 .. MaxLen, k \in 0 .. MaxLen : l <= k => Ends(c, l) <= Ends(c, k)
<1>0. /\ c \in [1 .. MaxLen -> Nat] /\ SumOver(1 .. MaxLen, c) = NumUsed /\ MaxLen \in Nat
  BY UsedFinite DEF Booked
<1>1. ASSUME NEW l \in 0 .. MaxLen
      PROVE  IsFiniteSet(1 .. l) /\ \A i \in 1 .. l : c[i] \in Nat /\ c[i] \in Int
  <2>1. l \in Int /\ 1 \in Int
    BY <1>0
  <2>2. IsFiniteSet(1 .. l)
    BY <2>1, FS_Interval
  <2>3. ASSUME NEW i \in 1 .. l PROVE c[i] \in Nat /\ c[i] \in Int
    <3>1. i \in 1 .. MaxLen
      BY <1>0
    <3>2. c[i] \in Nat
      BY <1>0, <3>1
    <3> QED BY <3>2
  <2> QED BY <2>2, <2>3
<1>2. ASSUME NEW l \in 0 .. MaxLen PROVE Ends(c, l) \in Nat
  BY <1>1, TotalNat DEF Ends
<1>3. Ends(c, 0) = 0
  <2>1. 0 \in 0 .. MaxLen /\ 1 .. 0 = {}
    BY <1>0
  <2>2. IsFiniteSet({}) /\ \A i \in {} : c[i] \in Int
    BY FS_EmptySet
  <2>3. SumOver({}, c) = 0
    BY <2>2, TotalRules
  <2> QED BY <2>1, <2>3 DEF Ends
<1>4. ASSUME NEW l \in 1 .. MaxLen PROVE Ends(c, l) = Ends(c, l - 1) + c[l]
  <2>1. PICK S : S = 1 .. l
    OBVIOUS
  <2>2. l \in 0 .. MaxLen /\ l - 1 \in 0 .. MaxLen /\ l \in S /\ S \ {l} = 1 .. (l - 1) /\ S \in SUBSET S
    BY <1>0, <2>1
  <2>3. IsFiniteSet(S) /\ \A i \in S : c[i] \in Int
    BY <1>1, <2>1, <2>2
  <2>4. SumOver(S, c) = c[l] + SumOver(S \ {l}, c)
    BY <2>2, <2>3, TotalRules
  <2>5. c[l] \in Nat /\ Ends(c, l - 1) \in Nat
    BY <1>0, <1>2, <2>2
  <2>6. Ends(c, l) = SumOver(S, c) /\ Ends(c, l - 1) = SumOver(S \ {l}, c)
    BY <2>1, <2>2 DEF Ends
  <2> QED BY <2>4, <2>5, <2>6
<1>5. ASSUME NEW l \in 0 .. MaxLen, NEW k \in 0 .. MaxLen, l <= k PROVE Ends(c, l) <= Ends(c, k)
  <2>1. PICK S, T : S = 1 .. k /\ T = 1 .. l
    OBVIOUS
  <2>2. T \in SUBSET S /\ IsFiniteSet(S) /\ \A i \in S : c[i] \in Nat
    BY <1>1, <1>5, <2>1
  <2>3. SumOver(T, c) <= SumOver(S, c)
    BY <2>2, TotalWithin
  <2> QED BY <2>1, <2>3 DEF Ends
<1> QED BY <1>0, <1>2, <1>3, <1>4, <1>5 DEF Ends

LEMMA LengthsCut ==
  ASSUME freq \in [Symbols -> Nat], NEW c, Booked(c)
  PROVE  /\ \A x \in 1 .. NumUsed : LengthAt(c, x) \in 1 .. MaxLen
         /\ \A l \in 1 .. MaxLen :
              Cardinality({x \in 1 .. NumUsed : LengthAt(c, x) = l}) = c[l]
<1>0. /\ \A l \in 0 .. MaxLen : Ends(c, l) \in Nat
      /\ Ends(c, 0) = 0 /\ Ends(c, MaxLen) = NumUsed
      /\ \A l \in 1 .. MaxLen : Ends(c, l) = Ends(c, l - 1) + c[l]
      /\ \A l \in 0 .. MaxLen, k \in 0 .. MaxLen : l <= k => Ends(c, l) <= Ends(c, k)
  BY EndsRise
<1>1. MaxLen \in Nat /\ NumUsed \in Nat /\ c \in [1 .. MaxLen -> Nat]
  BY UsedFinite DEF Booked
<1>2. ASSUME NEW x \in 1 .. NumUsed
      PROVE  \E l \in 1 .. MaxLen : Ends(c, l - 1) < x /\ x <= Ends(c, l)
  <2> DEFINE W == {k \in Nat : k <= MaxLen /\ x <= Ends(c, k) =>
                     \E l \in 1 .. MaxLen : Ends(c, l - 1) < x /\ x <= Ends(c, l)}
  <2>1. 0 \in W
    BY <1>0
  <2>2. ASSUME NEW k \in Nat, k \in W PROVE k + 1 \in W
    <3> SUFFICES ASSUME k + 1 <= MaxLen, x <= Ends(c, k + 1)
                 PROVE  \E l \in 1 .. MaxLen : Ends(c, l - 1) < x /\ x <= Ends(c, l)
      OBVIOUS
    <3>0. k \in 0 .. MaxLen /\ k <= MaxLen /\ (k + 1) - 1 = k /\ k + 1 \in 1 .. MaxLen
      BY <1>1
    <3>1. Ends(c, k) \in Nat /\ (k + 1) - 1 = k /\ k + 1 \in 1 .. MaxLen
      BY <1>0, <3>0
    <3>2. CASE x <= Ends(c, k)
      BY <2>2, <3>0, <3>2
    <3>3. CASE ~(x <= Ends(c, k))
      <4>1. Ends(c, (k + 1) - 1) < x
        BY <3>1, <3>3
      <4> QED BY <3>1, <4>1
    <3> QED BY <3>2, <3>3
  <2>3. MaxLen \in W
    <3> HIDE DEF W
    <3> QED BY <1>1, <2>1, <2>2, NatInduction0
  <2> QED BY <1>0, <1>1, <2>3
<1>3. \A x \in 1 .. NumUsed : /\ LengthAt(c, x) \in 1 .. MaxLen
                              /\ Ends(c, LengthAt(c, x) - 1) < x /\ x <= Ends(c, LengthAt(c, x))
  BY <1>2 DEF LengthAt
<1>4. ASSUME NEW l \in 1 .. MaxLen
      PROVE  Cardinality({x \in 1 .. NumUsed : LengthAt(c, x) = l}) = c[l]
  <2>1. PICK a \in Nat, b \in Nat : a = Ends(c, l - 1) /\ b = Ends(c, l) /\ b = a + c[l] /\ b <= NumUsed
    <3>1. l - 1 \in 0 .. MaxLen /\ l \in 0 .. MaxLen /\ MaxLen \in 0 .. MaxLen /\ l <= MaxLen
      BY <1>1
    <3> QED BY <1>0, <3>1
  <2>2. ASSUME NEW x \in 1 .. NumUsed, LengthAt(c, x) = l PROVE x \in (a + 1) .. b
    <3>1. Ends(c, LengthAt(c, x) - 1) < x /\ x <= Ends(c, LengthAt(c, x))
      BY <1>3
    <3>2. a < x /\ x <= b
      BY Zenon, <2>1, <2>2, <3>1
    <3> QED BY <1>1, <2>1, <3>2
  <2>3. ASSUME NEW x \in (a + 1) .. b PROVE x \in 1 .. NumUsed /\ LengthAt(c, x) = l
    <3>1. x \in 1 .. NumUsed
      BY <1>1, <2>1
    <3>2. PICK k \in 1 .. MaxLen : k = LengthAt(c, x) /\ Ends(c, k - 1) < x /\ x <= Ends(c, k)
      BY <1>3, <3>1
    <3>3. /\ k - 1 \in 0 .. MaxLen /\ k \in 0 .. MaxLen /\ l - 1 \in 0 .. MaxLen /\ l \in 0 .. MaxLen
      BY <1>1
    <3>4. ~(k <= l - 1)
      <4>1. SUFFICES ASSUME k <= l - 1 PROVE FALSE
        OBVIOUS
      <4>2. Ends(c, k) <= a /\ Ends(c, k) \in Nat
        BY <1>0, <2>1, <3>3, <4>1
      <4> QED BY <3>2, <4>2
    <3>5. ~(l <= k - 1)
      <4>1. SUFFICES ASSUME l <= k - 1 PROVE FALSE
        OBVIOUS
      <4>2. b <= Ends(c, k - 1) /\ Ends(c, k - 1) \in Nat
        BY <1>0, <2>1, <3>3, <4>1
      <4> QED BY <3>2, <4>2
    <3> QED BY <3>1, <3>2, <3>4, <3>5
  <2>4. {x \in 1 .. NumUsed : LengthAt(c, x) = l} = (a + 1) .. b
    BY <2>2, <2>3
  <2>5. Cardinality((a + 1) .. b) = b - a
    <3>1. a + 1 \in Int /\ b \in Int /\ a <= b
      BY <1>1, <2>1
    <3>2. Cardinality((a + 1) .. b) = IF a + 1 > b THEN 0 ELSE b - (a + 1) + 1
      BY <3>1, FS_Interval
    <3> QED BY <3>1, <3>2
  <2>6. PICK n \in Nat : n = c[l]
    BY <1>1
  <2>7. b - a = n
    BY <2>1, <2>6
  <2> QED BY Zenon, <2>4, <2>5, <2>6, <2>7
<1> QED BY <1>3, <1>4

LEMMA DealCompletes ==
  ASSUME freq \in [Symbols -> Nat], NumUsed >= 2, Coding(lens), Balanced, kraft = Target, Deal
  PROVE  /\ UNCHANGED freq /\ phase' = "done" /\ Coding(lens')
         /\ \A s \in Symbols : lens'[s] <= MaxLen
         /\ CodeSum(lens', Occurring) = Target
<1>0. /\ IsFiniteSet(Occurring) /\ Occurring \subseteq Symbols /\ NumUsed \in Nat
      /\ MaxLen \in Nat \ {0} /\ Booked(count) /\ KraftOf(count) = Target
      /\ NumUsed = Cardinality(Occurring)
  BY UsedFinite DEF Balanced, NumUsed
<1>1. \A s \in Occurring : s \in Nat /\ Clamped(lens[s]) \in Nat
  <2>1. \A s \in Occurring : s \in Nat /\ lens[s] \in Nat
    BY <1>0, AlphabetAssumption DEF Coding
  <2> QED BY <1>0, <2>1 DEF Clamped
<1> DEFINE R == {pr \in Occurring \X Occurring : DealtBefore(pr[1], pr[2])}
           p == [s \in Occurring |-> Cardinality(Upto(Occurring, R, s))]
           n == NumUsed
<1>2. \A s, t \in Occurring : <<s, t>> \in R <=> DealtBefore(s, t)
  OBVIOUS
<1>3. IsOrder(Occurring, R)
  <2> HIDE DEF R
  <2>1. /\ \A s \in Occurring : DealtBefore(s, s)
        /\ \A s, t \in Occurring : DealtBefore(s, t) \/ DealtBefore(t, s)
        /\ \A s, t \in Occurring : DealtBefore(s, t) /\ DealtBefore(t, s) => s = t
    BY <1>1 DEF DealtBefore
  <2>2. \A s, t, u \in Occurring : DealtBefore(s, t) /\ DealtBefore(t, u) => DealtBefore(s, u)
    BY <1>1 DEF DealtBefore
  <2> QED BY <1>2, <2>1, <2>2 DEF IsOrder
<1>4. p \in Bijection(Occurring, 1 .. n)
  <2>1. p = [s \in Occurring |-> Cardinality(Upto(Occurring, R, s))]
    OBVIOUS
  <2> HIDE DEF R, p
  <2>2. p \in Bijection(Occurring, 1 .. Cardinality(Occurring))
    BY <1>0, <1>3, <2>1, PlacesNumber
  <2> QED BY <1>0, <2>2
<1>5. \A s \in Occurring : p[s] = Cardinality({t \in Occurring : DealtBefore(t, s)})
  <2> SUFFICES ASSUME NEW s \in Occurring
               PROVE  p[s] = Cardinality({t \in Occurring : DealtBefore(t, s)})
    OBVIOUS
  <2>1. Upto(Occurring, R, s) = {t \in Occurring : DealtBefore(t, s)}
    <3> HIDE DEF R
    <3> QED BY <1>2 DEF Upto
  <2>2. p[s] = Cardinality(Upto(Occurring, R, s))
    OBVIOUS
  <2> QED BY <2>1, <2>2
<1> HIDE DEF p, R
<1>6. /\ lens' = [s \in Symbols |->
                    IF s \notin Occurring THEN 0
                    ELSE LengthAt(count, Cardinality({t \in Occurring : DealtBefore(t, s)}))]
      /\ UNCHANGED freq /\ phase' = "done"
  BY Zenon DEF Deal, LengthAt, Ends, SumOver
<1>7. \A s \in Occurring : p[s] \in 1 .. n
  BY <1>4 DEF Bijection, Injection
<1>8. \A s \in Symbols : lens'[s] = IF s \notin Occurring THEN 0 ELSE LengthAt(count, p[s])
  BY <1>5, <1>6
<1>9. /\ \A x \in 1 .. n : LengthAt(count, x) \in 1 .. MaxLen
      /\ \A l \in 1 .. MaxLen : Cardinality({x \in 1 .. n : LengthAt(count, x) = l}) = count[l]
  BY <1>0, LengthsCut
<1>10. \A s \in Occurring : lens'[s] = LengthAt(count, p[s]) /\ lens'[s] \in 1 .. MaxLen
  BY <1>0, <1>7, <1>8, <1>9
<1>11. Coding(lens') /\ \A s \in Symbols : lens'[s] <= MaxLen
  <2>1. lens' = [s \in Symbols |-> lens'[s]]
    BY <1>6
  <2>2. \A s \in Symbols : lens'[s] \in Nat /\ lens'[s] <= MaxLen /\ (lens'[s] > 0 <=> s \in Occurring)
    BY <1>0, <1>8, <1>10
  <2> QED BY <2>1, <2>2 DEF Coding
<1> DEFINE G == [x \in 1 .. n |-> LengthAt(count, x)]
           e == [l \in 1 .. MaxLen |-> 2 ^ (MaxLen - l)]
           h == [x \in 1 .. n |-> e[G[x]]]
<1>12. \A l \in 1 .. MaxLen : e[l] = 2 ^ (MaxLen - l) /\ e[l] \in Int
  <2> SUFFICES ASSUME NEW l \in 1 .. MaxLen PROVE e[l] = 2 ^ (MaxLen - l) /\ e[l] \in Int
    OBVIOUS
  <2>1. MaxLen - l \in Nat /\ e[l] = 2 ^ (MaxLen - l)
    BY <1>0
  <2> QED BY <2>1, PowerIsPositive
<1>13. \A x \in 1 .. n : h[x] = e[G[x]] /\ G[x] = LengthAt(count, x) /\ G[x] \in 1 .. MaxLen /\ h[x] \in Int
  <2> SUFFICES ASSUME NEW x \in 1 .. n
               PROVE  h[x] = e[G[x]] /\ G[x] = LengthAt(count, x) /\ G[x] \in 1 .. MaxLen /\ h[x] \in Int
    OBVIOUS
  <2>1. h[x] = e[G[x]] /\ G[x] = LengthAt(count, x)
    OBVIOUS
  <2> HIDE DEF h, e, G
  <2> QED BY <1>9, <1>12, <2>1
<1> HIDE DEF G, e, h
<1>14. FeatureSum(1 .. n, G, e, h, Weights(count), 1 .. MaxLen)
  <2>1. \A l \in 1 .. MaxLen : Weights(count)[l] = Cardinality(Sharing(1 .. n, G, l)) * e[l]
    <3> SUFFICES ASSUME NEW l \in 1 .. MaxLen
                 PROVE  Weights(count)[l] = Cardinality(Sharing(1 .. n, G, l)) * e[l]
      OBVIOUS
    <3>1. Sharing(1 .. n, G, l) = {x \in 1 .. n : LengthAt(count, x) = l}
      BY <1>13 DEF Sharing
    <3>2. Cardinality(Sharing(1 .. n, G, l)) = count[l]
      BY <1>9, <3>1
    <3>3. Weights(count)[l] = count[l] * 2 ^ (MaxLen - l)
      BY DEF Weights
    <3> QED BY <1>12, <3>2, <3>3
  <2> QED BY <1>12, <1>13, <2>1 DEF FeatureSum
<1>15. SumOver(1 .. n, h) = Target
  <2>1. IsFiniteSet(1 .. n) /\ IsFiniteSet(1 .. MaxLen)
    BY <1>0, FS_Interval
  <2>2. SumOver(1 .. n, h) = SumOver(1 .. MaxLen, Weights(count))
    BY <1>14, <2>1, TotalByFeature
  <2> QED BY <1>0, <2>2, KraftOfIsSum
<1>16. PICK S, T : S = LengthShares(lens', Occurring, MaxLen) /\ T = 1 .. n
  OBVIOUS
<1>17. \A s \in Occurring : S[s] = h[p[s]]
  <2> SUFFICES ASSUME NEW s \in Occurring PROVE S[s] = h[p[s]]
    OBVIOUS
  <2>1. S[s] = 2 ^ (MaxLen - lens'[s])
    BY <1>16 DEF LengthShares
  <2>2. h[p[s]] = e[lens'[s]] /\ lens'[s] \in 1 .. MaxLen
    BY <1>7, <1>10, <1>13
  <2> QED BY <1>12, <2>1, <2>2
<1>18. SumOver(Occurring, S) = SumOver(T, h)
  <2>1. p \in Bijection(Occurring, T) /\ \A x \in T : h[x] \in Int
    BY <1>4, <1>13, <1>16
  <2> QED BY <1>0, <1>17, <2>1, TotalRenamed
<1>19. CodeSum(lens', Occurring) = SumOver(Occurring, S)
  BY <1>0, <1>16, CodeSumIsSum
<1> QED BY <1>6, <1>11, <1>15, <1>16, <1>18, <1>19

-----------------------------------------------------------------------------
\* The limiter's bins.  A leaf at depth d needs a total weight of Fib[d + 2].
FibOn(f, k) == f = [d \in 0 .. k |-> IF d < 2 THEN d ELSE f[d - 1] + f[d - 2]]

LEMMA FibExists == \A k \in Nat : \E f : FibOn(f, k)
<1> DEFINE W == {k \in Nat : \E f : FibOn(f, k)}
<1>1. 0 \in W
  <2> DEFINE f == [d \in 0 .. 0 |-> 0]
  <2>1. f = [d \in 0 .. 0 |-> IF d < 2 THEN d ELSE f[d - 1] + f[d - 2]]
    OBVIOUS
  <2> HIDE DEF f
  <2>2. FibOn(f, 0)
    BY <2>1 DEF FibOn
  <2> QED BY <2>2
<1>2. ASSUME NEW k \in Nat, k \in W PROVE k + 1 \in W
  <2>1. PICK f : FibOn(f, k)
    BY <1>2
  <2>2. \A d \in 0 .. k : f[d] = IF d < 2 THEN d ELSE f[d - 1] + f[d - 2]
    BY <2>1 DEF FibOn
  <2> DEFINE g == [d \in 0 .. (k + 1) |-> IF d < 2 THEN d ELSE f[d - 1] + f[d - 2]]
             h == [d \in 0 .. (k + 1) |-> IF d < 2 THEN d ELSE g[d - 1] + g[d - 2]]
  <2>3. \A d \in 0 .. k : g[d] = f[d]
    <3> SUFFICES ASSUME NEW d \in 0 .. k PROVE g[d] = f[d]
      OBVIOUS
    <3>1. d \in 0 .. (k + 1)
      OBVIOUS
    <3>2. g[d] = IF d < 2 THEN d ELSE f[d - 1] + f[d - 2]
      BY <3>1
    <3> QED BY <2>2, <3>2
  <2>4. \A d \in 0 .. (k + 1) : g[d] = h[d]
    <3> SUFFICES ASSUME NEW d \in 0 .. (k + 1) PROVE g[d] = h[d]
      OBVIOUS
    <3>1. d < 2 \/ (d - 1 \in 0 .. k /\ d - 2 \in 0 .. k)
      OBVIOUS
    <3>2. d < 2 \/ (g[d - 1] = f[d - 1] /\ g[d - 2] = f[d - 2])
      BY <2>3, <3>1
    <3>3. g[d] = IF d < 2 THEN d ELSE f[d - 1] + f[d - 2]
      OBVIOUS
    <3>4. h[d] = IF d < 2 THEN d ELSE g[d - 1] + g[d - 2]
      OBVIOUS
    <3> HIDE DEF g, h
    <3> QED BY <3>2, <3>3, <3>4
  <2>5. g = [d \in 0 .. (k + 1) |-> g[d]] /\ h = [d \in 0 .. (k + 1) |-> h[d]]
    OBVIOUS
  <2>6. g = h
    <3> HIDE DEF g, h
    <3> QED BY <2>4, <2>5
  <2>7. FibOn(g, k + 1)
    <3> HIDE DEF g
    <3> QED BY <2>6 DEF FibOn
  <2> HIDE DEF g, h
  <2> QED BY <2>7
<1> HIDE DEF W
<1>3. \A k \in Nat : k \in W
  BY <1>1, <1>2, NatInduction0
<1> QED BY <1>3 DEF W

LEMMA FibRules ==
  /\ Bins \in Nat /\ \A d \in 0 .. (Bins + 2) : Fib[d] \in Nat
  /\ Fib[0] = 0 /\ Fib[1] = 1 /\ \A d \in 0 .. Bins : Fib[d + 2] = Fib[d + 1] + Fib[d]
<1>0. Bins \in Nat
  BY BinsAssumption
<1>1. FibOn(Fib, Bins + 2)
  <2>1. \E f : FibOn(f, Bins + 2)
    BY <1>0, FibExists
  <2>2. Fib = CHOOSE f : FibOn(f, Bins + 2)
    BY Zenon DEF Fib, FibOn
  <2> QED BY <2>1, <2>2, Zenon
<1>2. \A d \in 0 .. (Bins + 2) : Fib[d] = IF d < 2 THEN d ELSE Fib[d - 1] + Fib[d - 2]
  BY <1>1 DEF FibOn
<1>3. Fib[0] = 0 /\ Fib[1] = 1
  BY <1>0, <1>2
<1>4. ASSUME NEW d \in 0 .. Bins PROVE Fib[d + 2] = Fib[d + 1] + Fib[d]
  <2>1. d + 2 \in 0 .. (Bins + 2) /\ ~(d + 2 < 2) /\ (d + 2) - 1 = d + 1 /\ (d + 2) - 2 = d
    BY <1>0
  <2> QED BY <1>2, <2>1
<1> DEFINE W == {k \in Nat : k <= Bins + 1 => Fib[k] \in Nat /\ Fib[k + 1] \in Nat}
<1>5. 0 \in W
  BY <1>3
<1>6. ASSUME NEW k \in Nat, k \in W PROVE k + 1 \in W
  <2> SUFFICES ASSUME k + 1 <= Bins + 1 PROVE Fib[k + 1] \in Nat /\ Fib[(k + 1) + 1] \in Nat
    OBVIOUS
  <2>1. k \in 0 .. Bins /\ k <= Bins + 1 /\ (k + 1) + 1 = k + 2
    BY <1>0
  <2>2. Fib[k] \in Nat /\ Fib[k + 1] \in Nat /\ Fib[k + 2] = Fib[k + 1] + Fib[k]
    BY <1>4, <1>6, <2>1
  <2> QED BY <2>1, <2>2
<1> HIDE DEF W
<1>7. \A k \in Nat : k \in W
  BY <1>5, <1>6, NatInduction0
<1>8. ASSUME NEW d \in 0 .. (Bins + 2) PROVE Fib[d] \in Nat
  <2>1. d \in Nat /\ (d <= Bins + 1 \/ d = Bins + 2)
    BY <1>0
  <2>2. CASE d <= Bins + 1
    BY <1>7, <2>1, <2>2 DEF W
  <2>3. CASE d = Bins + 2
    <3>1. Bins + 1 \in W /\ (Bins + 1) + 1 = Bins + 2
      BY <1>0, <1>7
    <3>2. Fib[(Bins + 1) + 1] \in Nat
      BY <1>0, <3>1 DEF W
    <3> QED BY <2>3, <3>1, <3>2
  <2> QED BY <2>1, <2>2, <2>3
<1> QED BY <1>0, <1>3, <1>4, <1>8

\* One step up the tree, in the weights it takes.
LEMMA UpOne ==
  ASSUME NEW F \in Nat, NEW G \in Nat, NEW x \in Nat, NEW c \in Nat, NEW y \in Nat, NEW W \in Nat,
         W >= F * y + G * x, y >= x + c
  PROVE  W >= (F + G) * x + F * c
<1>1. F * (x + c) <= F * y /\ F * y \in Int
  BY ProductGrows
<1>2. F * (x + c) = F * x + F * c /\ F * x \in Int /\ F * c \in Int
  BY Distributes
<1>3. (F + G) * x = F * x + G * x /\ G * x \in Int
  <2>1. x * (F + G) = x * F + x * G
    BY Distributes
  <2>2. x * (F + G) = (F + G) * x /\ x * F = F * x /\ x * G = G * x /\ G * x \in Int
    OBVIOUS
  <2> QED BY <2>1, <2>2
<1> QED BY <1>1, <1>2, <1>3

\* A node weighs at least one less than its parent, and a node is never heavier than the
\* sibling of its parent.
Heavy(q, n, w) ==
  \A i \in 1 .. n : w[i] \in Nat /\ w[i] >= 1 /\ (i # n => w[q[i]] >= w[i] + 1)
Nephews(q, n, w) ==
  \A i \in 1 .. n : i # n /\ q[i] # n => w[q[q[i]]] >= w[q[i]] + w[i]
Bears(q, n, d, w, t) ==
  \A i \in 1 .. n : d[i] = t =>
    \A c \in Nat : (i # n => w[q[i]] >= w[i] + c) => w[n] >= Fib[t + 1] * w[i] + Fib[t] * c

LEMMA DeepIsHeavy ==
  ASSUME NEW n \in Nat \ {0}, NEW q, Upward(q, n), NEW d, IsDepth(d, q, n),
         NEW w, Heavy(q, n, w), Nephews(q, n, w), NEW x \in 1 .. n, d[x] >= Bins, Bins >= 1
  PROVE  w[n] >= Fib[Bins + 2]
<1>1. /\ d[n] = 0 /\ \A i \in 1 .. n : d[i] \in Nat
      /\ \A i \in 1 .. n : i # n => d[i] = d[q[i]] + 1 /\ d[i] >= 1
  <2>1. /\ d[n] = 0 /\ \A i \in 1 .. n : d[i] \in 0 .. (n - i)
        /\ \A i \in 1 .. n : i # n => d[i] = d[q[i]] + 1 /\ d[i] >= 1
    BY DepthType
  <2>2. \A i \in 1 .. n : d[i] \in Nat
    <3> SUFFICES ASSUME NEW i \in 1 .. n PROVE d[i] \in Nat
      OBVIOUS
    <3>1. d[i] \in 0 .. (n - i)
      BY <2>1
    <3> QED BY <3>1
  <2> QED BY <2>1, <2>2
<1>2. \A i \in 1 .. n : i # n => q[i] \in 1 .. n
  <2> SUFFICES ASSUME NEW i \in 1 .. n, i # n PROVE q[i] \in 1 .. n
    OBVIOUS
  <2>1. q[i] \in (i + 1) .. n
    BY DEF Upward
  <2> QED BY <2>1
<1>3. n \in 1 .. n /\ Bins \in Nat
  BY FibRules
<1>4. \A i \in 1 .. n : w[i] \in Nat /\ w[i] >= 1 /\ (i # n => w[q[i]] >= w[i] + 1)
  BY DEF Heavy
<1> DEFINE W == {t \in Nat : t <= Bins => Bears(q, n, d, w, t)}
<1>5. 0 \in W
  <2> SUFFICES ASSUME NEW i \in 1 .. n, d[i] = 0, NEW c \in Nat
               PROVE  w[n] >= Fib[0 + 1] * w[i] + Fib[0] * c
    BY DEF Bears
  <2>1. i = n
    BY <1>1
  <2>2. Fib[0 + 1] = 1 /\ Fib[0] = 0
    BY FibRules
  <2>3. w[n] \in Nat /\ 1 * w[n] = w[n] /\ 0 * c = 0
    BY <1>3, <1>4
  <2> QED BY <2>1, <2>2, <2>3
<1>6. ASSUME NEW t \in Nat, t \in W PROVE t + 1 \in W
  <2> SUFFICES ASSUME t + 1 <= Bins, NEW i \in 1 .. n, d[i] = t + 1, NEW c \in Nat,
                      i # n => w[q[i]] >= w[i] + c
               PROVE  w[n] >= Fib[(t + 1) + 1] * w[i] + Fib[t + 1] * c
    BY DEF Bears
  <2>1. i # n /\ q[i] \in 1 .. n /\ d[q[i]] = t /\ w[q[i]] >= w[i] + c
    <3>1. i # n
      BY <1>1
    <3> QED BY <1>1, <1>2, <3>1
  <2>2. q[i] # n => w[q[q[i]]] >= w[q[i]] + w[i]
    BY <2>1 DEF Nephews
  <2>3. w[i] \in Nat /\ w[q[i]] \in Nat /\ w[n] \in Nat
    BY <1>3, <1>4, <2>1
  <2>4. t <= Bins /\ t \in 0 .. Bins /\ t + 1 \in 0 .. (Bins + 2) /\ t \in 0 .. (Bins + 2)
    BY <1>3
  <2>5. Bears(q, n, d, w, t)
    BY <1>6, <2>4
  <2>6. w[n] >= Fib[t + 1] * w[q[i]] + Fib[t] * w[i]
    BY <2>1, <2>2, <2>3, <2>5 DEF Bears
  <2>7. Fib[t + 2] = Fib[t + 1] + Fib[t] /\ Fib[t + 1] \in Nat /\ Fib[t] \in Nat
    BY <2>4, FibRules
  <2>8. w[n] >= (Fib[t + 1] + Fib[t]) * w[i] + Fib[t + 1] * c
    BY <2>1, <2>3, <2>6, <2>7, UpOne
  <2>9. (t + 1) + 1 = t + 2
    OBVIOUS
  <2> QED BY <2>7, <2>8, <2>9
<1> HIDE DEF W
<1>7. Bears(q, n, d, w, Bins)
  <2>1. \A t \in Nat : t \in W
    BY <1>5, <1>6, NatInduction0
  <2> QED BY <1>3, <2>1 DEF W
\* An ancestor of the node, or the node itself, is at depth Bins.
<1> DEFINE V == {k \in Nat : \A i \in 1 .. n : d[i] = Bins + k => \E j \in 1 .. n : d[j] = Bins}
<1>8. 0 \in V
  <2> SUFFICES ASSUME NEW i \in 1 .. n, d[i] = Bins + 0 PROVE \E j \in 1 .. n : d[j] = Bins
    OBVIOUS
  <2>1. d[i] = Bins
    BY <1>3
  <2> QED BY <2>1
<1>9. ASSUME NEW k \in Nat, k \in V PROVE k + 1 \in V
  <2> SUFFICES ASSUME NEW i \in 1 .. n, d[i] = Bins + (k + 1) PROVE \E j \in 1 .. n : d[j] = Bins
    OBVIOUS
  <2>1. i # n
    BY <1>1, <1>3
  <2>2. q[i] \in 1 .. n /\ d[q[i]] = Bins + k
    BY <1>1, <1>2, <1>3, <2>1
  <2> QED BY <1>9, <2>2
<1> HIDE DEF V
<1>10. PICK j \in 1 .. n : d[j] = Bins
  <2>1. \A k \in Nat : k \in V
    BY <1>8, <1>9, NatInduction0
  <2>2. PICK k \in Nat : d[x] = Bins + k
    <3>1. d[x] \in Nat /\ d[x] - Bins \in Nat /\ d[x] = Bins + (d[x] - Bins)
      BY <1>1, <1>3
    <3> QED BY <3>1
  <2> QED BY <2>1, <2>2 DEF V
<1>11. w[n] >= Fib[Bins + 1] * w[j] + Fib[Bins] * 1
  <2>1. j # n => w[q[j]] >= w[j] + 1
    BY <1>4
  <2> QED BY <1>7, <1>10, <2>1 DEF Bears
<1>12. /\ Fib[Bins + 1] \in Nat /\ Fib[Bins] \in Nat /\ Fib[Bins + 2] = Fib[Bins + 1] + Fib[Bins]
       /\ w[j] \in Nat /\ w[j] >= 1 /\ w[n] \in Nat
  <2>1. Bins \in 0 .. Bins /\ Bins + 1 \in 0 .. (Bins + 2) /\ Bins \in 0 .. (Bins + 2)
    BY <1>3
  <2> QED BY <1>3, <1>4, <2>1, FibRules
<1>13. Fib[Bins + 1] * 1 <= Fib[Bins + 1] * w[j] /\ Fib[Bins + 1] * w[j] \in Int
  BY <1>12, ProductGrows
<1>14. Fib[Bins + 1] * 1 = Fib[Bins + 1] /\ Fib[Bins] * 1 = Fib[Bins]
  BY <1>12
<1> QED BY <1>11, <1>12, <1>13, <1>14

\* The weights while the queues are merged: the leaves', then each node's the sum of its
\* two children's; and who was taken at an earlier turn weighs no more than who is taken at a
\* later one or still queued.
SumOfTwo(k) ==
  \E a, b : a # b /\ {i \in 1 .. Nodes : parent[i] = k} = {a, b} /\ nfreq[k] = nfreq[a] + nfreq[b]
Later(l, h, i, j) == Consumed(l, h, j) => parent[j] > parent[i]
Ranked(l, h, i, j) == Consumed(l, h, i) /\ Later(l, h, i, j) => nfreq[i] <= nfreq[j]
Weighed ==
  /\ Countable(freq)
  /\ \A i \in 1 .. NumUsed : nfreq[i] = freq[Leaves(freq)[i]]
  /\ \A i \in 1 .. Len(nfreq) : nfreq[i] >= 1
  /\ \A k \in (NumUsed + 1) .. Len(nfreq) : SumOfTwo(k)
  /\ \A i, j \in 1 .. Len(nfreq) : Ranked(li, ih, i, j)

LEMMA WeightsKept ==
  ASSUME Merging, Queued, Weighed, MergeTwo
  PROVE  Weighed'
<1>0. /\ NumUsed \in Nat /\ nfreq \in Seq(Nat) /\ Len(nfreq) \in Nat /\ NumUsed <= Len(nfreq)
      /\ parent \in [1 .. Nodes -> Nat]
      /\ \A i \in 1 .. Nodes : HasParent(li, ih, i)
      /\ Nodes \in Nat /\ Len(nfreq) <= Nodes /\ Heads(li, ih)
  BY DEF Merging, Nodes
<1> DEFINE n == Len(nfreq)
<1>1. PICK a \in 1 .. n, b \in 1 .. n, w \in Nat :
        /\ a # b /\ ~Consumed(li, ih, a) /\ ~Consumed(li, ih, b)
        /\ \A i \in Nat : Consumed(li', ih', i) <=> (Consumed(li, ih, i) \/ i = a \/ i = b)
        /\ nfreq' = Append(nfreq, w) /\ UNCHANGED freq
        /\ parent' = [parent EXCEPT ![a] = n + 1, ![b] = n + 1]
        /\ n < Nodes
        /\ w = nfreq[a] + nfreq[b] /\ nfreq[a] <= nfreq[b]
        /\ \A i \in 1 .. n : ~Consumed(li', ih', i) => nfreq[b] <= nfreq[i]
  BY TurnOfMerge DEF Queued
<1>2. NumUsed' = NumUsed /\ Nodes' = Nodes /\ Occurring' = Occurring
  BY <1>1 DEF NumUsed, Occurring, Nodes
<1>3. Len(nfreq') = n + 1 /\ nfreq'[n + 1] = w /\ \A i \in 1 .. n : nfreq'[i] = nfreq[i]
  BY <1>0, <1>1
<1>4. /\ \A i \in 1 .. n : nfreq[i] \in Nat /\ nfreq[i] >= 1
      /\ \A i \in 1 .. NumUsed : nfreq[i] = freq[Leaves(freq)[i]]
      /\ \A k \in (NumUsed + 1) .. n : SumOfTwo(k)
      /\ \A i, j \in 1 .. n : Ranked(li, ih, i, j)
      /\ Countable(freq)
  BY <1>0 DEF Weighed
<1> HIDE DEF n
<1>5. n \in Nat /\ n + 1 \in Nat /\ NumUsed <= n /\ n < Nodes /\ n + 1 <= Nodes
  BY <1>0, <1>1 DEF n
<1>6. a \in 1 .. Nodes /\ b \in 1 .. Nodes
  BY <1>0, <1>1, <1>5
<1>7. /\ parent'[a] = n + 1 /\ parent'[b] = n + 1
      /\ \A i \in 1 .. Nodes : i # a /\ i # b => parent'[i] = parent[i]
  BY <1>0, <1>1, <1>6
<1>8. \A i \in 1 .. Nodes :
        /\ Consumed(li, ih, i) => parent[i] \in Nat /\ parent[i] <= n /\ parent[i] # 0
        /\ ~Consumed(li, ih, i) => parent[i] = 0
  <2> SUFFICES ASSUME NEW i \in 1 .. Nodes
               PROVE  /\ Consumed(li, ih, i) => parent[i] \in Nat /\ parent[i] <= n /\ parent[i] # 0
                      /\ ~Consumed(li, ih, i) => parent[i] = 0
    OBVIOUS
  <2>1. HasParent(li, ih, i)
    BY <1>0
  <2>2. Consumed(li, ih, i) => parent[i] \in (i + 1) .. n
    BY <2>1 DEF HasParent, n
  <2>3. ~Consumed(li, ih, i) => parent[i] = 0
    BY <2>1 DEF HasParent
  <2> QED BY <1>5, <2>2, <2>3
<1>9. Countable(freq)' /\ \A i \in 1 .. NumUsed' : nfreq'[i] = freq'[Leaves(freq')[i]]
  <2>1. \A i \in 1 .. NumUsed : i \in 1 .. n
    BY <1>0, <1>5
  <2>2. \A i \in 1 .. NumUsed : nfreq'[i] = freq[Leaves(freq)[i]]
    BY <1>3, <1>4, <2>1
  <2>3. freq' = freq /\ NumUsed' = NumUsed
    BY <1>1, <1>2
  <2>4. Countable(freq)'
    BY <1>4, <2>3
  <2> QED BY <2>2, <2>3, <2>4
<1>10. \A i \in 1 .. (n + 1) : nfreq'[i] >= 1
  <2> SUFFICES ASSUME NEW i \in 1 .. (n + 1) PROVE nfreq'[i] >= 1
    OBVIOUS
  <2>1. CASE i = n + 1
    BY <1>1, <1>3, <1>4, <2>1
  <2>2. CASE i # n + 1
    <3>1. i \in 1 .. n
      BY <1>5, <2>2
    <3> QED BY <1>3, <1>4, <3>1
  <2> QED BY <2>1, <2>2
<1>11. ASSUME NEW k \in (NumUsed + 1) .. (n + 1) PROVE SumOfTwo(k)'
  <2>1. parent[a] = 0 /\ parent[b] = 0
    BY <1>1, <1>6, <1>8
  <2>2. CASE k = n + 1
    <3>1. \A i \in 1 .. Nodes : parent[i] # k
      BY <1>5, <1>8, <2>2
    <3>2. {i \in 1 .. Nodes : parent'[i] = k} = {a, b}
      BY <1>6, <1>7, <2>2, <3>1
    <3>3. nfreq'[k] = nfreq'[a] + nfreq'[b]
      BY <1>1, <1>3, <2>2
    <3> QED BY <1>1, <1>2, <3>2, <3>3 DEF SumOfTwo
  <2>3. CASE k # n + 1
    <3>1. k \in (NumUsed + 1) .. n /\ k # 0 /\ k \in 1 .. n
      BY <1>0, <1>5, <2>3
    <3>2. \A i \in 1 .. Nodes : parent'[i] = k <=> parent[i] = k
      BY <1>7, <2>1, <2>3, <3>1
    <3>3. {i \in 1 .. Nodes : parent'[i] = k} = {i \in 1 .. Nodes : parent[i] = k}
      BY <3>2
    <3>4. PICK c, d : /\ c # d /\ {i \in 1 .. Nodes : parent[i] = k} = {c, d}
                      /\ nfreq[k] = nfreq[c] + nfreq[d]
      BY <1>4, <3>1 DEF SumOfTwo
    <3>5. c \in 1 .. n /\ d \in 1 .. n
      <4>1. c \in 1 .. Nodes /\ parent[c] = k /\ d \in 1 .. Nodes /\ parent[d] = k
        BY <3>4
      <4>2. ASSUME NEW i \in 1 .. Nodes, parent[i] = k PROVE i \in 1 .. n
        <5>1. Consumed(li, ih, i)
          BY <1>8, <3>1, <4>2
        <5>2. parent[i] \in (i + 1) .. n
          BY <1>0, <5>1 DEF HasParent, n
        <5> QED BY <1>5, <5>2
      <4> QED BY <4>1, <4>2
    <3>6. nfreq'[k] = nfreq'[c] + nfreq'[d]
      BY <1>3, <3>1, <3>4, <3>5
    <3> QED BY <1>2, <3>3, <3>4, <3>6 DEF SumOfTwo
  <2> QED BY <2>2, <2>3
<1>12. ASSUME NEW i \in 1 .. (n + 1), NEW j \in 1 .. (n + 1) PROVE Ranked(li, ih, i, j)'
  <2>0. i \in Nat /\ j \in Nat /\ i \in 1 .. Nodes /\ j \in 1 .. Nodes
    BY <1>0, <1>5
  <2>1. (Consumed(li, ih, i)' <=> Consumed(li', ih', i)) /\ (Consumed(li, ih, j)' <=> Consumed(li', ih', j))
    BY <1>2 DEF Consumed
  <2>2. SUFFICES ASSUME Consumed(li', ih', i), Consumed(li', ih', j) => parent'[j] > parent'[i]
                 PROVE  nfreq'[i] <= nfreq'[j]
    BY <2>1 DEF Ranked, Later
  <2>3. Consumed(li, ih, i) \/ i = a \/ i = b
    BY <1>1, <2>0, <2>2
  <2>4. i \in 1 .. n
    <3>1. Consumed(li, ih, i) => i <= n
      BY <1>0, <1>5 DEF Consumed, Heads, n
    <3> QED BY <1>1, <2>3, <3>1, <1>5
  <2>5. nfreq'[i] = nfreq[i] /\ nfreq[i] \in Nat
    BY <1>3, <1>4, <2>4
  <2>6. nfreq[a] \in Nat /\ nfreq[b] \in Nat /\ nfreq[a] <= nfreq[b] /\ w = nfreq[a] + nfreq[b]
    BY <1>1, <1>4
  <2>7. CASE Consumed(li, ih, i)
    <3>1. i # a /\ i # b /\ parent'[i] = parent[i] /\ parent[i] <= n /\ parent[i] \in Nat
      BY <1>1, <1>7, <1>8, <2>0, <2>7
    <3>2. \A k \in {a, b} : nfreq[i] <= nfreq[k]
      <4> SUFFICES ASSUME NEW k \in {a, b} PROVE nfreq[i] <= nfreq[k]
        OBVIOUS
      <4>1. k \in 1 .. n /\ ~Consumed(li, ih, k)
        BY <1>1
      <4>2. Ranked(li, ih, i, k)
        BY <1>4, <2>4, <4>1
      <4> QED BY <2>7, <4>1, <4>2 DEF Ranked, Later
    <3>3. CASE j = n + 1
      <4>1. nfreq[i] <= nfreq[a]
        BY <3>2
      <4>2. nfreq'[j] = w
        BY <1>3, <3>3
      <4> QED BY <2>5, <2>6, <4>1, <4>2
    <3>4. CASE j \in {a, b}
      <4>1. nfreq'[j] = nfreq[j]
        BY <1>1, <1>3, <3>4
      <4> QED BY <2>5, <3>2, <3>4, <4>1
    <3>5. CASE j # n + 1 /\ j \notin {a, b}
      <4>1. j \in 1 .. n /\ nfreq'[j] = nfreq[j] /\ parent'[j] = parent[j]
        BY <1>3, <1>5, <1>7, <2>0, <3>5
      <4>2. Consumed(li', ih', j) <=> Consumed(li, ih, j)
        BY <1>1, <2>0, <3>5
      <4>3. Later(li, ih, i, j)
        BY <2>2, <3>1, <4>1, <4>2 DEF Later
      <4>4. Ranked(li, ih, i, j)
        BY <1>4, <2>4, <4>1
      <4> QED BY <2>5, <2>7, <4>1, <4>3, <4>4 DEF Ranked
    <3> QED BY <3>3, <3>4, <3>5
  <2>8. CASE i = a \/ i = b
    <3>1. nfreq[i] <= nfreq[b] /\ parent'[i] = n + 1
      BY <1>7, <2>6, <2>8
    <3>2. CASE j = n + 1
      <4>1. nfreq'[j] = w
        BY <1>3, <3>2
      <4> QED BY <2>5, <2>6, <3>1, <4>1
    <3>3. CASE j # n + 1
      <4>1. j \in 1 .. n /\ nfreq'[j] = nfreq[j] /\ nfreq[j] \in Nat
        BY <1>3, <1>4, <1>5, <3>3
      <4>2. ~Consumed(li', ih', j)
        <5> SUFFICES ASSUME Consumed(li', ih', j) PROVE FALSE
          OBVIOUS
        <5>1. parent'[j] > n + 1
          BY <2>2, <3>1
        <5>2. CASE j = a \/ j = b
          BY <1>5, <1>7, <5>1, <5>2
        <5>3. CASE j # a /\ j # b
          <6>1. Consumed(li, ih, j) /\ parent'[j] = parent[j]
            BY <1>1, <1>7, <2>0, <5>3
          <6>2. parent[j] <= n /\ parent[j] \in Nat
            BY <1>8, <2>0, <6>1
          <6> QED BY <1>5, <5>1, <6>1, <6>2
        <5> QED BY <5>2, <5>3
      <4>3. nfreq[b] <= nfreq[j]
        BY <1>1, <4>1, <4>2
      <4> QED BY <2>5, <2>6, <3>1, <4>1, <4>3
    <3> QED BY <3>2, <3>3
  <2> QED BY <2>3, <2>7, <2>8
<1> QED BY <1>2, <1>3, <1>9, <1>10, <1>11, <1>12 DEF Weighed

LEMMA WeightsStart ==
  ASSUME NEW f \in [Symbols -> Nat], Countable(f), Gather(f), li = 1
  PROVE  Weighed'
<1> DEFINE U == {s \in Symbols : f[s] > 0}
           n == Cardinality(U)
<1>1. n \in Nat /\ \E p : Placed(f, U, p)
  BY LeavesNumber
<1>2. Leaves(f) \in [1 .. n -> U] /\ Len(Leaves(f)) = n
  BY <1>1 DEF Placed
<1>3. freq' = f /\ NumUsed' = n
  BY DEF Gather, NumUsed, Occurring
<1>4. nfreq' = [i \in 1 .. n |-> f[Leaves(f)[i]]] /\ ih' = n + 1 /\ li' = 1
  BY <1>2 DEF Gather
<1>5. \A i \in 1 .. n : Leaves(f)[i] \in Symbols /\ f[Leaves(f)[i]] \in Nat /\ f[Leaves(f)[i]] >= 1
  <2> SUFFICES ASSUME NEW i \in 1 .. n
               PROVE  Leaves(f)[i] \in Symbols /\ f[Leaves(f)[i]] \in Nat /\ f[Leaves(f)[i]] >= 1
    OBVIOUS
  <2>1. Leaves(f)[i] \in U
    BY <1>2
  <2>2. Leaves(f)[i] \in Symbols /\ f[Leaves(f)[i]] > 0
    BY <2>1
  <2> QED BY <2>2
<1> HIDE DEF n, U
<1>6. Len(nfreq') = n
  <2>1. ASSUME NEW k \in Nat, NEW L \in [1 .. k -> Nat] PROVE Len(L) = k
    OBVIOUS
  <2>2. nfreq' \in [1 .. n -> Nat]
    BY <1>4, <1>5
  <2> QED BY <1>1, <2>1, <2>2
<1>7. \A i \in 1 .. n : nfreq'[i] = f[Leaves(f)[i]] /\ nfreq'[i] >= 1
  BY <1>4, <1>5
<1>8. \A i \in 1 .. n : ~Consumed(li, ih, i)'
  BY <1>1, <1>3, <1>4 DEF Consumed
<1>9. (n + 1) .. n = {}
  BY <1>1
<1>10. \A i, j \in 1 .. Len(nfreq)' : Ranked(li, ih, i, j)'
  BY <1>6, <1>8 DEF Ranked
<1>11. \A k \in (NumUsed' + 1) .. Len(nfreq)' : SumOfTwo(k)'
  BY <1>3, <1>6, <1>9
<1>12. Countable(freq)'
  BY <1>3
<1>13. \A i \in 1 .. NumUsed' : nfreq'[i] = freq'[Leaves(freq')[i]]
  BY <1>3, <1>7
<1>14. \A i \in 1 .. Len(nfreq)' : nfreq'[i] >= 1
  BY <1>6, <1>7
<1> QED BY <1>10, <1>11, <1>12, <1>13, <1>14 DEF Weighed

LEMMA MergedWeights ==
  ASSUME Merging, Weighed, Len(nfreq) = Nodes
  PROVE  /\ Heavy(parent, Nodes, nfreq) /\ Nephews(parent, Nodes, nfreq)
         /\ Adds(parent, Nodes, NumUsed, nfreq)
<1>0. /\ NumUsed \in Nat /\ Nodes \in Nat /\ nfreq \in Seq(Nat) /\ NumUsed <= Nodes
      /\ \A i \in 1 .. Nodes : nfreq[i] \in Nat /\ nfreq[i] >= 1
      /\ \A k \in (NumUsed + 1) .. Nodes : SumOfTwo(k)
      /\ \A i, j \in 1 .. Nodes : Ranked(li, ih, i, j)
  BY DEF Merging, Nodes, Weighed
<1>1. /\ \A i \in 1 .. Nodes : i # Nodes => Consumed(li, ih, i)
      /\ \A i \in 1 .. Nodes : i # Nodes => parent[i] \in (i + 1) .. Nodes /\ parent[i] > NumUsed
      /\ parent[Nodes] = 0
  <2>1. Nodes \in 1 .. Nodes
    BY <1>0 DEF Merging, Nodes
  <2> QED BY <1>0, <2>1, MergedTree DEF Upward, Parents
<1>2. ASSUME NEW k \in (NumUsed + 1) .. Nodes
      PROVE  \E a, b : a # b /\ Children(parent, Nodes, k) = {a, b} /\ nfreq[k] = nfreq[a] + nfreq[b]
  <2>1. Children(parent, Nodes, k) = {i \in 1 .. Nodes : parent[i] = k}
    <3>1. k # 0
      BY <1>0
    <3> QED BY <1>1, <3>1 DEF Children
  <2>2. SumOfTwo(k)
    BY <1>0
  <2> QED BY <2>1, <2>2 DEF SumOfTwo
<1>3. ASSUME NEW i \in 1 .. Nodes, i # Nodes
      PROVE  /\ parent[i] \in 1 .. Nodes /\ parent[i] > i
             /\ \E j \in 1 .. Nodes : /\ j # Nodes /\ parent[j] = parent[i]
                                    /\ nfreq[parent[i]] = nfreq[i] + nfreq[j]
  <2>1. parent[i] \in (i + 1) .. Nodes /\ parent[i] > NumUsed
    BY <1>1, <1>3
  <2>2. parent[i] \in (NumUsed + 1) .. Nodes /\ parent[i] \in 1 .. Nodes /\ parent[i] > i
    BY <1>0, <2>1
  <2>3. PICK a, b : a # b /\ Children(parent, Nodes, parent[i]) = {a, b}
                    /\ nfreq[parent[i]] = nfreq[a] + nfreq[b]
    BY <1>2, <2>2
  <2>4. i \in {a, b}
    <3>1. i \in Children(parent, Nodes, parent[i])
      BY <1>3 DEF Children
    <3> QED BY <2>3, <3>1
  <2>5. /\ a \in 1 .. Nodes /\ a # Nodes /\ parent[a] = parent[i]
        /\ b \in 1 .. Nodes /\ b # Nodes /\ parent[b] = parent[i]
    BY <2>3 DEF Children
  <2>6. nfreq[a] \in Nat /\ nfreq[b] \in Nat
    BY <1>0, <2>5
  <2>7. nfreq[a] + nfreq[b] = nfreq[b] + nfreq[a]
    BY <2>6
  <2> QED BY <2>2, <2>3, <2>4, <2>5, <2>7
<1>4. Heavy(parent, Nodes, nfreq)
  <2> SUFFICES ASSUME NEW i \in 1 .. Nodes, i # Nodes PROVE nfreq[parent[i]] >= nfreq[i] + 1
    BY <1>0 DEF Heavy
  <2>1. PICK j \in 1 .. Nodes : nfreq[parent[i]] = nfreq[i] + nfreq[j]
    BY <1>3
  <2>2. nfreq[i] \in Nat /\ nfreq[j] \in Nat /\ nfreq[j] >= 1
    BY <1>0
  <2> QED BY <2>1, <2>2
<1>5. Nephews(parent, Nodes, nfreq)
  <2> SUFFICES ASSUME NEW i \in 1 .. Nodes, i # Nodes, parent[i] # Nodes
               PROVE  nfreq[parent[parent[i]]] >= nfreq[parent[i]] + nfreq[i]
    BY DEF Nephews
  <2>1. parent[i] \in 1 .. Nodes
    BY <1>3
  <2>2. PICK j \in 1 .. Nodes : /\ j # Nodes /\ parent[j] = parent[parent[i]]
                               /\ nfreq[parent[parent[i]]] = nfreq[parent[i]] + nfreq[j]
    BY <1>3, <2>1
  <2>3. parent[j] > parent[i]
    BY <1>3, <2>1, <2>2
  <2>4. nfreq[i] <= nfreq[j]
    <3>1. Ranked(li, ih, i, j) /\ Consumed(li, ih, i)
      BY <1>0, <1>1
    <3> QED BY <2>3, <3>1 DEF Ranked, Later
  <2>5. nfreq[i] \in Nat /\ nfreq[j] \in Nat /\ nfreq[parent[i]] \in Nat
    BY <1>0, <2>1
  <2> QED BY <2>2, <2>4, <2>5
<1>6. Adds(parent, Nodes, NumUsed, nfreq)
  BY <1>2 DEF Adds
<1> QED BY <1>4, <1>5, <1>6

\* The root weighs what the caller's frequencies do.
LEMMA RootWeighs ==
  ASSUME freq \in [Symbols -> Nat], Merging, Weighed, Len(nfreq) = Nodes
  PROVE  nfreq[Nodes] = SumOver(Symbols, freq)
<1> DEFINE n == NumUsed
           T == 1 .. n
           S == Symbols
<1>1. /\ n \in Nat \ {0} /\ Nodes \in Nat /\ n < Nodes
      /\ \A i \in 1 .. Nodes : nfreq[i] \in Int
      /\ \A i \in T : nfreq[i] = freq[Leaves(freq)[i]]
  BY DEF Merging, Nodes, Weighed
<1>2. Upward(parent, Nodes) /\ Parents(parent, Nodes, n) /\ Adds(parent, Nodes, n, nfreq)
  BY MergedTree, MergedWeights
<1>3. SumOver(T, nfreq) = nfreq[Nodes]
  <2> HIDE DEF n, Nodes
  <2> QED BY <1>1, <1>2, LeavesSum
<1>4. PICK p : Placed(freq, Occurring, p)
  BY LeavesNumber DEF Occurring
<1>5. /\ IsFiniteSet(S) /\ Occurring \subseteq S /\ IsFiniteSet(Occurring)
      /\ \A s \in S : freq[s] \in Nat /\ (s \notin Occurring => freq[s] = 0)
  BY AlphabetAssumption, LeavesNumber DEF Occurring
<1>6. p \in Bijection(Occurring, T) /\ \A s \in Occurring : Leaves(freq)[p[s]] = s
  BY <1>4 DEF Placed, NumUsed
<1>7. \A s \in Occurring : p[s] \in T
  BY <1>6 DEF Bijection, Injection
<1>8. \A s \in Occurring : freq[s] = nfreq[p[s]]
  BY <1>1, <1>6, <1>7
<1>9. \A i \in T : nfreq[i] \in Int
  <2>1. \A i \in T : i \in 1 .. Nodes
    BY <1>1
  <2> QED BY <1>1, <2>1
<1>10. SumOver(Occurring, freq) = SumOver(T, nfreq)
  <2> HIDE DEF T, n
  <2> QED BY <1>5, <1>6, <1>8, <1>9, TotalRenamed
<1>11. SumOver(S, freq) = SumOver(Occurring, freq) + SumOver(S \ Occurring, freq)
  <2>1. IsFiniteSet(S \ Occurring) /\ Occurring \cap (S \ Occurring) = {}
        /\ Occurring \cup (S \ Occurring) = S
    BY <1>5, FS_Difference
  <2>2. \A s \in Occurring \cup (S \ Occurring) : freq[s] \in Int
    BY <1>5
  <2> HIDE DEF S
  <2>3. SumOver(Occurring \cup (S \ Occurring), freq) = SumOver(Occurring, freq) + SumOver(S \ Occurring, freq)
    BY <1>5, <2>1, <2>2, TotalUnion
  <2> QED BY <2>1, <2>3
<1>12. SumOver(S \ Occurring, freq) = 0
  <2>1. IsFiniteSet(S \ Occurring) /\ \A s \in S \ Occurring : freq[s] = 0
    BY <1>5, FS_Difference
  <2> HIDE DEF S
  <2> QED BY <2>1, TotalNone
<1>13. nfreq[Nodes] \in Int
  <2>1. Nodes \in 1 .. Nodes
    BY <1>1
  <2> QED BY <1>1, <2>1
<1> HIDE DEF n, T
<1> QED BY <1>3, <1>10, <1>11, <1>12, <1>13

\* The depths of the leaves of countable frequencies all have a bin.
LEMMA DepthsBinned ==
  ASSUME freq \in [Symbols -> Nat], Merging, Weighed, Depths
  PROVE  \A s \in Symbols : lens'[s] < Bins
<1> DEFINE N == Nodes
           L == Leaves(freq)
<1>0. NumUsed \in Nat /\ NumUsed >= 2 /\ N \in Nat \ {0} /\ NumUsed < N /\ Len(nfreq) = N
      /\ Bins \in Nat /\ Bins >= 1
  <2>1. Bins \in Nat /\ Bins >= 1
    BY AlphabetAssumption, BinsAssumption
  <2> QED BY <2>1 DEF Merging, Nodes, Depths
<1>1. Upward(parent, N)
  BY <1>0, MergedTree
<1>2. IsDepth(Depth, parent, N)
  <2>1. \E d : IsDepth(d, parent, N)
    BY <1>0, <1>1, DepthExists
  <2>2. Depth = CHOOSE d : IsDepth(d, parent, N)
    BY Zenon DEF Depth, IsDepth, Nodes
  <2> QED BY <2>1, <2>2, Zenon
<1>3. Heavy(parent, N, nfreq) /\ Nephews(parent, N, nfreq)
  BY <1>0, MergedWeights
<1>4. nfreq[N] = SumOver(Symbols, freq) /\ nfreq[N] \in Nat
  <2>1. N \in 1 .. N
    BY <1>0
  <2> QED BY <1>0, <1>3, <2>1, RootWeighs DEF Heavy
<1>5. SumOver(Symbols, freq) < Fib[Bins + 2]
  <2>1. Countable(freq)
    BY DEF Weighed
  <2>2. SumOver(Symbols, freq) = MapThenSumSet(LAMBDA s : freq[s], Symbols)
    BY Zenon DEF SumOver
  <2> QED BY <2>1, <2>2 DEF Countable
<1>6. Fib[Bins + 2] \in Nat
  <2>1. Bins + 2 \in 0 .. (Bins + 2)
    BY <1>0
  <2> QED BY <2>1, FibRules
<1>7. \A i \in 1 .. N : Depth[i] \in Nat
  <2> SUFFICES ASSUME NEW i \in 1 .. N PROVE Depth[i] \in Nat
    OBVIOUS
  <2>1. Depth[i] \in 0 .. (N - i)
    <3> HIDE DEF N
    <3> QED BY <1>0, <1>1, <1>2, DepthType
  <2> QED BY <2>1
<1>8. ASSUME NEW i \in 1 .. N PROVE Depth[i] < Bins
  <2> SUFFICES ASSUME Depth[i] >= Bins PROVE FALSE
    BY <1>0, <1>7
  <2>1. nfreq[N] >= Fib[Bins + 2]
    <3> HIDE DEF N
    <3> QED BY <1>0, <1>1, <1>2, <1>3, DeepIsHeavy
  <2> QED BY <1>4, <1>5, <1>6, <2>1
<1>9. \A s \in Occurring : \E i \in DOMAIN L : L[i] = s
  <2>1. PICK p : Placed(freq, Occurring, p)
    BY LeavesNumber DEF Occurring
  <2>2. L \in [1 .. NumUsed -> Occurring] /\ p \in Bijection(Occurring, 1 .. NumUsed)
        /\ \A s \in Occurring : L[p[s]] = s
    BY <2>1 DEF Placed, NumUsed
  <2>3. \A s \in Occurring : p[s] \in DOMAIN L
    BY <2>2 DEF Bijection, Injection
  <2> HIDE DEF L
  <2> QED BY <2>2, <2>3
<1>10. DOMAIN L = 1 .. NumUsed
  <2>1. \E p : Placed(freq, Occurring, p)
    BY LeavesNumber DEF Occurring
  <2> QED BY <2>1 DEF Placed, NumUsed
<1>11. lens' = [s \in Symbols |-> IF s \in Occurring THEN Depth[CHOOSE i \in DOMAIN L : L[i] = s] ELSE 0]
  BY DEF Depths
<1> HIDE DEF L, N
<1>12. ASSUME NEW s \in Symbols PROVE lens'[s] < Bins
  <2>1. CASE s \notin Occurring
    <3>1. lens'[s] = 0
      BY <1>11, <2>1
    <3> QED BY <1>0, <3>1
  <2>2. CASE s \in Occurring
    <3>1. PICK i \in DOMAIN L : i = CHOOSE k \in DOMAIN L : L[k] = s
      BY <1>9, <2>2
    <3>2. lens'[s] = Depth[i]
      BY <1>11, <2>2, <3>1
    <3>3. i \in 1 .. N
      BY <1>0, <1>10
    <3> QED BY <1>8, <3>2, <3>3
  <2> QED BY <2>1, <2>2
<1> QED BY <1>12

-----------------------------------------------------------------------------
\* The inductive invariant, phase by phase: the tree while it grows, its lengths before
\* the limit, and then the books: how far the Kraft sum is from the target is always less
\* than the number of codes of the longest length.
Limiting == {"limit", "over", "under", "deal"}
BuildPhases == {"idle", "merge", "done", "empty"} \cup Limiting
Share(ls) == SumOver(Occurring, LengthShares(ls, Occurring, MaxLen))
CompleteLens ==
  /\ Coding(lens) /\ \A s \in Symbols : lens[s] <= MaxLen
  /\ Share(lens) = Target

BuildInv ==
  /\ freq \in [Symbols -> Nat] /\ phase \in BuildPhases
  /\ phase = "idle" => li = 1
  /\ phase = "merge" => Merging /\ Queued /\ Weighed
  /\ phase \in Limiting => NumUsed >= 2 /\ Coding(lens)
  /\ phase = "limit" => Filled(lens) /\ Binned
  /\ phase = "over" => Balanced /\ Near
  /\ phase = "under" => Balanced /\ Fits
  /\ phase = "deal" => Balanced /\ kraft = Target
  /\ phase = "done" /\ NumUsed >= 2 => CompleteLens

LEMMA InitBuild ==
  ASSUME LengthsInit, lens = Zeros
  PROVE  BuildInv
BY DEF LengthsInit, Zeros, BuildInv, BuildPhases, Limiting

\* The lengths and the limiter's books speak of the frequencies only.
LEMMA SameUsed ==
  ASSUME UNCHANGED freq
  PROVE  /\ Occurring' = Occurring /\ NumUsed' = NumUsed
         /\ Coding(lens)' = Coding(lens') /\ Filled(lens)' = Filled(lens')
         /\ Binned' = \A s \in Symbols : lens'[s] < Bins
         /\ CompleteLens' = (Coding(lens') /\ (\A s \in Symbols : lens'[s] <= MaxLen)
                           /\ Share(lens') = Target)
<1>1. Occurring' = Occurring /\ NumUsed' = NumUsed
  BY DEF Occurring, NumUsed
<1>2. Coding(lens)' = Coding(lens')
  BY <1>1 DEF Coding
<1>3. Size' = Size
  BY <1>1 DEF Size, Nodes
<1>4. Filled(lens)' = Filled(lens')
  BY <1>1, <1>3 DEF Filled
<1>5. Share(lens)' = Share(lens')
  BY <1>1 DEF Share, LengthShares
<1>6. CompleteLens' = (Coding(lens') /\ (\A s \in Symbols : lens'[s] <= MaxLen)
                     /\ Share(lens') = Target)
  BY <1>2, <1>5 DEF CompleteLens, Target
<1>7. Binned' = \A s \in Symbols : lens'[s] < Bins
  BY DEF Binned
<1> QED BY <1>1, <1>2, <1>4, <1>6, <1>7

LEMMA GatherBuild ==
  ASSUME BuildInv, NEW f \in [Symbols -> Nat], Countable(f), Gather(f)
  PROVE  BuildInv'
<1>1. li = 1
  BY DEF BuildInv, Gather
<1>2. /\ freq' = f /\ phase' \in {"empty", "done", "merge"}
      /\ phase' = "merge" => Merging' /\ li' = 1 /\ Queued'
      /\ phase' = "done" => NumUsed' = 1
  BY <1>1, GatherStarts
<1>3. ~(phase' = "done" /\ NumUsed' >= 2)
  BY <1>2
<1>4. Weighed'
  BY <1>1, WeightsStart
<1> QED BY <1>2, <1>3, <1>4 DEF BuildInv, BuildPhases, Limiting

LEMMA TreeBuild ==
  ASSUME BuildInv, MergeTwo \/ Depths
  PROVE  BuildInv'
<1>1. phase = "merge" /\ Merging /\ Queued /\ Weighed /\ freq \in [Symbols -> Nat] /\ NumUsed >= 2
  BY DEF BuildInv, MergeTwo, Depths, Merging
<1>2. CASE MergeTwo
  <2>1. Merging' /\ Queued' /\ phase' = "merge" /\ UNCHANGED freq
    BY <1>1, <1>2, MergeKept, QueuesKept DEF MergeTwo
  <2>2. Weighed'
    BY <1>1, <1>2, WeightsKept
  <2> QED BY <1>1, <2>1, <2>2 DEF BuildInv, BuildPhases, Limiting
<1>3. CASE Depths
  <2>1. Coding(lens') /\ Filled(lens') /\ UNCHANGED freq /\ phase' = "limit"
    BY <1>1, <1>3, DepthsFill
  <2>2. \A s \in Symbols : lens'[s] < Bins
    BY <1>1, <1>3, DepthsBinned
  <2>3. Coding(lens)' /\ Filled(lens)' /\ Binned' /\ NumUsed' = NumUsed
    BY <2>1, <2>2, SameUsed
  <2> QED BY <1>1, <2>1, <2>3 DEF BuildInv, BuildPhases, Limiting
<1> QED BY <1>2, <1>3

LEMMA ClampBuild ==
  ASSUME BuildInv, Clamp
  PROVE  BuildInv'
<1>1. /\ phase = "limit" /\ freq \in [Symbols -> Nat] /\ NumUsed >= 2 /\ Coding(lens) /\ Filled(lens)
      /\ Histograms = {LengthCounts} /\ UNCHANGED <<freq, lens>>
  BY DEF BuildInv, Clamp, Limiting, Histograms
<1>2. PICK c : Clamping(c) /\ c = LengthCounts
  BY DEF Clamping, LengthCounts
<1>3. Coding(lens)' /\ NumUsed' = NumUsed /\ NumUsed' >= 2 /\ freq' \in [Symbols -> Nat]
  <2>1. Coding(lens') /\ UNCHANGED freq
    BY <1>1
  <2> QED BY <1>1, <2>1, SameUsed
<1>4. CASE \E s \in Occurring : lens[s] > MaxLen
  <2>1. phase' = "over" /\ count' = c /\ kraft' = KraftOf(c)
    BY <1>1, <1>2, <1>4 DEF Clamp
  <2>2. Booked(c) /\ KraftOf(c) >= Target /\ KraftOf(c) - Target < c[MaxLen]
    BY <1>1, <1>2, <1>4, ClampBooks
  <2>3. Booked(count)'
    BY <1>3, <2>1, <2>2 DEF Booked
  <2>4. Balanced'
    BY <2>1, <2>3 DEF Balanced
  <2>5. kraft' \in Nat /\ Target \in Nat /\ count'[MaxLen] \in Nat
    <3>1. MaxLen \in 1 .. MaxLen /\ Target \in Nat
      BY <1>1, UsedFinite
    <3> QED BY <2>1, <2>2, <3>1 DEF Booked
  <2>6. kraft' - Target < count'[MaxLen] /\ Target - kraft' < count'[MaxLen]
    <3>1. kraft' >= Target /\ kraft' - Target < count'[MaxLen]
      BY <2>1, <2>2
    <3> QED BY <2>5, <3>1
  <2>7. Near'
    BY <2>6 DEF Near, Target
  <2> QED BY <1>3, <2>1, <2>4, <2>7 DEF BuildInv, BuildPhases, Limiting
<1>5. CASE ~ \E s \in Occurring : lens[s] > MaxLen
  <2>1. phase' = "done"
    BY <1>1, <1>5 DEF Clamp
  <2>2. \A s \in Symbols : lens[s] \in Nat /\ (lens[s] > 0 <=> s \in Occurring)
    BY <1>1 DEF Coding
  <2>3. \A s \in Symbols : lens[s] <= MaxLen
    <3>1. MaxLen \in Nat /\ Occurring \subseteq Symbols
      BY <1>1, UsedFinite
    <3> QED BY <1>5, <2>2, <3>1
  <2>4. CodeSum(lens, Occurring) = Target
    <3>1. \A s \in Occurring : lens[s] <= MaxLen
      BY <2>3 DEF Occurring
    <3> QED BY <1>1, <3>1, ShallowComplete
  <2>5. CompleteLens'
    <3>1. lens' = lens /\ UNCHANGED freq
      BY <1>1
    <3>2. Share(lens) = Target
      BY <1>1, <2>4, UsedFinite, CodeSumIsSum DEF Share
    <3> QED BY <1>1, <2>3, <3>1, <3>2, SameUsed
  <2> QED BY <1>3, <2>1, <2>5 DEF BuildInv, BuildPhases, Limiting
<1> QED BY <1>4, <1>5

LEMMA LoopsBuild ==
  ASSUME BuildInv, Lengthen \/ Lengthened \/ Shorten \/ Shortened
  PROVE  BuildInv'
<1>1. /\ freq \in [Symbols -> Nat] /\ phase \in {"over", "under"} /\ NumUsed >= 2 /\ Coding(lens)
      /\ phase = "over" => Balanced /\ Near
      /\ phase = "under" => Balanced /\ Fits
      /\ UNCHANGED <<freq, lens>>
  BY DEF BuildInv, Lengthen, Lengthened, Shorten, Shortened, UnderFull, Limiting
<1>2. Coding(lens)' /\ NumUsed' = NumUsed /\ NumUsed' >= 2 /\ freq' \in [Symbols -> Nat]
  <2>1. Coding(lens') /\ UNCHANGED freq
    BY <1>1
  <2> QED BY <1>1, <2>1, SameUsed
<1>3. CASE Lengthen
  <2>1. phase = "over" /\ phase' = "over"
    BY <1>3 DEF Lengthen
  <2>2. Balanced' /\ Near'
    BY <1>1, <1>3, <2>1, LengthenNears
  <2> QED BY <1>2, <2>1, <2>2 DEF BuildInv, BuildPhases, Limiting
<1>4. CASE Lengthened
  <2>1. phase = "over" /\ phase' = "under"
    BY <1>4 DEF Lengthened
  <2>2. Balanced' /\ Fits'
    BY <1>1, <1>4, <2>1, LengthenedFits
  <2> QED BY <1>2, <2>1, <2>2 DEF BuildInv, BuildPhases, Limiting
<1>5. CASE Shorten
  <2>1. phase = "under"
    BY <1>5 DEF Shorten, UnderFull
  <2>2. Balanced' /\ Fits' /\ phase' = "under"
    BY <1>1, <1>5, <2>1, ShortenFits
  <2> QED BY <1>2, <2>2 DEF BuildInv, BuildPhases, Limiting
<1>6. CASE Shortened
  <2>1. phase = "under" /\ phase' = "deal"
    BY <1>6 DEF Shortened
  <2>2. Balanced' /\ kraft' = Target
    BY <1>1, <1>6, <2>1, ShortenedFull
  <2>3. (kraft = Target)'
    BY <2>2 DEF Target
  <2> QED BY <1>2, <2>1, <2>2, <2>3 DEF BuildInv, BuildPhases, Limiting
<1> QED BY <1>3, <1>4, <1>5, <1>6

LEMMA DealBuild ==
  ASSUME BuildInv, Deal
  PROVE  BuildInv'
<1>1. /\ freq \in [Symbols -> Nat] /\ NumUsed >= 2 /\ Coding(lens)
      /\ Balanced /\ kraft = Target
  BY DEF BuildInv, Deal, Limiting
<1>2. /\ UNCHANGED freq /\ phase' = "done" /\ Coding(lens')
      /\ \A s \in Symbols : lens'[s] <= MaxLen
      /\ CodeSum(lens', Occurring) = Target
  BY <1>1, DealCompletes
<1>3. CompleteLens'
  <2>1. Share(lens') = Target
    BY <1>1, <1>2, UsedFinite, CodeSumIsSum DEF Share
  <2> QED BY <1>2, <2>1, SameUsed
<1> QED BY <1>1, <1>2, <1>3 DEF BuildInv, BuildPhases, Limiting

LEMMA IdleBuild ==
  ASSUME BuildInv, UNCHANGED <<lens, lengthsVars>>
  PROVE  BuildInv'
<1>1. /\ UNCHANGED <<lens, freq, phase, li, ih, nfreq>>
      /\ UNCHANGED <<parent, count, kraft>>
  BY DEF lengthsVars
<1>2. /\ Occurring' = Occurring /\ NumUsed' = NumUsed
      /\ Coding(lens)' = Coding(lens) /\ Filled(lens)' = Filled(lens) /\ Binned' = Binned
  BY <1>1, SameUsed DEF Binned
<1>3. Merging' = Merging
  BY <1>1, <1>2 DEF Merging, Heads, HasParent, Out, HasTwo, Consumed, Nodes
<1>4. Balanced' = Balanced /\ Near' = Near /\ Fits' = Fits
  BY <1>1, <1>2 DEF Balanced, Booked, Near, Fits, Target
<1>5. CompleteLens' = CompleteLens
  BY <1>1, <1>2 DEF CompleteLens, Share, LengthShares, Target
<1>6. Queued' = Queued
  BY <1>1, <1>2 DEF Queued, SortedOn, Apart, Consumed
<1>7. Weighed' = Weighed
  BY <1>1, <1>2 DEF Weighed, SumOfTwo, Ranked, Later, Consumed, Nodes
<1> QED BY <1>1, <1>2, <1>3, <1>4, <1>5, <1>6, <1>7 DEF BuildInv, Target

LEMMA BuildSound ==
  ASSUME BuildInv
  PROVE  LimiterSound
<1>1. Accounting
  <2> SUFFICES ASSUME phase \in {"over", "under", "deal"}
               PROVE  /\ kraft = KraftOf(count)
                      /\ MapThenSumSet(LAMBDA l : count[l], 1 .. MaxLen) = NumUsed
    BY DEF Accounting
  <2>1. Balanced
    BY DEF BuildInv
  <2>2. SumOver(1 .. MaxLen, count) = MapThenSumSet(LAMBDA l : count[l], 1 .. MaxLen)
    BY Zenon DEF SumOver
  <2> QED BY <2>1, <2>2 DEF Balanced, Booked
<1>2. CompleteCode
  <2> SUFFICES ASSUME phase = "done", NumUsed >= 2
               PROVE  /\ \A s \in Symbols : lens[s] <= MaxLen /\ (s \in Occurring => lens[s] > 0)
                      /\ MapThenSumSet(LAMBDA s : 2^(MaxLen - lens[s]),
                                       {s \in Symbols : lens[s] > 0}) = Target
    BY DEF CompleteCode
  <2>1. CompleteLens
    BY DEF BuildInv
  <2>2. \A s \in Symbols : lens[s] <= MaxLen /\ (lens[s] > 0 <=> s \in Occurring)
    BY <2>1 DEF CompleteLens, Coding
  <2>3. {s \in Symbols : lens[s] > 0} = Occurring
    BY <2>2 DEF Occurring
  <2>4. CodeSum(lens, {s \in Symbols : lens[s] > 0}) = Target
    <3>1. Share(lens) = Target /\ IsFiniteSet(Occurring)
      BY <2>1, UsedFinite DEF CompleteLens, BuildInv
    <3> QED BY <2>3, <3>1, CodeSumIsSum DEF Share
  <2> QED BY <2>2, <2>4 DEF CodeSum
<1> QED BY <1>1, <1>2 DEF LimiterSound

LEMMA LengtheningBuilds ==
  ASSUME BuildInv, [Lengthening]_<<lens, lengthsVars>>
  PROVE  BuildInv'
<1>1. CASE \E f \in [Symbols -> Nat] : Countable(f) /\ Gather(f)
  BY <1>1, GatherBuild
<1>2. CASE MergeTwo \/ Depths
  BY <1>2, TreeBuild
<1>3. CASE Clamp
  BY <1>3, ClampBuild
<1>4. CASE Lengthen \/ Lengthened \/ Shorten \/ Shortened
  BY <1>4, LoopsBuild
<1>5. CASE Deal
  BY <1>5, DealBuild
<1>6. CASE UNCHANGED <<lens, lengthsVars>>
  BY <1>6, IdleBuild
<1> QED BY <1>1, <1>2, <1>3, <1>4, <1>5, <1>6 DEF Lengthening, Build

LEMMA BuildInvariance == LengthsSpec => []BuildInv
<1>1. LengthsInit /\ lens = Zeros => BuildInv
  BY InitBuild
<1>2. BuildInv /\ [Lengthening]_<<lens, lengthsVars>> => BuildInv'
  BY LengtheningBuilds
<1> QED BY <1>1, <1>2, PTL DEF LengthsSpec

\* Two queues do the work of a heap (pivco_build_table's merge loop): the internal nodes
\* always stand in order of weight, because each turn's two nodes weigh no less than those
\* of the turn before, and so does their parent.
THEOREM QueueStaysSorted == LengthsSpec => []QueueSorted
<1>1. BuildInv => QueueSorted
  BY DEF BuildInv, Queued, SortedOn, QueueSorted
<1> QED BY <1>1, BuildInvariance, PTL

\* No length is past the last of the limiter's counters (int count[64]), as long as the
\* frequencies total less than Fib[Bins + 2]: a node's uncle was still queued when the node was
\* taken and weighs no less, so that weights up the tree grow as Fibonacci numbers do.  The
\* code checks no total.
THEOREM BinsAlwaysSuffice == LengthsSpec => []BinsSuffice
<1>1. BuildInv => BinsSuffice
  BY DEF BuildInv, BinsSuffice
<1> QED BY <1>1, BuildInvariance, PTL

\* From any frequencies whose total stays below Fib[Bins + 2] the limiter's books are the
\* counts and the Kraft sum they claim to be, and the table it leaves is a complete code of
\* at most MaxLen bits for the used symbols: its first loop never runs out of codes to
\* lengthen, its second never ends short of the target.
THEOREM CodesComplete == LengthsSpec => []LimiterSound
<1>1. BuildInv => LimiterSound
  BY BuildSound
<1> QED BY <1>1, BuildInvariance, PTL

-----------------------------------------------------------------------------
(* The decoder's build. *)

\* A chunk's depth is its length less its bit, unless a byte cannot hold that.
LEMMA DepthWraps ==
  ASSUME NEW l \in 1 .. MaxLen, NEW b \in 0 .. 8
  PROVE  /\ (l - b) % 2^8 \in Nat
         /\ b <= l => (l - b) % 2^8 = l - b
         /\ (l - b) % 2^8 <= MaxLen => b <= l
<1>1. 2^8 = 256
  OBVIOUS
<1>2. MaxLen \in Nat /\ MaxLen < 16
  BY AlphabetAssumption, WidthAssumption
<1>3. b \in Int /\ l \in Int /\ 0 <= b /\ b <= 8 /\ 1 <= l /\ l < 16
  BY <1>2
<1>4. /\ (l - b) % 256 \in Nat
      /\ b <= l => (l - b) % 256 = l - b
      /\ b > l => (l - b) % 256 = 256 + l - b
  BY <1>3
<1> QED BY <1>1, <1>2, <1>3, <1>4

\* The set bits of a number of symbols, and the powers they stand for.
LEMMA BitsOfCount ==
  ASSUME NEW x \in Nat, x <= 2^8
  PROVE  /\ IsFiniteSet(BitsOf(x)) /\ BitsOf(x) \in SUBSET (0 .. 8)
         /\ SumOver(BitsOf(x), Powers) = x
<1>1. BitsOf(x) = BitsBelow(x, x + 1)
  <2>1. 0 .. x = 0 .. (x + 1) - 1
    OBVIOUS
  <2> QED BY <2>1 DEF BitsOf, BitsBelow
<1>2. IsFiniteSet(BitsOf(x)) /\ SumOver(BitsOf(x), Powers) = x
  <2>1. x + 1 \in Nat
    OBVIOUS
  <2>2. IsFiniteSet(BitsBelow(x, x + 1))
    BY <2>1, BitsMakeUp
  <2>3. SumOver(BitsBelow(x, x + 1), Powers) = x
    BY AllItsBits
  <2> QED BY <1>1, <2>2, <2>3
<1>3. ASSUME NEW b \in BitsOf(x) PROVE b \in 0 .. 8
  <2>1. b \in Nat /\ (x \div 2^b) % 2 = 1
    BY DEF BitsOf
  <2>2. PICK p \in Nat \ {0} : p = 2^b
    BY <2>1, PowerIsPositive
  <2>3. PICK a \in Nat, r \in 0 .. p - 1 : a = x \div p /\ x = p * a + r
    BY Divides
  <2>4. a # 0
    BY <2>1, <2>2, <2>3
  <2>5. p <= x
    <3>1. p * 0 + p <= p * a /\ p * 0 = 0
      BY <2>4, Multiples
    <3> QED BY <2>3, <3>1
  <2>6. SUFFICES ASSUME b > 8 PROVE FALSE
    BY <2>1
  <2>7. 2^8 < 2^b
    <3>1. 9 \in Nat /\ 9 <= b
      BY <2>1, <2>6
    <3>2. 2^9 <= 2^b
      BY <2>1, <3>1, PowerGrows
    <3>3. 2^8 = 256 /\ 2^9 = 512
      OBVIOUS
    <3> QED BY <2>2, <3>2, <3>3
  <2> QED BY <2>2, <2>5, <2>7
<1> QED BY <1>2, <1>3

Fitted == [Symbols -> 0 .. MaxLen]

LEMMA LengthCount ==
  ASSUME NEW ls \in Fitted, NEW l
  PROVE  /\ IsFiniteSet(OfLen(ls, l)) /\ Cardinality(OfLen(ls, l)) \in Nat
         /\ Cardinality(OfLen(ls, l)) <= 2^8
<1>1. OfLen(ls, l) \in SUBSET Symbols
  BY DEF OfLen
<1>2. IsFiniteSet(OfLen(ls, l)) /\ Cardinality(OfLen(ls, l)) <= Cardinality(Symbols)
  BY <1>1, AlphabetAssumption, FS_Subset
<1>3. Cardinality(OfLen(ls, l)) \in Nat /\ Cardinality(Symbols) \in Nat
  BY <1>2, AlphabetAssumption, FS_CardinalityType
<1>4. 2^8 = 256
  OBVIOUS
<1> QED BY <1>2, <1>3, <1>4, WidthAssumption

\* The chunks of one length, by their bits.
BitsAt(ls, l) == BitsOf(Cardinality(OfLen(ls, l)))
ChunksAt(ls, l) == {Chunk(ls, l, b) : b \in BitsAt(ls, l)}

LEMMA ChunkFields ==
  ASSUME NEW ls, NEW l, NEW b
  PROVE  /\ Chunk(ls, l, b).len = l /\ Chunk(ls, l, b).bit = b
         /\ Chunk(ls, l, b).depth = (l - b) % 2^8
BY DEF Chunk

LEMMA ChunkShape ==
  ASSUME NEW ls \in Fitted
  PROVE  /\ IsFiniteSet(ChunkSet(ls))
         /\ \A c \in ChunkSet(ls) :
              /\ c.len \in 1 .. MaxLen /\ c.bit \in BitsAt(ls, c.len) /\ c.bit \in 0 .. 8
              /\ c.depth = (c.len - c.bit) % 2^8 /\ c = Chunk(ls, c.len, c.bit)
         /\ \A l \in 1 .. MaxLen : ChunksAt(ls, l) = {c \in ChunkSet(ls) : c.len = l}
<1>1. \A l : IsFiniteSet(BitsAt(ls, l)) /\ BitsAt(ls, l) \in SUBSET (0 .. 8)
  BY LengthCount, BitsOfCount DEF BitsAt
<1>2. ChunkSet(ls) = UNION {ChunksAt(ls, l) : l \in 1 .. MaxLen}
  BY DEF ChunkSet, ChunksAt, BitsAt
<1>3. \A c : c \in ChunkSet(ls) <=> \E l \in 1 .. MaxLen : c \in ChunksAt(ls, l)
  BY <1>2
<1>4. \A l, c : c \in ChunksAt(ls, l) <=> \E b \in BitsAt(ls, l) : c = Chunk(ls, l, b)
  BY DEF ChunksAt
<1>5. ASSUME NEW c \in ChunkSet(ls)
      PROVE  /\ c.len \in 1 .. MaxLen /\ c.bit \in BitsAt(ls, c.len) /\ c.bit \in 0 .. 8
             /\ c.depth = (c.len - c.bit) % 2^8 /\ c = Chunk(ls, c.len, c.bit)
             /\ \E l \in 1 .. MaxLen : l = c.len /\ c \in ChunksAt(ls, l)
  <2>0. PICK l \in 1 .. MaxLen : c \in ChunksAt(ls, l)
    BY <1>3
  <2>1. PICK b \in BitsAt(ls, l) : c = Chunk(ls, l, b)
    BY <1>4, <2>0
  <2>2. c.len = l /\ c.bit = b /\ c.depth = (l - b) % 2^8
    BY <2>1, ChunkFields
  <2>3. c \in ChunksAt(ls, l)
    BY <1>4, <2>1
  <2> QED BY <1>1, <2>1, <2>2, <2>3
<1>6. ASSUME NEW l \in 1 .. MaxLen PROVE ChunksAt(ls, l) = {c \in ChunkSet(ls) : c.len = l}
  <2>1. \A c \in ChunksAt(ls, l) : c \in ChunkSet(ls) /\ c.len = l
    BY <1>3, <1>4, ChunkFields
  <2>2. \A c \in ChunkSet(ls) : c.len = l => c \in ChunksAt(ls, l)
    BY <1>5
  <2> QED BY <2>1, <2>2
<1>7. IsFiniteSet(ChunkSet(ls))
  <2> DEFINE Pairs == (1 .. MaxLen) \X (0 .. 8)
             f == [c \in ChunkSet(ls) |-> <<c.len, c.bit>>]
  <2>1. IsFiniteSet(1 .. MaxLen) /\ IsFiniteSet(0 .. 8)
    <3>1. MaxLen \in Int /\ 1 \in Int /\ 0 \in Int /\ 8 \in Int
      BY AlphabetAssumption
    <3> QED BY <3>1, FS_Interval
  <2>2. IsFiniteSet(Pairs)
    BY <2>1, FS_Product
  <2>3. \A c \in ChunkSet(ls) : f[c] = <<c.len, c.bit>> /\ f[c] \in Pairs
    BY <1>5
  <2>4. \A c, d \in ChunkSet(ls) : f[c] = f[d] => c = d
    <3> SUFFICES ASSUME NEW c \in ChunkSet(ls), NEW d \in ChunkSet(ls), f[c] = f[d] PROVE c = d
      OBVIOUS
    <3>1. c.len = d.len /\ c.bit = d.bit
      BY <2>3
    <3>2. c = Chunk(ls, c.len, c.bit) /\ d = Chunk(ls, d.len, d.bit)
      BY <1>5
    <3> QED BY <3>1, <3>2
  <2>5. f \in Injection(ChunkSet(ls), Pairs)
    <3>1. f = [c \in ChunkSet(ls) |-> f[c]]
      OBVIOUS
    <3> HIDE DEF f, Pairs
    <3> QED BY <2>3, <2>4, <3>1 DEF Injection, IsInjective
  <2> HIDE DEF f, Pairs
  <2> QED BY <2>2, <2>5, FS_Injection
<1> QED BY <1>5, <1>6, <1>7

-----------------------------------------------------------------------------
\* What a chunk takes of the code space is what its symbols' codes take, so the chunks'
\* shares add up to the Kraft sum.
Took(C) == [c \in C |-> 2^(MaxLen - c.len) * 2^(c.bit)]

LEMMA TookIs ==
  ASSUME NEW ls \in Fitted, NEW c \in ChunkSet(ls)
  PROVE  /\ Took(ChunkSet(ls))[c] = 2^(MaxLen - c.len) * 2^(c.bit)
         /\ 2^(MaxLen - c.len) \in Nat /\ 2^(c.bit) \in Nat
         /\ Took(ChunkSet(ls))[c] \in Nat /\ Took(ChunkSet(ls))[c] = 2^(MaxLen - c.len + c.bit)
<1>1. MaxLen - c.len \in Nat /\ c.bit \in Nat
  <2>1. c.len \in 1 .. MaxLen /\ c.bit \in 0 .. 8 /\ MaxLen \in Nat
    BY ChunkShape, AlphabetAssumption
  <2> QED BY <2>1
<1>2. 2^(MaxLen - c.len) \in Nat /\ 2^(c.bit) \in Nat
  BY <1>1, PowerIsPositive
<1>3. 2^(MaxLen - c.len + c.bit) = 2^(MaxLen - c.len) * 2^(c.bit)
  BY <1>1, PowerAdds
<1>4. Took(ChunkSet(ls))[c] = 2^(MaxLen - c.len) * 2^(c.bit)
  BY DEF Took
<1>5. PICK a \in Nat, b \in Nat : a = 2^(MaxLen - c.len) /\ b = 2^(c.bit)
  BY <1>2
<1>6. a * b \in Nat
  OBVIOUS
<1> QED BY <1>2, <1>3, <1>4, <1>5, <1>6

LEMMA TookOfLength ==
  ASSUME NEW ls \in Fitted, NEW l \in 1 .. MaxLen
  PROVE  SumOver(ChunksAt(ls, l), Took(ChunkSet(ls)))
           = Cardinality(OfLen(ls, l)) * 2^(MaxLen - l)
<1> DEFINE S == ChunksAt(ls, l)
           T == BitsAt(ls, l)
           f == [c \in S |-> c.bit]
           g == [b \in T |-> 2^(MaxLen - l) * Powers[b]]
           h == Took(ChunkSet(ls))
<1>1. /\ \A c \in S : c \in ChunkSet(ls) /\ c.len = l /\ c.bit \in T /\ c = Chunk(ls, l, c.bit)
      /\ IsFiniteSet(S)
  <2>1. S = {c \in ChunkSet(ls) : c.len = l}
    BY ChunkShape
  <2>2. IsFiniteSet(S)
    <3>1. S \in SUBSET ChunkSet(ls)
      BY <2>1
    <3> HIDE DEF S
    <3> QED BY <3>1, ChunkShape, FS_Subset
  <2>3. \A c \in ChunkSet(ls) : c.bit \in BitsAt(ls, c.len) /\ c = Chunk(ls, c.len, c.bit)
    BY ChunkShape
  <2> HIDE DEF S
  <2> QED BY <2>1, <2>2, <2>3
<1>2. /\ IsFiniteSet(T) /\ T \in SUBSET (0 .. 8) /\ T \in SUBSET Nat
      /\ SumOver(T, Powers) = Cardinality(OfLen(ls, l))
  BY LengthCount, BitsOfCount DEF BitsAt
<1>3. f \in Bijection(S, T)
  <2>1. \A c \in S : f[c] = c.bit /\ f[c] \in T
    BY <1>1
  <2>2. \A c, d \in S : f[c] = f[d] => c = d
    <3> SUFFICES ASSUME NEW c \in S, NEW d \in S, f[c] = f[d] PROVE c = d
      OBVIOUS
    <3>1. c = Chunk(ls, l, c.bit) /\ d = Chunk(ls, l, d.bit)
      BY <1>1
    <3>2. c.bit = d.bit
      BY <2>1
    <3> QED BY <3>1, <3>2
  <2>3. \A b \in T : \E c \in S : f[c] = b
    <3> SUFFICES ASSUME NEW b \in T PROVE \E c \in S : f[c] = b
      OBVIOUS
    <3>1. Chunk(ls, l, b) \in S
      BY DEF ChunksAt
    <3>2. f[Chunk(ls, l, b)] = b
      BY <2>1, <3>1, ChunkFields
    <3> QED BY <3>1, <3>2
  <2>4. f = [c \in S |-> f[c]]
    OBVIOUS
  <2> HIDE DEF f, S, T
  <2> QED BY <2>1, <2>2, <2>3, <2>4 DEF Bijection, Injection, Surjection, IsInjective
<1>4. 2^(MaxLen - l) \in Nat
  <2>1. MaxLen - l \in Nat
    BY AlphabetAssumption
  <2> QED BY <2>1, PowerIsPositive
<1>5. \A b \in T : Powers[b] \in Nat /\ Powers[b] = 2^b /\ g[b] = 2^(MaxLen - l) * Powers[b]
  <2> SUFFICES ASSUME NEW b \in T
               PROVE  Powers[b] \in Nat /\ Powers[b] = 2^b /\ g[b] = 2^(MaxLen - l) * Powers[b]
    OBVIOUS
  <2>1. b \in Nat
    BY <1>2
  <2>2. Powers[b] = 2^b /\ 2^b \in Nat
    BY <2>1, PowerIsPositive DEF Powers
  <2> QED BY <2>2
<1>6. PICK p \in Nat : p = 2^(MaxLen - l)
  BY <1>4
<1>7. \A b \in T : g[b] \in Int /\ Powers[b] \in Int /\ g[b] = p * Powers[b]
  <2> SUFFICES ASSUME NEW b \in T PROVE g[b] \in Int /\ Powers[b] \in Int /\ g[b] = p * Powers[b]
    OBVIOUS
  <2>1. g[b] = p * Powers[b] /\ Powers[b] \in Nat
    BY <1>5, <1>6
  <2>2. p * Powers[b] \in Int
    BY <2>1
  <2> HIDE DEF g
  <2> QED BY <2>1, <2>2
<1>8. \A c \in S : h[c] = g[f[c]]
  <2> SUFFICES ASSUME NEW c \in S PROVE h[c] = g[f[c]]
    OBVIOUS
  <2>1. c \in ChunkSet(ls) /\ c.len = l /\ c.bit \in T
    BY <1>1
  <2>2. h[c] = 2^(MaxLen - l) * 2^(c.bit)
    BY <2>1, TookIs
  <2>3. f[c] = c.bit
    OBVIOUS
  <2>4. g[c.bit] = 2^(MaxLen - l) * 2^(c.bit)
    <3>1. g[c.bit] = 2^(MaxLen - l) * Powers[c.bit] /\ Powers[c.bit] = 2^(c.bit)
      BY <1>5, <2>1
    <3> HIDE DEF g
    <3> QED BY <3>1
  <2> HIDE DEF f, g, h
  <2> QED BY <2>2, <2>3, <2>4
<1> HIDE DEF f, g, h, S, T
<1>9. SumOver(S, h) = SumOver(T, g)
  BY <1>1, <1>3, <1>7, <1>8, TotalRenamed
<1>10. SumOver(T, g) = p * SumOver(T, Powers)
  <2>1. p \in Int
    OBVIOUS
  <2> QED BY <1>2, <1>7, <2>1, TotalScaled
<1>11. Cardinality(OfLen(ls, l)) \in Nat
  BY LengthCount
<1>12. SumOver(S, h) = Cardinality(OfLen(ls, l)) * p
  BY <1>2, <1>9, <1>10, <1>11
<1> QED BY <1>6, <1>12 DEF S, h

LEMMA ChunksTakeTheCode ==
  ASSUME NEW ls \in Fitted
  PROVE  SumOver(ChunkSet(ls), Took(ChunkSet(ls))) = CodeSum(ls, Used(ls))
<1> DEFINE C == ChunkSet(ls)
           L == 1 .. MaxLen
           U == Used(ls)
           k == [l \in L |-> Cardinality(OfLen(ls, l)) * 2^(MaxLen - l)]
           g == [l \in L |-> 2^(MaxLen - l)]
           f == [c \in C |-> c.len]
           h == LengthShares(ls, U, MaxLen)
<1>0. MaxLen \in Nat /\ IsFiniteSet(L)
  <2>1. MaxLen \in Int /\ 1 \in Int /\ MaxLen \in Nat
    BY AlphabetAssumption
  <2> QED BY <2>1, FS_Interval
<1>1. IsFiniteSet(U) /\ \A s \in U : s \in Symbols /\ ls[s] \in L
  <2>1. U \in SUBSET Symbols /\ \A s \in U : ls[s] > 0 /\ ls[s] \in 0 .. MaxLen
    BY DEF Used, Fitted
  <2>2. IsFiniteSet(U)
    BY <2>1, AlphabetAssumption, FS_Subset
  <2> QED BY <1>0, <2>1, <2>2
<1>2. \A l \in L : g[l] \in Int /\ k[l] = Cardinality(OfLen(ls, l)) * g[l] /\ g[l] = 2^(MaxLen - l)
  <2> SUFFICES ASSUME NEW l \in L
               PROVE  g[l] \in Int /\ k[l] = Cardinality(OfLen(ls, l)) * g[l] /\ g[l] = 2^(MaxLen - l)
    OBVIOUS
  <2>1. MaxLen - l \in Nat
    BY <1>0
  <2>2. 2^(MaxLen - l) \in Nat
    BY <2>1, PowerIsPositive
  <2>3. g[l] = 2^(MaxLen - l) /\ k[l] = Cardinality(OfLen(ls, l)) * 2^(MaxLen - l)
    OBVIOUS
  <2> HIDE DEF g, k, L
  <2> QED BY <2>2, <2>3
<1>3. \A l \in L : Sharing(U, ls, l) = OfLen(ls, l)
  BY <1>0 DEF Sharing, OfLen, Used
<1>4. SumOver(U, h) = SumOver(L, k)
  <2>1. \A s \in U : h[s] = g[ls[s]]
    <3> SUFFICES ASSUME NEW s \in U PROVE h[s] = g[ls[s]]
      OBVIOUS
    <3>1. h[s] = 2^(MaxLen - ls[s])
      BY DEF LengthShares
    <3>2. g[ls[s]] = 2^(MaxLen - ls[s])
      BY <1>1, <1>2
    <3> HIDE DEF h, g
    <3> QED BY <3>1, <3>2
  <2> HIDE DEF k, g, h, L, U
  <2>2. FeatureSum(U, ls, g, h, k, L)
    BY <1>1, <1>2, <1>3, <2>1 DEF FeatureSum
  <2> QED BY <1>0, <1>1, <2>2, TotalByFeature
<1>5. SumOver(C, Took(C)) = SumOver(L, k)
  <2>1. \A c \in C : f[c] \in L /\ f[c] = c.len
    BY ChunkShape
  <2>2. \A c \in C : Took(C)[c] \in Int
    <3> SUFFICES ASSUME NEW c \in C PROVE Took(C)[c] \in Int
      OBVIOUS
    <3>1. Took(C)[c] \in Nat
      BY TookIs
    <3> QED BY <3>1
  <2>3. \A l \in L : k[l] = SumOver(Sharing(C, f, l), Took(C))
    <3> SUFFICES ASSUME NEW l \in L PROVE k[l] = SumOver(Sharing(C, f, l), Took(C))
      OBVIOUS
    <3>1. ChunksAt(ls, l) = {c \in C : c.len = l}
      BY ChunkShape
    <3>2. Sharing(C, f, l) = ChunksAt(ls, l)
      <4> HIDE DEF f, C
      <4> QED BY <2>1, <3>1 DEF Sharing
    <3>3. SumOver(ChunksAt(ls, l), Took(C)) = Cardinality(OfLen(ls, l)) * 2^(MaxLen - l)
      BY TookOfLength
    <3>4. k[l] = Cardinality(OfLen(ls, l)) * 2^(MaxLen - l)
      OBVIOUS
    <3> HIDE DEF k, f, C
    <3> QED BY <3>2, <3>3, <3>4
  <2>4. IsFiniteSet(C)
    BY ChunkShape
  <2> HIDE DEF k, f, C, L
  <2>5. PartSum(C, f, Took(C), k, L)
    BY <2>1, <2>2, <2>3 DEF PartSum
  <2> QED BY <1>0, <2>4, <2>5, TotalByParts
<1>6. CodeSum(ls, U) = SumOver(U, h)
  BY <1>1, CodeSumIsSum
<1> QED BY <1>4, <1>5, <1>6

-----------------------------------------------------------------------------
\* A chunk's symbols are a stretch of the symbols of its length.
LEMMA AscendingIs ==
  ASSUME NEW S \in SUBSET Symbols
  PROVE  Cardinality(S) \in Nat /\ Ascending(S) \in Seq(S) /\ Len(Ascending(S)) = Cardinality(S)
<1> DEFINE n == Cardinality(S)
           R == {pr \in S \X S : pr[1] <= pr[2]}
           p == [s \in S |-> Cardinality(Upto(S, R, s))]
           e == [i \in 1 .. n |-> CHOOSE s \in S : Cardinality({t \in S : t <= s}) = i]
<1>1. IsFiniteSet(S) /\ n \in Nat /\ \A s \in S : s \in Nat
  BY AlphabetAssumption, FS_Subset, FS_CardinalityType
<1>2. \A s, t \in S : <<s, t>> \in R <=> s <= t
  OBVIOUS
<1>3. IsOrder(S, R)
  <2> HIDE DEF R
  <2> QED BY <1>1, <1>2 DEF IsOrder
<1>4. p \in Bijection(S, 1 .. n)
  <2>1. p = [s \in S |-> Cardinality(Upto(S, R, s))]
    OBVIOUS
  <2> HIDE DEF R, p
  <2> QED BY <1>1, <1>3, <2>1, PlacesNumber
<1>5. \A s \in S : p[s] = Cardinality({t \in S : t <= s})
  <2> SUFFICES ASSUME NEW s \in S PROVE p[s] = Cardinality({t \in S : t <= s})
    OBVIOUS
  <2>1. Upto(S, R, s) = {t \in S : t <= s}
    <3> HIDE DEF R
    <3> QED BY <1>2 DEF Upto
  <2>2. p[s] = Cardinality(Upto(S, R, s))
    OBVIOUS
  <2> QED BY <2>1, <2>2
<1> HIDE DEF p, R
<1>6. \A i \in 1 .. n : \E s \in S : p[s] = i
  BY <1>4 DEF Bijection, Surjection
<1>7. Ascending(S) = e /\ \A i \in 1 .. n : e[i] = CHOOSE s \in S : Cardinality({t \in S : t <= s}) = i
  BY DEF Ascending
<1>8. e = [i \in 1 .. n |-> e[i]]
  OBVIOUS
<1> HIDE DEF e
<1>9. \A i \in 1 .. n : e[i] \in S
  <2> SUFFICES ASSUME NEW i \in 1 .. n PROVE e[i] \in S
    OBVIOUS
  <2>1. \E s \in S : Cardinality({t \in S : t <= s}) = i
    BY <1>5, <1>6
  <2> QED BY <1>7, <2>1
<1>10. e \in [1 .. n -> S]
  <2> HIDE DEF n
  <2> QED BY <1>8, <1>9
<1>11. e \in Seq(S) /\ Len(e) = n
  <2>1. ASSUME NEW k \in Nat, NEW q \in [1 .. k -> S] PROVE q \in Seq(S) /\ Len(q) = k
    OBVIOUS
  <2> HIDE DEF n
  <2> QED BY <1>1, <1>10, <2>1
<1> QED BY <1>1, <1>7, <1>11

LEMMA ChunkSyms ==
  ASSUME NEW ls \in Fitted, NEW c \in ChunkSet(ls)
  PROVE  c.syms \in Seq(Symbols)
<1> DEFINE x == Cardinality(OfLen(ls, c.len))
           asc == Ascending(OfLen(ls, c.len))
           b == c.bit
           taken == (x \div 2^(b + 1)) * 2^(b + 1)
<1>1. b \in Nat /\ b \in BitsOf(x) /\ c = Chunk(ls, c.len, b)
  BY ChunkShape DEF BitsAt
<1>2. c.syms = SubSeq(asc, taken + 1, taken + 2^b)
  <2>1. Chunk(ls, c.len, b).syms = SubSeq(asc, taken + 1, taken + 2^b)
    BY DEF Chunk
  <2> QED BY <1>1, <2>1
<1>3. OfLen(ls, c.len) \in SUBSET Symbols
  BY DEF OfLen
<1>4. x \in Nat /\ asc \in Seq(Symbols) /\ Len(asc) = x
  <2>1. x \in Nat /\ asc \in Seq(OfLen(ls, c.len)) /\ Len(asc) = x
    BY <1>3, AscendingIs
  <2> HIDE DEF asc, x
  <2> QED BY <1>3, <2>1
<1> HIDE DEF x, asc, b
<1>5. (x \div 2^b) % 2 = 1
  BY <1>1 DEF BitsOf
<1>6. PICK p \in Nat \ {0} : p = 2^b /\ 2^(b + 1) = 2 * p
  BY <1>1, PowerIsPositive, PowerDoubles
<1>7. PICK a \in Nat, r \in 0 .. p - 1 : a = x \div p /\ x = p * a + r
  BY <1>4, Divides
<1>8. PICK k \in Nat : k = a \div 2 /\ a = 2 * k + 1
  <2>1. a \div 2 \in Nat /\ a = 2 * (a \div 2) + (a % 2) /\ a % 2 = 1
    BY <1>5, <1>6, <1>7
  <2> QED BY <2>1
<1>9. x \div 2^(b + 1) = k
  BY <1>4, <1>6, <1>7, <1>8, HalvesTwice
<1>10. taken = k * (2 * p)
  BY <1>6, <1>9
<1>11. p * a = k * (2 * p) + p
  BY <1>8
<1>12. PICK m \in Nat : m = k * (2 * p)
  OBVIOUS
<1>13. taken = m /\ m + p <= x
  BY <1>4, <1>7, <1>10, <1>11, <1>12
<1>14. c.syms = SubSeq(asc, m + 1, m + p)
  BY <1>2, <1>6, <1>13
<1>15. m + 1 \in Nat /\ m + 1 >= 1 /\ m + p \in Nat /\ m + p <= Len(asc)
  BY <1>4, <1>13
<1> QED BY <1>4, <1>14, <1>15

-----------------------------------------------------------------------------
\* The sort puts the chunks in a row, each at one place, none before a shallower one.
InRow(cs, C) ==
  /\ cs \in [1 .. Cardinality(C) -> C] /\ Cardinality(C) \in Nat /\ Len(cs) = Cardinality(C)
  /\ cs \in Bijection(1 .. Cardinality(C), C)
  /\ \A i, j \in 1 .. Cardinality(C) : i < j => NotAfter(cs[i], cs[j])

LEMMA SortsChunks ==
  ASSUME NEW ls \in Fitted
  PROVE  InRow(SortByDepth(ChunkSet(ls)), ChunkSet(ls))
<1> DEFINE C == ChunkSet(ls)
           n == Cardinality(C)
           R == {pr \in C \X C : NotAfter(pr[1], pr[2])}
           p == [c \in C |-> Cardinality(Upto(C, R, c))]
           cs == SortByDepth(C)
<1>1. IsFiniteSet(C) /\ n \in Nat
  BY ChunkShape, FS_CardinalityType
<1>2. \A c \in C : c.len \in Int /\ c.depth \in Int
  <2> SUFFICES ASSUME NEW c \in C PROVE c.len \in Int /\ c.depth \in Int
    OBVIOUS
  <2>1. c.len \in 1 .. MaxLen /\ c.bit \in 0 .. 8 /\ c.depth = (c.len - c.bit) % 2^8
    BY ChunkShape
  <2>2. c.depth \in Nat
    BY <2>1, DepthWraps
  <2> QED BY <2>1, <2>2
<1>3. \A c, d \in C : c.len = d.len /\ c.depth = d.depth => c = d
  <2> SUFFICES ASSUME NEW c \in C, NEW d \in C, c.len = d.len, c.depth = d.depth PROVE c = d
    OBVIOUS
  <2>1. /\ c.len \in 1 .. MaxLen /\ c.bit \in 0 .. 8 /\ d.bit \in 0 .. 8
        /\ c.depth = (c.len - c.bit) % 2^8 /\ d.depth = (d.len - d.bit) % 2^8
        /\ c = Chunk(ls, c.len, c.bit) /\ d = Chunk(ls, d.len, d.bit)
    BY ChunkShape
  <2>2. PICK l \in Int, a \in 0 .. 8, b \in 0 .. 8 : l = c.len /\ a = c.bit /\ b = d.bit
    BY <2>1
  <2>3. (l - a) % 2^8 = (l - b) % 2^8
    BY <2>1, <2>2
  <2>4. 2^8 = 256
    OBVIOUS
  <2>5. (l - a) % 256 = (l - b) % 256 => a = b
    OBVIOUS
  <2> QED BY <2>1, <2>2, <2>3, <2>4, <2>5
<1> HIDE DEF C
<1>4. \A c, d \in C : <<c, d>> \in R <=> NotAfter(c, d)
  OBVIOUS
<1>5. IsOrder(C, R)
  <2> HIDE DEF R
  <2>1. /\ \A c \in C : NotAfter(c, c)
        /\ \A c, d \in C : NotAfter(c, d) \/ NotAfter(d, c)
    BY <1>2 DEF NotAfter
  <2>2. \A c, d \in C : NotAfter(c, d) /\ NotAfter(d, c) => c = d
    BY <1>2, <1>3 DEF NotAfter
  <2>3. \A c, d, e \in C : NotAfter(c, d) /\ NotAfter(d, e) => NotAfter(c, e)
    BY <1>2 DEF NotAfter
  <2> QED BY <1>4, <2>1, <2>2, <2>3 DEF IsOrder
<1>6. p \in Bijection(C, 1 .. n) /\ \A c, d \in C : c # d /\ <<c, d>> \in R => p[c] < p[d]
  <2>1. p = [c \in C |-> Cardinality(Upto(C, R, c))]
    OBVIOUS
  <2> HIDE DEF R, p
  <2> QED BY <1>1, <1>5, <2>1, PlacesNumber
<1>7. \A c \in C : p[c] = Cardinality({d \in C : NotAfter(d, c)})
  <2> SUFFICES ASSUME NEW c \in C PROVE p[c] = Cardinality({d \in C : NotAfter(d, c)})
    OBVIOUS
  <2>1. Upto(C, R, c) = {d \in C : NotAfter(d, c)}
    <3> HIDE DEF R
    <3> QED BY <1>4 DEF Upto
  <2>2. p[c] = Cardinality(Upto(C, R, c))
    OBVIOUS
  <2> QED BY <2>1, <2>2
<1> HIDE DEF p, R
<1>8. /\ \A c, d \in C : p[c] = p[d] => c = d
      /\ \A i \in 1 .. n : \E c \in C : p[c] = i
      /\ \A c \in C : p[c] \in 1 .. n
  BY <1>6 DEF Bijection, Injection, Surjection, IsInjective
<1> DEFINE e == [i \in 1 .. n |-> CHOOSE c \in C : Cardinality({d \in C : NotAfter(d, c)}) = i]
<1>9. cs = e /\ \A i \in 1 .. n : e[i] = CHOOSE c \in C : Cardinality({d \in C : NotAfter(d, c)}) = i
  BY DEF SortByDepth
<1>20. e = [i \in 1 .. n |-> e[i]]
  OBVIOUS
<1> HIDE DEF cs, e
<1>10. \A i \in 1 .. n : cs[i] \in C /\ p[cs[i]] = i
  <2> SUFFICES ASSUME NEW i \in 1 .. n PROVE cs[i] \in C /\ p[cs[i]] = i
    OBVIOUS
  <2>1. cs[i] = CHOOSE c \in C : Cardinality({d \in C : NotAfter(d, c)}) = i
    BY <1>9
  <2>2. \E c \in C : Cardinality({d \in C : NotAfter(d, c)}) = i
    BY <1>7, <1>8
  <2>3. cs[i] \in C /\ Cardinality({d \in C : NotAfter(d, cs[i])}) = i
    BY <2>1, <2>2
  <2> QED BY <1>7, <2>3
<1>11. cs \in [1 .. n -> C]
  <2> HIDE DEF n
  <2>1. cs = [i \in 1 .. n |-> cs[i]]
    BY <1>9, <1>20
  <2> QED BY <1>10, <2>1
<1>12. Len(cs) = n
  <2>1. ASSUME NEW k \in Nat, NEW q \in [1 .. k -> C] PROVE Len(q) = k
    OBVIOUS
  <2> HIDE DEF n
  <2> QED BY <1>1, <1>11, <2>1
<1>13. cs \in Bijection(1 .. n, C)
  <2>1. \A i, j \in 1 .. n : cs[i] = cs[j] => i = j
    BY <1>10
  <2>2. \A c \in C : p[c] \in 1 .. n /\ cs[p[c]] = c
    BY <1>8, <1>10
  <2> HIDE DEF n
  <2> QED BY <1>11, <2>1, <2>2 DEF Bijection, Injection, Surjection, IsInjective
<1>14. ASSUME NEW i \in 1 .. n, NEW j \in 1 .. n, i < j PROVE NotAfter(cs[i], cs[j])
  <2>1. cs[i] \in C /\ cs[j] \in C /\ p[cs[i]] = i /\ p[cs[j]] = j
    BY <1>10
  <2>2. i \in Int /\ j \in Int
    BY <1>1
  <2>3. SUFFICES ASSUME ~NotAfter(cs[i], cs[j]) PROVE FALSE
    OBVIOUS
  <2>4. <<cs[j], cs[i]>> \in R
    BY <1>2, <1>4, <2>1, <2>3 DEF NotAfter
  <2>5. cs[j] # cs[i]
    BY <1>14, <2>1, <2>2
  <2>6. j < i
    BY <1>6, <2>1, <2>4, <2>5
  <2> QED BY <1>14, <2>2, <2>6
<1> QED BY <1>1, <1>11, <1>12, <1>13, <1>14 DEF InRow, n, cs, C

\* What the first chunks of the row take.
Places(cs) == [i \in 1 .. Len(cs) |-> 2^(MaxLen - cs[i].len) * 2^(cs[i].bit)]
Eaten(cs, k) == SumOver(1 .. k, Places(cs))

\* A row of chunks as the recursion needs it.
Chunked(cs) ==
  /\ Len(cs) \in Nat /\ DOMAIN cs = 1 .. Len(cs)
  /\ \A i \in 1 .. Len(cs) : /\ cs[i].depth \in Nat /\ cs[i].bit \in Nat /\ Places(cs)[i] \in Nat
                             /\ cs[i].depth <= MaxLen =>
                                  2 * Places(cs)[i] = 2^(MaxLen + 1 - cs[i].depth)
  /\ \A i, j \in 1 .. Len(cs) : i < j => cs[i].depth <= cs[j].depth
  /\ \A i, j \in 1 .. Len(cs) :
       i < j /\ cs[i].depth = cs[j].depth /\ cs[j].depth <= MaxLen => cs[j].bit # 0
  /\ \A k \in 0 .. Len(cs) : Eaten(cs, k) \in Nat
  /\ Eaten(cs, 0) = 0
  /\ \A k \in 1 .. Len(cs) : Eaten(cs, k) = Eaten(cs, k - 1) + Places(cs)[k]
  /\ \A k \in 1 .. Len(cs) : Eaten(cs, k - 1) < Eaten(cs, Len(cs))
  /\ \A i \in 1 .. Len(cs) : cs[i].syms \in Seq(Symbols)

LEMMA RowIsChunked ==
  ASSUME NEW ls \in Fitted, NEW cs, cs = SortByDepth(ChunkSet(ls))
  PROVE  /\ Chunked(cs) /\ Eaten(cs, Len(cs)) = CodeSum(ls, Used(ls))
         /\ Complete(ls) => \A i \in 1 .. Len(cs) : cs[i].depth <= MaxLen
<1> DEFINE C == ChunkSet(ls)
           n == Cardinality(C)
<1>0. InRow(cs, C)
  BY SortsChunks
<1>1. /\ n \in Nat /\ Len(cs) = n /\ DOMAIN cs = 1 .. n /\ cs \in Bijection(1 .. n, C)
      /\ \A i \in 1 .. n : cs[i] \in C
      /\ \A i, j \in 1 .. n : cs[i] = cs[j] => i = j
      /\ \A i, j \in 1 .. n : i < j => NotAfter(cs[i], cs[j])
  BY <1>0 DEF InRow, Bijection, Injection, IsInjective
<1>2. MaxLen \in Nat /\ MaxLen < 16
  BY AlphabetAssumption, WidthAssumption
<1>3. \A i \in 1 .. n :
        /\ cs[i].len \in 1 .. MaxLen /\ cs[i].bit \in 0 .. 8
        /\ cs[i].depth = (cs[i].len - cs[i].bit) % 2^8
        /\ cs[i] = Chunk(ls, cs[i].len, cs[i].bit)
  BY <1>1, ChunkShape
<1>4. \A i \in 1 .. n : /\ cs[i].depth \in Nat
                        /\ cs[i].bit <= cs[i].len => cs[i].depth = cs[i].len - cs[i].bit
                        /\ cs[i].depth <= MaxLen => cs[i].bit <= cs[i].len
  BY <1>3, DepthWraps
<1>5. \A i \in 1 .. n : /\ Places(cs)[i] = Took(C)[cs[i]] /\ Places(cs)[i] \in Nat
                        /\ Places(cs)[i] = 2^(MaxLen - cs[i].len + cs[i].bit)
  <2> SUFFICES ASSUME NEW i \in 1 .. n
               PROVE  /\ Places(cs)[i] = Took(C)[cs[i]] /\ Places(cs)[i] \in Nat
                      /\ Places(cs)[i] = 2^(MaxLen - cs[i].len + cs[i].bit)
    OBVIOUS
  <2>1. Places(cs)[i] = 2^(MaxLen - cs[i].len) * 2^(cs[i].bit)
    BY <1>1 DEF Places
  <2>2. cs[i] \in C
    BY <1>1
  <2> HIDE DEF C
  <2> QED BY <2>1, <2>2, TookIs DEF C
<1> HIDE DEF C, n
<1>6. ASSUME NEW i \in 1 .. n, cs[i].depth <= MaxLen
      PROVE  2 * Places(cs)[i] = 2^(MaxLen + 1 - cs[i].depth)
  <2>1. PICK l \in 1 .. MaxLen, b \in 0 .. 8 : l = cs[i].len /\ b = cs[i].bit
    BY <1>3
  <2>2. cs[i].depth = l - b /\ Places(cs)[i] = 2^(MaxLen - l + b)
    BY <1>4, <1>5, <1>6, <2>1
  <2>3. MaxLen - l + b \in Nat /\ MaxLen + 1 - (l - b) = (MaxLen - l + b) + 1
    BY <1>2
  <2>4. 2^((MaxLen - l + b) + 1) = 2 * 2^(MaxLen - l + b)
    BY <2>3, PowerDoubles
  <2> QED BY <2>2, <2>3, <2>4
<1>7. ASSUME NEW i \in 1 .. n, NEW j \in 1 .. n, i < j PROVE cs[i].depth <= cs[j].depth
  <2>1. NotAfter(cs[i], cs[j])
    BY <1>1, <1>7
  <2>2. cs[i].depth \in Nat /\ cs[j].depth \in Nat
    BY <1>4
  <2> QED BY <2>1, <2>2 DEF NotAfter
<1>8. ASSUME NEW i \in 1 .. n, NEW j \in 1 .. n, i < j,
             cs[i].depth = cs[j].depth, cs[j].depth <= MaxLen
      PROVE  cs[j].bit # 0
  <2> SUFFICES ASSUME cs[j].bit = 0 PROVE FALSE
    OBVIOUS
  <2>1. NotAfter(cs[i], cs[j])
    BY <1>1, <1>8
  <2>2. PICK l \in Nat, m \in Nat, b \in Nat : l = cs[i].len /\ m = cs[j].len /\ b = cs[i].bit
    BY <1>2, <1>3
  <2>3. cs[i].depth = l - b /\ cs[j].depth = m - 0
    BY <1>4, <1>8, <2>2
  <2>4. l <= m
    <3>1. PICK d \in Nat : d = cs[j].depth /\ d = cs[i].depth
      BY <1>4, <1>8
    <3>2. ~(d < d)
      OBVIOUS
    <3> QED BY <2>1, <2>2, <3>1, <3>2 DEF NotAfter
  <2>5. l = m /\ b = 0
    <3>1. l - b = m - 0
      BY <1>8, <2>3
    <3> QED BY <2>4, <3>1
  <2>6. cs[i] = cs[j]
    BY <1>3, <2>2, <2>5, ZenonT(60)
  <2>7. i = j
    BY <1>1, <2>6
  <2>8. i \in Int /\ j \in Int
    BY <1>1
  <2> QED BY <1>8, <2>7, <2>8
<1>9. \A k \in 0 .. n : Eaten(cs, k) \in Nat
  <2> SUFFICES ASSUME NEW k \in 0 .. n PROVE Eaten(cs, k) \in Nat
    OBVIOUS
  <2>1. k \in Int /\ 1 \in Int
    BY <1>1
  <2>2. IsFiniteSet(1 .. k)
    BY <2>1, FS_Interval
  <2>3. \A i \in 1 .. k : i \in 1 .. n
    BY <1>1
  <2>4. \A i \in 1 .. k : Places(cs)[i] \in Nat
    BY <1>5, <2>3
  <2> QED BY <2>2, <2>4, TotalNat DEF Eaten
<1>10. Eaten(cs, 0) = 0
  <2>1. 1 .. 0 = {} /\ IsFiniteSet({}) /\ \A i \in {} : Places(cs)[i] \in Int
    BY FS_EmptySet
  <2>2. SumOver({}, Places(cs)) = 0
    BY <2>1, TotalRules
  <2> QED BY <2>1, <2>2 DEF Eaten
<1>11. \A k \in 1 .. n : Eaten(cs, k) = Eaten(cs, k - 1) + Places(cs)[k]
  <2> SUFFICES ASSUME NEW k \in 1 .. n PROVE Eaten(cs, k) = Eaten(cs, k - 1) + Places(cs)[k]
    OBVIOUS
  <2>1. PICK S : S = 1 .. k
    OBVIOUS
  <2>2. k \in Int /\ 1 \in Int /\ k \in S /\ S \ {k} = 1 .. (k - 1) /\ S \in SUBSET S
    BY <1>1, <2>1
  <2>3. IsFiniteSet(S)
    BY <2>1, <2>2, FS_Interval
  <2>4. \A i \in S : i \in 1 .. n
    BY <1>1, <2>1
  <2>5. \A i \in S : Places(cs)[i] \in Int
    BY <1>5, <2>4
  <2>6. SumOver(S, Places(cs)) = Places(cs)[k] + SumOver(S \ {k}, Places(cs))
    BY <2>2, <2>3, <2>5, TotalRules
  <2>7. Places(cs)[k] \in Nat /\ Eaten(cs, k - 1) \in Nat
    <3>1. k - 1 \in 0 .. n
      BY <1>1
    <3> QED BY <1>5, <1>9, <3>1
  <2>8. Eaten(cs, k) = SumOver(S, Places(cs)) /\ Eaten(cs, k - 1) = SumOver(S \ {k}, Places(cs))
    BY <2>1, <2>2 DEF Eaten
  <2> QED BY <2>6, <2>7, <2>8
<1>21. ASSUME NEW k \in 1 .. n PROVE Eaten(cs, k - 1) < Eaten(cs, n)
  <2>1. PICK S, T : S = 1 .. n /\ T = 1 .. k
    OBVIOUS
  <2>2. n \in Int /\ 1 \in Int /\ T \in SUBSET S /\ k \in 0 .. n /\ k - 1 \in 0 .. n
    BY <1>1, <2>1
  <2>3. IsFiniteSet(S)
    BY <2>1, <2>2, FS_Interval
  <2>4. \A j \in S : Places(cs)[j] \in Nat
    BY <1>5, <2>1
  <2>5. SumOver(T, Places(cs)) <= SumOver(S, Places(cs))
    BY <2>2, <2>3, <2>4, TotalWithin
  <2>6. Places(cs)[k] >= 1
    <3>1. MaxLen - cs[k].len + cs[k].bit \in Nat
      BY <1>2, <1>3
    <3> QED BY <1>5, <3>1, PowerIsPositive
  <2>7. Eaten(cs, k) <= Eaten(cs, n)
    BY <2>1, <2>5 DEF Eaten
  <2> QED BY <1>5, <1>9, <1>11, <2>2, <2>6, <2>7
<1>22. \A i \in 1 .. n : cs[i].syms \in Seq(Symbols)
  <2> SUFFICES ASSUME NEW i \in 1 .. n PROVE cs[i].syms \in Seq(Symbols)
    OBVIOUS
  <2>1. cs[i] \in ChunkSet(ls)
    BY <1>1 DEF C
  <2> QED BY <2>1, ChunkSyms
<1>12. Chunked(cs)
  <2>1. \A i \in 1 .. n : /\ cs[i].depth \in Nat /\ cs[i].bit \in Nat /\ Places(cs)[i] \in Nat
                          /\ cs[i].depth <= MaxLen => 2 * Places(cs)[i] = 2^(MaxLen + 1 - cs[i].depth)
    BY <1>3, <1>4, <1>5, <1>6
  <2> QED BY <1>1, <1>7, <1>8, <1>9, <1>10, <1>11, <1>21, <1>22, <2>1 DEF Chunked
<1>13. Eaten(cs, n) = SumOver(C, Took(C))
  <2>1. IsFiniteSet(1 .. n)
    <3>1. n \in Int /\ 1 \in Int
      BY <1>1
    <3> QED BY <3>1, FS_Interval
  <2>2. \A c \in C : Took(C)[c] \in Int
    <3> SUFFICES ASSUME NEW c \in C PROVE Took(C)[c] \in Int
      OBVIOUS
    <3>1. Took(C)[c] \in Nat
      BY TookIs DEF C
    <3> QED BY <3>1
  <2> QED BY <1>1, <1>5, <2>1, <2>2, TotalRenamed DEF Eaten
<1>14. Eaten(cs, Len(cs)) = CodeSum(ls, Used(ls))
  BY <1>1, <1>13, ChunksTakeTheCode DEF C
<1>15. ASSUME Complete(ls), NEW i \in 1 .. n PROVE cs[i].depth <= MaxLen
  <2>1. CodeSum(ls, Used(ls)) = 2^MaxLen
    BY <1>15, Zenon DEF Complete, CodeSum
  <2>2. Eaten(cs, n) = 2^MaxLen
    BY <1>1, <1>14, <2>1
  <2>3. Places(cs)[i] <= Eaten(cs, n)
    <3>1. IsFiniteSet(1 .. n)
      <4>1. n \in Int /\ 1 \in Int
        BY <1>1
      <4> QED BY <4>1, FS_Interval
    <3>2. PICK S : S = 1 .. n
      OBVIOUS
    <3>3. \A j \in S : Places(cs)[j] \in Nat /\ Places(cs)[j] \in Int
      <4>1. \A j \in S : Places(cs)[j] \in Nat
        BY <1>5, <3>2
      <4> QED BY <4>1
    <3>4. SumOver(S, Places(cs)) = Places(cs)[i] + SumOver(S \ {i}, Places(cs))
      <4>1. S \in SUBSET S /\ i \in S /\ IsFiniteSet(S)
        BY <3>1, <3>2
      <4>2. PICK g : g = Places(cs)
        OBVIOUS
      <4>3. \A j \in S : g[j] \in Int
        BY <3>3, <4>2
      <4>4. \A T \in SUBSET S : \A x \in T : SumOver(T, g) = g[x] + SumOver(T \ {x}, g)
        BY <4>1, <4>3, TotalRules
      <4> QED BY <4>1, <4>2, <4>4
    <3>5. SumOver(S \ {i}, Places(cs)) \in Nat
      <4>1. IsFiniteSet(S \ {i})
        BY <3>1, <3>2, FS_RemoveElement
      <4> QED BY <3>3, <4>1, TotalNat
    <3>6. Places(cs)[i] \in Nat /\ Eaten(cs, n) = SumOver(S, Places(cs))
      BY <1>5, <3>2 DEF Eaten
    <3> QED BY <3>4, <3>5, <3>6
  <2>4. PICK l \in 1 .. MaxLen, b \in 0 .. 8 : l = cs[i].len /\ b = cs[i].bit
    BY <1>3
  <2>5. b <= l
    <3> SUFFICES ASSUME b > l PROVE FALSE
      OBVIOUS
    <3>1. MaxLen - l + b \in Nat /\ MaxLen + 1 \in Nat /\ MaxLen + 1 <= MaxLen - l + b
      BY <1>2
    <3>2. 2^(MaxLen + 1) <= 2^(MaxLen - l + b)
      BY <3>1, PowerGrows
    <3>3. 2^(MaxLen + 1) = 2 * 2^MaxLen /\ 2^MaxLen \in Nat /\ 2^MaxLen >= 1
      BY <1>2, PowerDoubles, PowerIsPositive
    <3>4. Places(cs)[i] = 2^(MaxLen - l + b) /\ 2^(MaxLen - l + b) \in Nat
      BY <1>5, <2>4, <3>1, PowerIsPositive
    <3> QED BY <2>2, <2>3, <3>2, <3>3, <3>4
  <2>6. cs[i].depth = l - b
    BY <1>4, <2>4, <2>5
  <2> QED BY <1>2, <2>6
<1> QED BY <1>1, <1>12, <1>14, <1>15

-----------------------------------------------------------------------------
\* The activations of dc_gen that are open, and what of the code space they still have
\* to hand out, in halves of a code of MaxLen bits.
Frames == [pc : {"call", "left", "right"}, depth : 0 .. MaxLen + 1, self : Int, leftRank : Int,
           rightSched : Int, rightRank : Int]
Deep(f) == f \in Frames /\ (f.pc # "call" => f.depth <= MaxLen)
Descent(st) ==
  /\ st \in Seq(Frames)
  /\ \A i \in 1 .. Len(st) : st[i].depth = i - 1 /\ Deep(st[i])
  /\ \A i \in 1 .. Len(st) - 1 : st[i].pc # "call"

Owed(f) ==
  IF f.pc = "call" THEN 2^(MaxLen + 1 - f.depth)
  ELSE IF f.pc = "left" THEN 2^(MaxLen - f.depth) ELSE 0
Owes(st) == [i \in 1 .. Len(st) |-> Owed(st[i])]
Pending(st) == SumOver(1 .. Len(st), Owes(st))

LEMMA OwedIs ==
  ASSUME NEW f \in Frames, Deep(f)
  PROVE  /\ Owed(f) \in Nat /\ f.depth \in Nat /\ f.depth <= MaxLen + 1
         /\ f.pc = "call" => Owed(f) = 2^(MaxLen + 1 - f.depth) /\ Owed(f) >= 1
         /\ f.pc = "left" => Owed(f) = 2^(MaxLen - f.depth)
         /\ f.pc = "right" => Owed(f) = 0
<1>0. MaxLen \in Nat /\ f.depth \in 0 .. MaxLen + 1 /\ f.pc \in {"call", "left", "right"}
  BY AlphabetAssumption DEF Frames
<1>1. CASE f.pc = "call"
  <2>1. MaxLen + 1 - f.depth \in Nat
    BY <1>0
  <2>2. Owed(f) = 2^(MaxLen + 1 - f.depth)
    BY <1>1 DEF Owed
  <2> QED BY <1>0, <1>1, <2>1, <2>2, PowerIsPositive
<1>2. CASE f.pc = "left"
  <2>1. MaxLen - f.depth \in Nat
    BY <1>0, <1>2 DEF Deep
  <2>2. Owed(f) = 2^(MaxLen - f.depth)
    BY <1>2 DEF Owed
  <2> QED BY <1>0, <1>2, <2>1, <2>2, PowerIsPositive
<1>3. CASE f.pc = "right"
  BY <1>0, <1>3 DEF Owed
<1> QED BY <1>0, <1>1, <1>2, <1>3

\* The last activation's part and that of those below it.
Under(p, st) == Len(st) = Len(p) + 1 /\ \A i \in 1 .. Len(p) : p[i] = st[i]
Sound(st) == st \in Seq(Frames) /\ \A i \in 1 .. Len(st) : Deep(st[i])

LEMMA PendingLast ==
  ASSUME NEW p, NEW st, Sound(p), Sound(st), Under(p, st)
  PROVE  /\ Pending(p) \in Nat /\ Pending(st) \in Nat
         /\ Pending(st) = Pending(p) + Owed(st[Len(st)])
<1>0. Len(p) \in Nat /\ Len(st) = Len(p) + 1 /\ \A i \in 1 .. Len(st) : st[i] \in Frames /\ Deep(st[i])
  BY DEF Sound, Under
<1>1. \A i \in 1 .. Len(p) : p[i] = st[i] /\ i \in 1 .. Len(st)
  BY <1>0 DEF Under
<1>2. \A i \in 1 .. Len(st) : Owes(st)[i] = Owed(st[i]) /\ Owes(st)[i] \in Nat
  BY <1>0, OwedIs DEF Owes
<1>3. \A i \in 1 .. Len(p) : Owes(p)[i] = Owes(st)[i] /\ Owes(p)[i] \in Nat
  <2>1. \A i \in 1 .. Len(p) : Owes(p)[i] = Owed(p[i])
    BY DEF Owes
  <2> QED BY <1>1, <1>2, <2>1
<1>4. PICK S, n : S = 1 .. Len(st) /\ n = Len(st)
  OBVIOUS
<1>5. n \in S /\ S \ {n} = 1 .. Len(p) /\ S \in SUBSET S /\ n \in Int /\ Len(p) \in Int /\ 1 \in Int
  BY <1>0, <1>4
<1>6. IsFiniteSet(S) /\ IsFiniteSet(1 .. Len(p))
  BY <1>4, <1>5, FS_Interval
<1>7. PICK g : g = Owes(st)
  OBVIOUS
<1>8. \A i \in S : g[i] \in Int /\ g[i] \in Nat
  BY <1>2, <1>4, <1>7
<1>9. \A T \in SUBSET S : \A x \in T : SumOver(T, g) = g[x] + SumOver(T \ {x}, g)
  BY <1>6, <1>8, TotalRules
<1>10. SumOver(S, g) = g[n] + SumOver(S \ {n}, g)
  BY <1>5, <1>9
<1>11. SumOver(1 .. Len(p), Owes(p)) = SumOver(1 .. Len(p), g)
  BY <1>3, <1>6, <1>7, TotalSame
<1>12. SumOver(1 .. Len(p), Owes(p)) \in Nat /\ SumOver(S, g) \in Nat
  BY <1>3, <1>6, <1>8, TotalNat
<1>13. g[n] = Owed(st[Len(st)]) /\ g[n] \in Nat
  BY <1>2, <1>4, <1>5, <1>7, <1>8
<1>14. Pending(p) = SumOver(S \ {n}, g) /\ Pending(st) = SumOver(S, g)
  BY <1>4, <1>5, <1>7, <1>11 DEF Pending
<1>15. Pending(p) \in Nat /\ Pending(st) \in Nat
  BY <1>4, <1>7, <1>12 DEF Pending
<1> QED BY <1>10, <1>13, <1>14, <1>15

LEMMA PendingNone == Pending(<<>>) = 0
<1>1. 1 .. Len(<<>>) = {} /\ IsFiniteSet({}) /\ \A i \in {} : Owes(<<>>)[i] \in Int
  BY FS_EmptySet
<1>2. SumOver({}, Owes(<<>>)) = 0
  BY <1>1, TotalRules
<1> QED BY <1>1, <1>2 DEF Pending

\* A return leaves the activations below.
LEMMA Returned ==
  ASSUME NEW st, Descent(st), st # <<>>, NEW p, p = SubSeq(st, 1, Len(st) - 1)
  PROVE  /\ Descent(p) /\ Under(p, st) /\ Len(st) \in Nat /\ Len(st) >= 1
         /\ Pending(p) \in Nat /\ Pending(st) = Pending(p) + Owed(st[Len(st)])
         /\ \A i \in 1 .. Len(p) : p[i] = st[i] /\ p[i].pc # "call"
         /\ Deep(st[Len(st)]) /\ st[Len(st)] \in Frames /\ st[Len(st)].depth = Len(st) - 1
<1>1. st \in Seq(Frames) /\ Len(st) \in Nat /\ Len(st) >= 1
  BY DEF Descent
<1>2. p \in Seq(Frames) /\ Len(p) = Len(st) - 1 /\ \A i \in 1 .. Len(p) : p[i] = st[i]
  <2>1. PICK n \in Nat : n = Len(st) - 1
    BY <1>1
  <2>2. n <= Len(st) /\ 1 \in Nat /\ p = SubSeq(st, 1, n)
    BY <1>1, <2>1
  <2>3. p \in Seq(Frames)
    BY <1>1, <2>1, <2>2
  <2>4. Len(p) = n
    BY <1>1, <2>1, <2>2
  <2>5. \A i \in 1 .. n : p[i] = st[i]
    BY <1>1, <2>1, <2>2
  <2> QED BY <2>1, <2>3, <2>4, <2>5
<1>3. Under(p, st)
  BY <1>1, <1>2 DEF Under
<1>4. \A i \in 1 .. Len(p) : i \in 1 .. Len(st) /\ i \in 1 .. Len(st) - 1
  BY <1>1, <1>2
<1>5. Descent(p)
  <2>1. \A i \in 1 .. Len(p) - 1 : i \in 1 .. Len(p)
    BY <1>1, <1>2
  <2> QED BY <1>2, <1>4, <2>1 DEF Descent
<1>6. Sound(p) /\ Sound(st)
  BY <1>5 DEF Descent, Sound
<1>7. Len(st) \in 1 .. Len(st)
  BY <1>1
<1>8. Deep(st[Len(st)]) /\ st[Len(st)] \in Frames /\ st[Len(st)].depth = Len(st) - 1
  BY <1>7 DEF Descent, Deep
<1>9. Pending(p) \in Nat /\ Pending(st) = Pending(p) + Owed(st[Len(st)])
  BY <1>3, <1>6, PendingLast
<1> QED BY <1>1, <1>2, <1>3, <1>4, <1>5, <1>8, <1>9 DEF Descent

\* A call below an activation that goes on.
Calls(p, a, b, q) ==
  /\ Descent(q) /\ Len(q) = Len(p) + 2 /\ q[Len(p) + 1] = a /\ q[Len(p) + 2] = b
  /\ \A i \in 1 .. Len(p) : q[i] = p[i]
  /\ Pending(q) = Pending(p) + Owed(a) + 2^(MaxLen - a.depth)
  /\ b.pc = "call" /\ b.depth = a.depth + 1
OnGoing(p) == Descent(p) /\ \A i \in 1 .. Len(p) : p[i].pc # "call"

LEMMA CallsChild ==
  ASSUME NEW p, OnGoing(p), NEW a \in Frames, Deep(a), a.pc # "call", a.depth = Len(p),
         NEW b, b = Call(a.depth + 1), NEW r, r = p \o <<a, b>>
  PROVE  Calls(p, a, b, r)
<1>0. MaxLen \in Nat /\ a.depth \in Nat /\ a.depth <= MaxLen
  BY AlphabetAssumption DEF Deep, Frames
<1>1. b \in Frames /\ b.pc = "call" /\ b.depth = a.depth + 1 /\ Deep(b)
  BY <1>0 DEF Call, Frames, Deep
<1>2. PICK q : q = p \o <<a>>
  OBVIOUS
<1>3. p \in Seq(Frames) /\ Len(p) \in Nat
  BY DEF Descent, OnGoing
<1>4. q \in Seq(Frames) /\ Len(q) = Len(p) + 1 /\ q[Len(p) + 1] = a /\ \A i \in 1 .. Len(p) : q[i] = p[i]
  BY <1>2, <1>3
<1>5. /\ r \in Seq(Frames) /\ Len(r) = Len(p) + 2 /\ r[Len(p) + 1] = a /\ r[Len(p) + 2] = b
      /\ \A i \in 1 .. Len(p) : r[i] = p[i]
  BY <1>1, <1>2, <1>3
<1>6. /\ \A i \in 1 .. Len(q) : i \in 1 .. Len(p) \/ i = Len(p) + 1
      /\ \A i \in 1 .. Len(r) : i \in 1 .. Len(p) \/ i = Len(p) + 1 \/ i = Len(p) + 2
      /\ \A i \in 1 .. Len(r) - 1 : i \in 1 .. Len(p) \/ i = Len(p) + 1
  BY <1>3, <1>4, <1>5, SMTT(40)
<1>7. Sound(p) /\ Sound(q) /\ Sound(r)
  BY <1>1, <1>4, <1>5, <1>6 DEF Descent, Sound, OnGoing
<1>8. Under(p, q) /\ Under(q, r)
  BY <1>3, <1>4, <1>5, <1>6 DEF Under
<1>9. Descent(r)
  <2>1. \A i \in 1 .. Len(r) : r[i].depth = i - 1 /\ Deep(r[i])
    <3> SUFFICES ASSUME NEW i \in 1 .. Len(r) PROVE r[i].depth = i - 1 /\ Deep(r[i])
      OBVIOUS
    <3>1. CASE i \in 1 .. Len(p)
      BY <1>5, <3>1 DEF Descent, OnGoing
    <3>2. CASE i = Len(p) + 1
      BY <1>3, <1>5, <3>2
    <3>3. CASE i = Len(p) + 2
      BY <1>1, <1>3, <1>5, <3>3
    <3> QED BY <1>6, <3>1, <3>2, <3>3
  <2>2. \A i \in 1 .. Len(r) - 1 : r[i].pc # "call"
    BY <1>5, <1>6 DEF OnGoing
  <2> QED BY <1>5, <2>1, <2>2 DEF Descent
<1>10. /\ Pending(q) = Pending(p) + Owed(a) /\ Pending(r) = Pending(q) + Owed(b)
       /\ Pending(p) \in Nat /\ Pending(q) \in Nat
  <2>1. Pending(p) \in Nat /\ Pending(q) \in Nat /\ Pending(q) = Pending(p) + Owed(q[Len(q)])
    BY <1>7, <1>8, PendingLast
  <2>2. Pending(r) = Pending(q) + Owed(r[Len(r)])
    BY <1>7, <1>8, PendingLast
  <2>3. q[Len(q)] = a /\ r[Len(r)] = b
    BY <1>4, <1>5
  <2> QED BY <2>1, <2>2, <2>3
<1>11. Owed(b) = 2^(MaxLen - a.depth)
  <2>1. Owed(b) = 2^(MaxLen + 1 - b.depth)
    BY <1>1, OwedIs
  <2>2. MaxLen + 1 - b.depth = MaxLen - a.depth
    BY <1>0, <1>1
  <2> QED BY <2>1, <2>2
<1>12. Pending(r) = Pending(p) + Owed(a) + 2^(MaxLen - a.depth)
  BY <1>10, <1>11
<1> QED BY <1>1, <1>5, <1>9, <1>12 DEF Calls

-----------------------------------------------------------------------------
\* The inductive invariant of the reconstruction.  The chunks taken and the calls still open
\* share out the whole code space; the next chunk is never above the call that looks at it;
\* and a right child starts behind a chunk at least as deep, so that no lone leaf is left for
\* it.
Row(cs, ls, k) ==
  /\ ls \in Fitted /\ cs = SortByDepth(ChunkSet(ls))
  /\ k \in 1 .. Len(cs) + 1 /\ \A i \in 1 .. k - 1 : cs[i].depth <= MaxLen
Balance(cs, k, st) == 2 * Eaten(cs, k - 1) + Pending(st) = 2^(MaxLen + 1)
NoneSkipped(cs, k, st) ==
  st # <<>> =>
    LET f == st[Len(st)]
    IN  /\ f.pc = "call" /\ k <= Len(cs) => cs[k].depth >= f.depth
        /\ f.pc # "call" => k > 1 /\ cs[k - 1].depth > f.depth
        /\ f.pc = "call" /\ Len(st) > 1 /\ st[Len(st) - 1].pc = "right" =>
             k > 1 /\ cs[k - 1].depth >= f.depth
Recs == [kind : {"FULL", "LEAF_LEFT", "BOTH_LEAVES", "FLAT"}, param : Int, right : Int, flat : Int]
Written(d, st) ==
  /\ d \in [sched : Seq(Recs), syms : Seq(Symbols)]
  /\ \A i \in 1 .. Len(st) :
       st[i].pc = "right" =>
         /\ st[i].rightSched <= Len(d.sched) + 1
         /\ i = Len(st) \/ st[i + 1].pc # "call" => st[i].rightSched <= Len(d.sched)

Building(cs, ls, k, st, d) ==
  Row(cs, ls, k) /\ Descent(st) /\ Balance(cs, k, st) /\ NoneSkipped(cs, k, st) /\ Written(d, st)

LEMMA RowFacts ==
  ASSUME NEW cs, NEW ls, NEW k, Row(cs, ls, k)
  PROVE  /\ Chunked(cs) /\ Eaten(cs, Len(cs)) = CodeSum(ls, Used(ls))
         /\ Complete(ls) => \A i \in 1 .. Len(cs) : cs[i].depth <= MaxLen
         /\ Len(cs) \in Nat /\ k \in Nat /\ k >= 1 /\ k <= Len(cs) + 1 /\ k - 1 \in 0 .. Len(cs)
         /\ Eaten(cs, k - 1) \in Nat /\ MaxLen \in Nat
<1>1. /\ Chunked(cs) /\ Eaten(cs, Len(cs)) = CodeSum(ls, Used(ls))
      /\ Complete(ls) => \A i \in 1 .. Len(cs) : cs[i].depth <= MaxLen
  BY RowIsChunked DEF Row
<1>2. Len(cs) \in Nat /\ \A j \in 0 .. Len(cs) : Eaten(cs, j) \in Nat
  BY <1>1 DEF Chunked
<1>3. k \in Nat /\ k >= 1 /\ k <= Len(cs) + 1 /\ k - 1 \in 0 .. Len(cs)
  BY <1>2 DEF Row
<1> QED BY <1>1, <1>2, <1>3, AlphabetAssumption

\* The build starts with the whole of the code space to hand out.
LEMMA BuildStarts ==
  ASSUME NEW ls \in Fitted, NEW cs, cs = SortByDepth(ChunkSet(ls))
  PROVE  Building(cs, ls, 1, <<Call(0)>>, Nothing)
<1> DEFINE f == Call(0)
           st == <<f>>
<1>1. Chunked(cs) /\ MaxLen \in Nat
  BY RowIsChunked, AlphabetAssumption
<1>2. f \in Frames /\ Deep(f) /\ f.pc = "call" /\ f.depth = 0
  BY <1>1 DEF Call, Frames, Deep
<1> HIDE DEF f
<1>3. /\ st \in Seq(Frames) /\ Len(st) = 1 /\ st[1] = f
      /\ \A i \in 1 .. Len(st) : i = 1
  BY <1>2
<1>4. <<>> \in Seq(Frames) /\ Len(<<>>) = 0 /\ \A i \in 1 .. Len(<<>>) : FALSE
  OBVIOUS
<1> HIDE DEF st
<1>5. Row(cs, ls, 1)
  BY <1>1 DEF Row, Chunked
<1>6. Descent(st)
  BY <1>2, <1>3 DEF Descent
<1>7. Balance(cs, 1, st)
  <2>1. Sound(<<>>) /\ Sound(st) /\ Under(<<>>, st)
    BY <1>2, <1>3, <1>4 DEF Sound, Under
  <2>2. Pending(st) = Pending(<<>>) + Owed(st[Len(st)]) /\ Pending(<<>>) = 0
    BY <2>1, PendingLast, PendingNone
  <2>3. Owed(f) = 2^(MaxLen + 1 - 0) /\ Owed(f) \in Nat
    BY <1>2, OwedIs
  <2>4. MaxLen + 1 - 0 = MaxLen + 1 /\ Eaten(cs, 1 - 1) = 0
    BY <1>1 DEF Chunked
  <2>5. Pending(st) = 2^(MaxLen + 1) /\ 2^(MaxLen + 1) \in Nat
    BY <1>3, <2>2, <2>3, <2>4
  <2> QED BY <2>4, <2>5 DEF Balance
<1>8. NoneSkipped(cs, 1, st)
  <2>1. 1 <= Len(cs) => cs[1].depth \in Nat
    BY <1>1 DEF Chunked
  <2>2. 1 <= Len(cs) => cs[1].depth >= 0
    BY <2>1
  <2> QED BY <1>2, <1>3, <2>2 DEF NoneSkipped
<1>9. Written(Nothing, st)
  <2>1. Nothing \in [sched : Seq(Recs), syms : Seq(Symbols)]
    BY DEF Nothing
  <2>2. \A i \in 1 .. Len(st) : st[i].pc # "right"
    BY <1>2, <1>3
  <2> QED BY <2>1, <2>2 DEF Written
<1> QED BY <1>5, <1>6, <1>7, <1>8, <1>9 DEF Building, st, f

\* What holds of the activation on top.
TopIs(f, cs, k, st) ==
  /\ f = st[Len(st)] /\ f \in Frames /\ Deep(f) /\ f.depth = Len(st) - 1
  /\ Owed(f) \in Nat /\ f.depth \in Nat /\ f.depth <= MaxLen + 1
  /\ f.pc = "call" => Owed(f) = 2^(MaxLen + 1 - f.depth) /\ Owed(f) >= 1
  /\ f.pc = "left" => Owed(f) = 2^(MaxLen - f.depth)
  /\ f.pc = "right" => Owed(f) = 0
  /\ f.pc = "call" /\ k <= Len(cs) => cs[k].depth >= f.depth
  /\ f.pc # "call" => k > 1 /\ cs[k - 1].depth > f.depth
  /\ f.pc = "call" /\ Len(st) > 1 /\ st[Len(st) - 1].pc = "right" =>
       k > 1 /\ cs[k - 1].depth >= f.depth
Below(p, st) ==
  /\ Descent(p) /\ Len(p) \in Nat /\ Len(st) = Len(p) + 1
  /\ Pending(p) \in Nat /\ Pending(st) = Pending(p) + Owed(st[Len(st)])
  /\ \A i \in 1 .. Len(p) : p[i] = st[i] /\ p[i].pc # "call" /\ p[i].depth = i - 1

LEMMA TopFacts ==
  ASSUME NEW cs, NEW ls, NEW k, NEW st, NEW d, Building(cs, ls, k, st, d), st # <<>>,
         NEW p, p = SubSeq(st, 1, Len(st) - 1), NEW f, f = st[Len(st)]
  PROVE  TopIs(f, cs, k, st) /\ Below(p, st)
<1>1. Descent(st) /\ NoneSkipped(cs, k, st)
  BY DEF Building
<1>2. /\ Descent(p) /\ Under(p, st) /\ Len(st) \in Nat /\ Len(st) >= 1
      /\ Pending(p) \in Nat /\ Pending(st) = Pending(p) + Owed(st[Len(st)])
      /\ \A i \in 1 .. Len(p) : p[i] = st[i] /\ p[i].pc # "call"
      /\ Deep(f) /\ f \in Frames /\ f.depth = Len(st) - 1
  BY <1>1, Returned, ZenonT(60)
<1>3. Below(p, st)
  <2>1. Len(p) \in Nat /\ \A i \in 1 .. Len(p) : p[i].depth = i - 1
    BY <1>2 DEF Descent
  <2> QED BY <1>2, <2>1 DEF Below, Under
<1>4. TopIs(f, cs, k, st)
  <2>1. /\ Owed(f) \in Nat /\ f.depth \in Nat /\ f.depth <= MaxLen + 1
        /\ f.pc = "call" => Owed(f) = 2^(MaxLen + 1 - f.depth) /\ Owed(f) >= 1
        /\ f.pc = "left" => Owed(f) = 2^(MaxLen - f.depth)
        /\ f.pc = "right" => Owed(f) = 0
    BY <1>2, OwedIs
  <2>2. /\ f.pc = "call" /\ k <= Len(cs) => cs[k].depth >= f.depth
        /\ f.pc # "call" => k > 1 /\ cs[k - 1].depth > f.depth
        /\ f.pc = "call" /\ Len(st) > 1 /\ st[Len(st) - 1].pc = "right" =>
             k > 1 /\ cs[k - 1].depth >= f.depth
    BY <1>1 DEF NoneSkipped
  <2> QED BY <1>2, <2>1, <2>2 DEF TopIs
<1> QED BY <1>3, <1>4

\* A call that gives up does so over lengths that are no complete code.
LEMMA RejectsRightly ==
  ASSUME NEW cs, NEW ls, NEW k, NEW st, NEW d, Building(cs, ls, k, st, d), st # <<>>,
         NEW f, f = st[Len(st)], f.pc = "call",
         ~(k <= Len(cs) /\ f.depth <= MaxLen /\ cs[k].depth >= f.depth)
  PROVE  ~Complete(ls)
<1> SUFFICES ASSUME Complete(ls) PROVE FALSE
  OBVIOUS
<1>1. PICK p : p = SubSeq(st, 1, Len(st) - 1)
  OBVIOUS
<1>2. TopIs(f, cs, k, st) /\ Below(p, st)
  BY <1>1, TopFacts
<1>3. /\ Chunked(cs) /\ Eaten(cs, Len(cs)) = CodeSum(ls, Used(ls))
      /\ \A i \in 1 .. Len(cs) : cs[i].depth <= MaxLen
      /\ Len(cs) \in Nat /\ k \in Nat /\ k >= 1 /\ k <= Len(cs) + 1
      /\ Eaten(cs, k - 1) \in Nat /\ MaxLen \in Nat
  BY RowFacts DEF Building
<1>4. CASE k <= Len(cs)
  <2>1. k \in 1 .. Len(cs)
    BY <1>3, <1>4
  <2>2. cs[k].depth \in Nat /\ cs[k].depth <= MaxLen /\ cs[k].depth >= f.depth
    BY <1>2, <1>3, <1>4, <2>1 DEF TopIs, Chunked
  <2>3. f.depth \in Nat /\ f.depth <= MaxLen
    BY <1>2, <1>3, <2>2 DEF TopIs
  <2> QED BY <1>4, <2>2, <2>3
<1>5. CASE k = Len(cs) + 1
  <2>1. CodeSum(ls, Used(ls)) = 2^MaxLen
    BY Zenon DEF Complete, CodeSum
  <2>2. k - 1 = Len(cs)
    BY <1>3, <1>5
  <2>3. Eaten(cs, k - 1) = 2^MaxLen
    BY <1>3, <2>1, <2>2
  <2>4. 2^(MaxLen + 1) = 2 * 2^MaxLen /\ 2^MaxLen \in Nat
    BY <1>3, PowerDoubles, PowerIsPositive
  <2>5. 2 * Eaten(cs, k - 1) + Pending(st) = 2^(MaxLen + 1)
    BY DEF Building, Balance
  <2>6. Pending(st) >= 1 /\ Pending(st) \in Nat
    BY <1>2 DEF TopIs, Below
  <2> QED BY <2>3, <2>4, <2>5, <2>6
<1> QED BY <1>3, <1>4, <1>5

\* The end of the recursion tells the complete codes by whether chunks are left.
LEMMA FinishesRightly ==
  ASSUME NEW cs, NEW ls, NEW k, NEW d, Building(cs, ls, k, <<>>, d)
  PROVE  k = Len(cs) + 1 <=> Complete(ls)
<1>1. /\ Chunked(cs) /\ Eaten(cs, Len(cs)) = CodeSum(ls, Used(ls))
      /\ Len(cs) \in Nat /\ k \in Nat /\ k >= 1 /\ k <= Len(cs) + 1
      /\ Eaten(cs, k - 1) \in Nat /\ MaxLen \in Nat
  BY RowFacts DEF Building
<1>2. 2 * Eaten(cs, k - 1) + Pending(<<>>) = 2^(MaxLen + 1) /\ Pending(<<>>) = 0
  BY PendingNone DEF Building, Balance
<1>3. 2^(MaxLen + 1) = 2 * 2^MaxLen /\ 2^MaxLen \in Nat
  BY <1>1, PowerDoubles, PowerIsPositive
<1>4. Eaten(cs, k - 1) = 2^MaxLen
  BY <1>1, <1>2, <1>3
<1>5. Complete(ls) <=> CodeSum(ls, Used(ls)) = 2^MaxLen
  <2>1. \A s \in Symbols : ls[s] <= MaxLen
    BY <1>1 DEF Building, Row, Fitted
  <2> QED BY <2>1, Zenon DEF Complete, CodeSum
<1>6. ASSUME k = Len(cs) + 1 PROVE Complete(ls)
  <2>1. k - 1 = Len(cs)
    BY <1>1, <1>6
  <2> QED BY <1>1, <1>4, <1>5, <2>1
<1>7. ASSUME k # Len(cs) + 1 PROVE ~Complete(ls)
  <2>1. k \in 1 .. Len(cs)
    BY <1>1, <1>7
  <2>2. Eaten(cs, k - 1) < Eaten(cs, Len(cs))
    BY <1>1, <2>1 DEF Chunked
  <2>3. CodeSum(ls, Used(ls)) # 2^MaxLen
    BY <1>1, <1>3, <1>4, <2>2
  <2> QED BY <1>5, <2>3
<1> QED BY <1>6, <1>7

-----------------------------------------------------------------------------
\* A return hands the invariant to the caller, once the caller's own claims hold.
LEMMA PopBuilds ==
  ASSUME NEW cs, NEW ls, NEW k, NEW m, NEW st, NEW d, NEW e, NEW p, NEW f,
         Building(cs, ls, k, st, d), Below(p, st), TopIs(f, cs, k, st),
         Row(cs, ls, m), Balance(cs, m, p), m > 1, cs[m - 1].depth \in Nat, cs[m - 1].depth >= f.depth,
         e \in [sched : Seq(Recs), syms : Seq(Symbols)], Len(d.sched) <= Len(e.sched),
         Len(st) > 1 /\ st[Len(st) - 1].pc = "right" => st[Len(st) - 1].rightSched <= Len(e.sched)
  PROVE  Building(cs, ls, m, p, e)
<1>1. /\ Descent(p) /\ Len(p) \in Nat /\ Len(st) = Len(p) + 1
      /\ \A i \in 1 .. Len(p) : p[i] = st[i] /\ p[i].pc # "call" /\ p[i].depth = i - 1
  BY DEF Below
<1>2. f.depth = Len(p)
  BY <1>1 DEF TopIs
<1>3. NoneSkipped(cs, m, p)
  <2> SUFFICES ASSUME p # <<>>
               PROVE  p[Len(p)].pc # "call" /\ cs[m - 1].depth > p[Len(p)].depth
    BY DEF NoneSkipped
  <2>1. Len(p) \in 1 .. Len(p)
    <3>1. Len(p) # 0
      BY <1>1 DEF Descent
    <3> QED BY <1>1, <3>1
  <2>2. p[Len(p)].pc # "call" /\ p[Len(p)].depth = Len(p) - 1
    BY <1>1, <2>1
  <2> QED BY <1>1, <1>2, <2>2
<1>4. Written(e, p)
  <2>1. Len(d.sched) \in Nat /\ Len(e.sched) \in Nat
    BY DEF Building, Written
  <2>2. ASSUME NEW i \in 1 .. Len(p), p[i].pc = "right"
        PROVE  p[i].rightSched <= Len(e.sched) /\ p[i].rightSched \in Int
    <3>1. /\ i \in 1 .. Len(st) /\ i \in Int /\ i # Len(st) /\ p[i] = st[i]
          /\ i < Len(p) => i + 1 \in 1 .. Len(p)
      BY <1>1
    <3>2. p[i].rightSched \in Int
      BY <1>1 DEF Descent, Deep, Frames
    <3>3. CASE i < Len(p)
      <4>1. st[i + 1].pc # "call"
        BY <1>1, <3>1, <3>3
      <4>2. st[i].rightSched <= Len(d.sched)
        BY <2>2, <3>1, <4>1 DEF Building, Written
      <4> QED BY <2>1, <3>1, <3>2, <4>2
    <3>4. CASE i = Len(p)
      <4>1. i = Len(st) - 1 /\ Len(st) > 1
        BY <1>1, <3>1, <3>4
      <4> QED BY <2>2, <3>1, <3>2, <4>1
    <3> QED BY <1>1, <3>1, <3>3, <3>4
  <2>3. \A i \in 1 .. Len(p) : p[i].pc = "right" => p[i].rightSched <= Len(e.sched) + 1
    BY <2>1, <2>2
  <2> QED BY <2>2, <2>3 DEF Written
<1> QED BY <1>1, <1>3, <1>4 DEF Building

TakenWith(d, c) ==
  [sched |-> d.sched \o IF c.bit = 0 THEN <<>> ELSE <<ChunkRec(c.bit, Len(d.syms))>>,
   syms  |-> d.syms \o c.syms]

LEMMA TakeBuilds ==
  ASSUME NEW cs, NEW ls, NEW k, NEW st, NEW d, Building(cs, ls, k, st, d), st # <<>>,
         NEW p, p = SubSeq(st, 1, Len(st) - 1), NEW f, f = st[Len(st)], f.pc = "call",
         k <= Len(cs), f.depth <= MaxLen, cs[k].depth = f.depth
  PROVE  Building(cs, ls, k + 1, p, TakenWith(d, cs[k]))
<1>1. TopIs(f, cs, k, st) /\ Below(p, st)
  BY TopFacts
<1>2. /\ Chunked(cs) /\ Len(cs) \in Nat /\ k \in Nat /\ k >= 1 /\ k - 1 \in 0 .. Len(cs)
      /\ Eaten(cs, k - 1) \in Nat /\ MaxLen \in Nat
  BY RowFacts DEF Building
<1>3. k \in 1 .. Len(cs) /\ (k + 1) - 1 = k /\ k + 1 \in 1 .. Len(cs) + 1 /\ k + 1 > 1
  BY <1>2
<1>4. /\ cs[k].depth \in Nat /\ cs[k].bit \in Nat /\ Places(cs)[k] \in Nat /\ cs[k].syms \in Seq(Symbols)
      /\ 2 * Places(cs)[k] = 2^(MaxLen + 1 - cs[k].depth)
      /\ Eaten(cs, k) = Eaten(cs, k - 1) + Places(cs)[k]
  BY <1>2, <1>3 DEF Chunked
<1>5. Row(cs, ls, k + 1)
  <2>1. \A i \in 1 .. (k + 1) - 1 : i \in 1 .. k - 1 \/ i = k
    BY <1>2
  <2>2. cs[k].depth <= MaxLen
    OBVIOUS
  <2> QED BY <1>3, <2>1, <2>2 DEF Building, Row
<1>6. Balance(cs, k + 1, p)
  <2>1. 2 * Eaten(cs, k - 1) + Pending(st) = 2^(MaxLen + 1)
    BY DEF Building, Balance
  <2>2. Pending(st) = Pending(p) + Owed(f) /\ Pending(p) \in Nat
    BY <1>1 DEF TopIs, Below
  <2>3. Owed(f) = 2 * Places(cs)[k]
    BY <1>1, <1>4 DEF TopIs
  <2>4. 2 * Eaten(cs, k) + Pending(p) = 2^(MaxLen + 1)
    BY <1>2, <1>4, <2>1, <2>2, <2>3
  <2> QED BY <1>3, <2>4 DEF Balance
<1> DEFINE c == cs[k]
           e == TakenWith(d, c)
           more == IF c.bit = 0 THEN <<>> ELSE <<ChunkRec(c.bit, Len(d.syms))>>
<1>7. d \in [sched : Seq(Recs), syms : Seq(Symbols)] /\ d.sched \in Seq(Recs) /\ d.syms \in Seq(Symbols)
  BY DEF Building, Written
<1>8. more \in Seq(Recs) /\ Len(more) = IF c.bit = 0 THEN 0 ELSE 1
  <2>1. Len(d.syms) \in Int /\ c.bit \in Int
    BY <1>4, <1>7
  <2>2. ChunkRec(c.bit, Len(d.syms)) \in Recs
    BY <2>1 DEF ChunkRec, Rec, Recs
  <2> HIDE DEF c
  <2> QED BY <2>2
<1>9. /\ e \in [sched : Seq(Recs), syms : Seq(Symbols)] /\ Len(d.sched) \in Nat /\ Len(e.sched) \in Nat
      /\ Len(e.sched) = Len(d.sched) + IF c.bit = 0 THEN 0 ELSE 1
  <2>1. e = [sched |-> d.sched \o more, syms |-> d.syms \o c.syms]
    BY DEF TakenWith
  <2>2. PICK s, t : s = d.sched /\ t = more
    OBVIOUS
  <2>3. s \in Seq(Recs) /\ t \in Seq(Recs)
    BY <1>7, <1>8, <2>2
  <2>4. s \o t \in Seq(Recs) /\ Len(s \o t) = Len(s) + Len(t) /\ Len(s) \in Nat
    BY <2>3
  <2>5. d.syms \o c.syms \in Seq(Symbols)
    BY <1>4, <1>7
  <2>6. Len(t) = IF c.bit = 0 THEN 0 ELSE 1
    BY <1>8, <2>2
  <2> HIDE DEF e, more, c
  <2>7. e \in [sched : Seq(Recs), syms : Seq(Symbols)] /\ e.sched = s \o t
    BY <2>1, <2>2, <2>4, <2>5
  <2>8. Len(e.sched) = Len(d.sched) + Len(t) /\ Len(d.sched) \in Nat
    BY <2>2, <2>4, <2>7
  <2>9. CASE c.bit = 0
    BY <2>6, <2>7, <2>8, <2>9
  <2>10. CASE c.bit # 0
    BY <2>6, <2>7, <2>8, <2>10
  <2> QED BY <2>9, <2>10
<1> HIDE DEF e, more, c
<1>10. Len(d.sched) <= Len(e.sched)
  <2>1. CASE c.bit = 0
    BY <1>9, <2>1
  <2>2. CASE c.bit # 0
    BY <1>9, <2>2
  <2> QED BY <2>1, <2>2
<1>11. ASSUME Len(st) > 1, st[Len(st) - 1].pc = "right"
       PROVE  st[Len(st) - 1].rightSched <= Len(e.sched)
  <2>1. k > 1 /\ cs[k - 1].depth >= f.depth
    BY <1>1, <1>11 DEF TopIs
  <2>2. k - 1 \in 1 .. Len(cs) /\ k - 1 < k
    BY <1>2, <1>3, <2>1
  <2>3. cs[k - 1].depth \in Nat /\ cs[k - 1].depth <= cs[k].depth
    BY <1>2, <1>3, <2>2 DEF Chunked
  <2>4. cs[k - 1].depth = cs[k].depth /\ cs[k].depth <= MaxLen
    BY <1>4, <2>1, <2>3
  <2>5. cs[k].bit # 0
    BY <1>2, <1>3, <2>2, <2>4 DEF Chunked
  <2>6. Len(e.sched) = Len(d.sched) + 1
    BY <1>9, <2>5 DEF c
  <2>7. st[Len(st) - 1].rightSched <= Len(d.sched) + 1
    <3>1. Len(st) - 1 \in 1 .. Len(st)
      BY <1>1, <1>11 DEF Below
    <3> QED BY <1>11, <3>1 DEF Building, Written
  <2> QED BY <2>6, <2>7
<1>12. PICK m : m = k + 1
  OBVIOUS
<1>13. /\ m > 1 /\ cs[m - 1].depth \in Nat /\ cs[m - 1].depth >= f.depth
       /\ Row(cs, ls, m) /\ Balance(cs, m, p)
  <2>1. m - 1 = k /\ m > 1
    BY <1>3, <1>12
  <2>2. cs[k].depth >= f.depth
    BY <1>4
  <2> QED BY <1>4, <1>5, <1>6, <1>12, <2>1, <2>2
<1>14. Building(cs, ls, m, p, e)
  <2>1. e \in [sched : Seq(Recs), syms : Seq(Symbols)]
    BY <1>9
  <2>2. PICK g : g = e
    OBVIOUS
  <2>3. /\ g \in [sched : Seq(Recs), syms : Seq(Symbols)] /\ Len(d.sched) <= Len(g.sched)
        /\ Len(st) > 1 /\ st[Len(st) - 1].pc = "right" => st[Len(st) - 1].rightSched <= Len(g.sched)
    BY <1>10, <1>11, <2>1, <2>2
  <2>4. Building(cs, ls, m, p, g)
    BY <1>1, <1>13, <2>3, PopBuilds
  <2> QED BY <2>2, <2>4
<1> QED BY <1>12, <1>14 DEF e, c

\* A node that closes fills in its record and returns.
LEMMA CloseBuilds ==
  ASSUME NEW cs, NEW ls, NEW k, NEW st, NEW d, Building(cs, ls, k, st, d), st # <<>>,
         NEW p, p = SubSeq(st, 1, Len(st) - 1), NEW f, f = st[Len(st)], f.pc = "right",
         NEW r \in Recs
  PROVE  Building(cs, ls, k, p, [d EXCEPT !.sched[f.self] = r])
<1>1. TopIs(f, cs, k, st) /\ Below(p, st)
  BY TopFacts
<1>2. /\ Chunked(cs) /\ Len(cs) \in Nat /\ k \in Nat /\ k >= 1 /\ k <= Len(cs) + 1
  BY RowFacts DEF Building
<1>3. k > 1 /\ cs[k - 1].depth > f.depth /\ f.depth \in Nat
  BY <1>1 DEF TopIs
<1>4. cs[k - 1].depth \in Nat /\ cs[k - 1].depth >= f.depth
  <2>1. k - 1 \in 1 .. Len(cs)
    BY <1>2, <1>3
  <2>2. cs[k - 1].depth \in Nat
    BY <1>2, <2>1 DEF Chunked
  <2> QED BY <1>3, <2>2
<1>5. Balance(cs, k, p)
  <2>1. 2 * Eaten(cs, k - 1) + Pending(st) = 2^(MaxLen + 1)
    BY DEF Building, Balance
  <2>2. Pending(st) = Pending(p) /\ Pending(p) \in Nat
    BY <1>1 DEF TopIs, Below
  <2> QED BY <2>1, <2>2 DEF Balance
<1> DEFINE s == d.sched
           t == [s EXCEPT ![f.self] = r]
           e == [d EXCEPT !.sched[f.self] = r]
<1>6. d \in [sched : Seq(Recs), syms : Seq(Symbols)] /\ s \in Seq(Recs) /\ Len(s) \in Nat
  BY DEF Building, Written
<1>7. t \in Seq(Recs) /\ Len(t) = Len(s)
  <2>1. s \in [1 .. Len(s) -> Recs]
    BY <1>6
  <2>2. t \in [1 .. Len(s) -> Recs]
    <3> HIDE DEF s
    <3> QED BY <2>1
  <2>3. ASSUME NEW n \in Nat, NEW q \in [1 .. n -> Recs] PROVE q \in Seq(Recs) /\ Len(q) = n
    OBVIOUS
  <2> HIDE DEF s, t
  <2> QED BY <1>6, <2>2, <2>3
<1>8. e \in [sched : Seq(Recs), syms : Seq(Symbols)] /\ e.sched = t
  <2>1. e = [d EXCEPT !.sched = t]
    BY <1>6
  <2> HIDE DEF e, s, t
  <2> QED BY <1>6, <1>7, <2>1
<1> HIDE DEF e, t
<1>9. Len(d.sched) <= Len(e.sched)
  BY <1>6, <1>7, <1>8
<1>10. ASSUME Len(st) > 1, st[Len(st) - 1].pc = "right"
       PROVE  st[Len(st) - 1].rightSched <= Len(e.sched)
  <2>1. Len(st) - 1 \in 1 .. Len(st) /\ (Len(st) - 1) + 1 = Len(st)
    BY <1>1, <1>10 DEF Below
  <2>2. st[Len(st)].pc # "call"
    OBVIOUS
  <2>3. st[Len(st) - 1].rightSched <= Len(d.sched)
    BY <1>10, <2>1, <2>2 DEF Building, Written
  <2> QED BY <1>7, <1>8, <2>3
<1>11. Row(cs, ls, k)
  BY DEF Building
<1>12. Building(cs, ls, k, p, e)
  BY <1>1, <1>3, <1>4, <1>5, <1>8, <1>9, <1>10, <1>11, PopBuilds
<1> QED BY <1>12 DEF e


\* A call hands the invariant to the activation it makes, once the caller has made room
\* for it.
GoesOn(cs, k, f, a) ==
  /\ a \in Frames /\ a.pc # "call" /\ a.depth = f.depth /\ f.depth <= MaxLen
  /\ Owed(a) \in Nat /\ Owed(f) = Owed(a) + 2^(MaxLen - f.depth)
  /\ k <= Len(cs) => cs[k].depth >= f.depth + 1
  /\ a.pc = "right" => k > 1 /\ cs[k - 1].depth >= f.depth + 1
Reserved(p, a, e) ==
  /\ e \in [sched : Seq(Recs), syms : Seq(Symbols)]
  /\ a.pc = "right" => a.rightSched <= Len(e.sched) + 1
  /\ \A i \in 1 .. Len(p) : p[i].pc = "right" => p[i].rightSched <= Len(e.sched)

LEMMA CallBuilds ==
  ASSUME NEW cs, NEW ls, NEW k, NEW st, NEW d, NEW e, NEW p, NEW f,
         Building(cs, ls, k, st, d), Below(p, st), TopIs(f, cs, k, st),
         NEW a, GoesOn(cs, k, f, a), Reserved(p, a, e), NEW b, b = Call(f.depth + 1)
  PROVE  Building(cs, ls, k, p \o <<a, b>>, e)
<1>0. /\ a \in Frames /\ a.pc # "call" /\ a.depth = f.depth /\ f.depth <= MaxLen
      /\ Owed(a) \in Nat /\ Owed(f) = Owed(a) + 2^(MaxLen - f.depth)
      /\ k <= Len(cs) => cs[k].depth >= f.depth + 1
      /\ a.pc = "right" => k > 1 /\ cs[k - 1].depth >= f.depth + 1
      /\ a.pc = "right" => a.rightSched <= Len(e.sched) + 1
      /\ e \in [sched : Seq(Recs), syms : Seq(Symbols)]
      /\ \A i \in 1 .. Len(p) : p[i].pc = "right" => p[i].rightSched <= Len(e.sched)
  BY DEF GoesOn, Reserved
<1>1. /\ Descent(p) /\ Len(p) \in Nat /\ Len(st) = Len(p) + 1
      /\ Pending(p) \in Nat /\ Pending(st) = Pending(p) + Owed(f)
      /\ \A i \in 1 .. Len(p) : p[i].pc # "call"
  BY DEF Below, TopIs
<1>2. f.depth = Len(p) /\ f.depth \in Nat /\ a.depth = Len(p)
  BY <1>0, <1>1 DEF TopIs
<1>3. Deep(a) /\ b = Call(a.depth + 1)
  BY <1>0 DEF Deep
<1>4. PICK q : q = p \o <<a, b>>
  OBVIOUS
<1>5. /\ Descent(q) /\ Len(q) = Len(p) + 2 /\ q[Len(p) + 1] = a /\ q[Len(p) + 2] = b
      /\ \A i \in 1 .. Len(p) : q[i] = p[i]
      /\ Pending(q) = Pending(p) + Owed(a) + 2^(MaxLen - a.depth)
      /\ b.pc = "call" /\ b.depth = a.depth + 1
  <2>1. OnGoing(p)
    BY <1>1 DEF OnGoing
  <2>2. Calls(p, a, b, q)
    BY <1>0, <1>2, <1>3, <1>4, <2>1, CallsChild
  <2> QED BY <2>2 DEF Calls
<1>6. Row(cs, ls, k)
  BY DEF Building
<1>7. Balance(cs, k, q)
  <2>1. PICK x, y, z : x = Pending(p) /\ y = Owed(a) /\ z = 2^(MaxLen - f.depth)
    OBVIOUS
  <2>2. MaxLen - f.depth \in Nat
    BY <1>0, <1>2, AlphabetAssumption
  <2>3. x \in Nat /\ y \in Nat /\ z \in Nat
    BY <1>0, <1>1, <2>1, <2>2, PowerIsPositive
  <2>4. Pending(q) = x + y + z
    BY <1>0, <1>5, <2>1
  <2>5. Pending(st) = x + (y + z)
    BY <1>0, <1>1, <2>1
  <2>6. Pending(q) = Pending(st)
    BY <2>3, <2>4, <2>5
  <2> QED BY <2>6 DEF Building, Balance
<1>8. NoneSkipped(cs, k, q)
  <2>1. q[Len(q)] = b /\ q[Len(q) - 1] = a /\ b.depth = f.depth + 1
    BY <1>0, <1>1, <1>5
  <2> QED BY <1>0, <1>5, <2>1 DEF NoneSkipped
<1>9. Written(e, q)
  <2>0. Len(e.sched) \in Nat /\ e \in [sched : Seq(Recs), syms : Seq(Symbols)]
    BY <1>0
  <2>1. Len(e.sched) \in Nat
    BY <2>0
  <2> SUFFICES ASSUME NEW i \in 1 .. Len(q), q[i].pc = "right"
               PROVE  /\ q[i].rightSched <= Len(e.sched) + 1
                      /\ i = Len(q) \/ q[i + 1].pc # "call" => q[i].rightSched <= Len(e.sched)
    BY <2>0 DEF Written
  <2>2. i \in 1 .. Len(p) \/ i = Len(p) + 1 \/ i = Len(p) + 2
    BY <1>1, <1>5
  <2>3. CASE i \in 1 .. Len(p)
    <3>1. p[i].rightSched <= Len(e.sched) /\ p[i].rightSched \in Int /\ q[i] = p[i]
      BY <1>0, <1>1, <1>5, <2>3 DEF Descent, Deep, Frames
    <3> QED BY <2>1, <3>1
  <2>4. CASE i = Len(p) + 1
    <3>1. q[i] = a /\ q[i + 1] = b /\ i # Len(q)
      BY <1>1, <1>5, <2>4
    <3> QED BY <1>0, <1>5, <3>1
  <2>5. CASE i = Len(p) + 2
    BY <1>5, <2>5
  <2> QED BY <2>2, <2>3, <2>4, <2>5
<1>10. Building(cs, ls, k, q, e)
  BY <1>5, <1>6, <1>7, <1>8, <1>9 DEF Building
<1> QED BY <1>4, <1>10

\* An internal node reserves its record and calls for its left child.
LEMMA OpenBuilds ==
  ASSUME NEW cs, NEW ls, NEW k, NEW st, NEW d, Building(cs, ls, k, st, d), st # <<>>,
         NEW p, p = SubSeq(st, 1, Len(st) - 1), NEW f, f = st[Len(st)], f.pc = "call",
         k <= Len(cs), f.depth <= MaxLen, cs[k].depth > f.depth, NEW r \in Recs,
         NEW a, a = [f EXCEPT !.pc = "left", !.self = Len(d.sched) + 1, !.leftRank = Len(d.syms)]
  PROVE  Building(cs, ls, k, p \o <<a, Call(f.depth + 1)>>, [d EXCEPT !.sched = Append(@, r)])
<1>1. TopIs(f, cs, k, st) /\ Below(p, st)
  BY TopFacts
<1>2. /\ Chunked(cs) /\ Len(cs) \in Nat /\ k \in Nat /\ k >= 1 /\ MaxLen \in Nat
  BY RowFacts DEF Building
<1>3. d \in [sched : Seq(Recs), syms : Seq(Symbols)] /\ Len(d.sched) \in Nat /\ Len(d.syms) \in Nat
  BY DEF Building, Written
<1>4. f \in Frames /\ f.depth \in Nat /\ Owed(f) = 2^(MaxLen + 1 - f.depth)
  BY <1>1 DEF TopIs
<1>5. a \in Frames /\ a.pc = "left" /\ a.depth = f.depth /\ Deep(a)
  <2>1. /\ f.depth \in 0 .. MaxLen + 1 /\ f.rightSched \in Int /\ f.rightRank \in Int
        /\ Len(d.sched) + 1 \in Int /\ Len(d.syms) \in Int
    BY <1>3, <1>4 DEF Frames
  <2>2. a = [pc |-> "left", depth |-> f.depth, self |-> Len(d.sched) + 1, leftRank |-> Len(d.syms),
             rightSched |-> f.rightSched, rightRank |-> f.rightRank]
    BY <1>4 DEF Frames
  <2>3. a \in Frames /\ a.pc = "left" /\ a.depth = f.depth
    BY <2>1, <2>2 DEF Frames
  <2> QED BY <2>3 DEF Deep
<1>6. PICK e : e = [d EXCEPT !.sched = Append(@, r)]
  OBVIOUS
<1>7. e \in [sched : Seq(Recs), syms : Seq(Symbols)] /\ Len(e.sched) = Len(d.sched) + 1
  <2>1. PICK s, t : s = d.sched /\ t = Append(s, r)
    OBVIOUS
  <2>2. s \in Seq(Recs) /\ t \in Seq(Recs) /\ Len(t) = Len(s) + 1
    BY <1>3, <2>1
  <2>3. e \in [sched : Seq(Recs), syms : Seq(Symbols)] /\ e.sched = t
    BY <1>3, <1>6, <2>1, <2>2
  <2> QED BY <2>1, <2>2, <2>3
<1>8. Owed(a) \in Nat /\ Owed(f) = Owed(a) + 2^(MaxLen - f.depth)
  <2>1. MaxLen - f.depth \in Nat /\ MaxLen + 1 - f.depth = (MaxLen - f.depth) + 1
    BY <1>2, <1>4
  <2>2. Owed(a) = 2^(MaxLen - f.depth) /\ Owed(a) \in Nat
    BY <1>5, OwedIs
  <2>3. PICK j \in Nat : j = MaxLen - f.depth
    BY <2>1
  <2>4. 2^(j + 1) = 2 * 2^j /\ 2^j \in Nat
    BY PowerDoubles, PowerIsPositive
  <2>5. Owed(f) = 2^(j + 1) /\ Owed(a) = 2^j
    BY <1>4, <2>1, <2>2, <2>3
  <2> QED BY <2>2, <2>3, <2>4, <2>5
<1>9. cs[k].depth >= f.depth + 1
  <2>1. k \in 1 .. Len(cs)
    BY <1>2
  <2>2. cs[k].depth \in Nat
    BY <1>2, <2>1 DEF Chunked
  <2> QED BY <1>4, <2>2
<1>10. \A i \in 1 .. Len(p) : p[i].pc = "right" => p[i].rightSched <= Len(e.sched)
  <2> SUFFICES ASSUME NEW i \in 1 .. Len(p), p[i].pc = "right" PROVE p[i].rightSched <= Len(e.sched)
    OBVIOUS
  <2>1. i \in 1 .. Len(st) /\ p[i] = st[i]
    BY <1>1 DEF Below
  <2>2. p[i].rightSched <= Len(d.sched) + 1
    BY <2>1 DEF Building, Written
  <2> QED BY <1>7, <2>2
<1>11. Building(cs, ls, k, p \o <<a, Call(f.depth + 1)>>, e)
  <2>1. PICK b : b = Call(f.depth + 1)
    OBVIOUS
  <2>2. a.pc # "call" /\ a.pc # "right" /\ e \in [sched : Seq(Recs), syms : Seq(Symbols)]
    BY <1>5, <1>7
  <2>3. GoesOn(cs, k, f, a) /\ Reserved(p, a, e)
    BY <1>5, <1>8, <1>9, <1>10, <2>2 DEF GoesOn, Reserved
  <2>4. Building(cs, ls, k, p \o <<a, b>>, e)
    BY <1>1, <2>1, <2>3, CallBuilds
  <2> QED BY <2>1, <2>4
<1> QED BY <1>6, <1>11

\* A left child that is complete: the call for the right one.
LEMMA RightBuilds ==
  ASSUME NEW cs, NEW ls, NEW k, NEW st, NEW d, Building(cs, ls, k, st, d), st # <<>>,
         NEW p, p = SubSeq(st, 1, Len(st) - 1), NEW f, f = st[Len(st)], f.pc = "left",
         NEW a, a = [f EXCEPT !.pc = "right", !.rightSched = Len(d.sched) + 1, !.rightRank = Len(d.syms)]
  PROVE  Building(cs, ls, k, p \o <<a, Call(f.depth + 1)>>, d)
<1>1. TopIs(f, cs, k, st) /\ Below(p, st)
  BY TopFacts
<1>2. /\ Chunked(cs) /\ Len(cs) \in Nat /\ k \in Nat /\ k >= 1 /\ k <= Len(cs) + 1 /\ MaxLen \in Nat
  BY RowFacts DEF Building
<1>3. d \in [sched : Seq(Recs), syms : Seq(Symbols)] /\ Len(d.sched) \in Nat /\ Len(d.syms) \in Nat
  BY DEF Building, Written
<1>4. /\ f \in Frames /\ f.depth \in Nat /\ f.depth <= MaxLen /\ Owed(f) = 2^(MaxLen - f.depth)
      /\ k > 1 /\ cs[k - 1].depth > f.depth
  BY <1>1 DEF TopIs, Deep
<1>5. a \in Frames /\ a.pc = "right" /\ a.depth = f.depth /\ Deep(a) /\ a.rightSched = Len(d.sched) + 1
  <2>1. /\ f.depth \in 0 .. MaxLen + 1 /\ f.self \in Int /\ f.leftRank \in Int
        /\ Len(d.sched) + 1 \in Int /\ Len(d.syms) \in Int
    BY <1>3, <1>4 DEF Frames
  <2>2. a = [pc |-> "right", depth |-> f.depth, self |-> f.self, leftRank |-> f.leftRank,
             rightSched |-> Len(d.sched) + 1, rightRank |-> Len(d.syms)]
    BY <1>4 DEF Frames
  <2>3. a \in Frames /\ a.pc = "right" /\ a.depth = f.depth /\ a.rightSched = Len(d.sched) + 1
    BY <2>1, <2>2 DEF Frames
  <2> QED BY <1>4, <2>3 DEF Deep
<1>6. Owed(a) \in Nat /\ Owed(f) = Owed(a) + 2^(MaxLen - f.depth)
  <2>1. Owed(a) = 0
    BY <1>5, OwedIs
  <2>2. MaxLen - f.depth \in Nat
    BY <1>2, <1>4
  <2>3. 2^(MaxLen - f.depth) \in Nat
    BY <2>2, PowerIsPositive
  <2> QED BY <1>4, <2>1, <2>3
<1>7. cs[k - 1].depth \in Nat /\ cs[k - 1].depth >= f.depth + 1
  <2>1. k - 1 \in 1 .. Len(cs)
    BY <1>2, <1>4
  <2>2. cs[k - 1].depth \in Nat
    BY <1>2, <2>1 DEF Chunked
  <2> QED BY <1>4, <2>2
<1>8. k <= Len(cs) => cs[k].depth >= f.depth + 1
  <2> SUFFICES ASSUME k <= Len(cs) PROVE cs[k].depth >= f.depth + 1
    OBVIOUS
  <2>1. k \in 1 .. Len(cs) /\ k - 1 \in 1 .. Len(cs) /\ k - 1 < k
    BY <1>2, <1>4
  <2>2. cs[k].depth \in Nat /\ cs[k - 1].depth <= cs[k].depth
    BY <1>2, <2>1 DEF Chunked
  <2> QED BY <1>4, <1>7, <2>2
<1>9. \A i \in 1 .. Len(p) : p[i].pc = "right" => p[i].rightSched <= Len(d.sched)
  <2> SUFFICES ASSUME NEW i \in 1 .. Len(p), p[i].pc = "right" PROVE p[i].rightSched <= Len(d.sched)
    OBVIOUS
  <2>1. i \in 1 .. Len(st) /\ p[i] = st[i] /\ i # Len(st) /\ i \in Int
        /\ (i < Len(p) => i + 1 \in 1 .. Len(p)) /\ (i = Len(p) => i + 1 = Len(st))
    BY <1>1 DEF Below
  <2>2. st[i + 1].pc # "call"
    <3>1. CASE i < Len(p)
      BY <1>1, <2>1, <3>1 DEF Below
    <3>2. CASE i = Len(p)
      BY <2>1, <3>2
    <3>3. Len(p) \in Nat /\ i <= Len(p)
      BY <1>1 DEF Below
    <3> QED BY <2>1, <3>1, <3>2, <3>3
  <2> QED BY <2>1, <2>2 DEF Building, Written
<1>10. a.rightSched <= Len(d.sched) + 1
  BY <1>3, <1>5
<1>11. PICK b : b = Call(f.depth + 1)
  OBVIOUS
<1>12. /\ a.pc # "call" /\ d \in [sched : Seq(Recs), syms : Seq(Symbols)] /\ f.depth <= MaxLen
       /\ a.pc = "right" => k > 1 /\ cs[k - 1].depth >= f.depth + 1 /\ a.rightSched <= Len(d.sched) + 1
  BY <1>3, <1>4, <1>5, <1>7, <1>10
<1>13. Building(cs, ls, k, p \o <<a, b>>, d)
  <2>1. GoesOn(cs, k, f, a) /\ Reserved(p, a, d)
    BY <1>5, <1>6, <1>8, <1>9, <1>12 DEF GoesOn, Reserved
  <2> QED BY <1>1, <1>11, <2>1, CallBuilds
<1> QED BY <1>11, <1>13

-----------------------------------------------------------------------------
\* One call of the decoder's build, on any lengths.
Decoding == (\E ls \in [Symbols -> Nat] : BuildDecodeCore(ls)) \/ Gen
DecodeSpec == TableInit /\ lens = Zeros /\ [][Decoding]_<<lens, tableVars>>

Decides(s, ls) ==
  Cardinality(Used(ls)) >= 2 => (s = "ok" => Complete(ls)) /\ (s = "corrupt" => ~Complete(ls))
Tracks(s, cs, ls, k, st, d) ==
  /\ s = "idle" => k = 1 /\ st = <<>> /\ d = Nothing
  /\ s = "gen" => Building(cs, ls, k, st, d)
  /\ Decides(s, ls)
DecodeInv == Tracks(status, chunks, lens, next, stack, dec)

LEMMA DecodeStarts == TableInit => DecodeInv
BY DEF TableInit, DecodeInv, Tracks, Decides

LEMMA CallTracks ==
  ASSUME DecodeInv, NEW ls \in [Symbols -> Nat], BuildDecodeCore(ls)
  PROVE  DecodeInv'
<1>1. status = "idle" /\ lens' = ls /\ next = 1 /\ stack = <<>> /\ dec = Nothing
  BY DEF BuildDecodeCore, DecodeInv, Tracks
<1>2. CASE status' = "corrupt" /\ \E s \in Symbols : ls[s] > MaxLen
  <2>1. ~Complete(ls)
    <3>1. PICK s \in Symbols : ls[s] > MaxLen
      BY <1>2
    <3>2. ls[s] \in Nat /\ MaxLen \in Nat
      BY AlphabetAssumption
    <3>3. ~(ls[s] <= MaxLen)
      BY <3>1, <3>2
    <3> QED BY <3>3 DEF Complete
  <2>2. Tracks(status', chunks', ls, next', stack', dec')
    BY <1>2, <2>1 DEF Tracks, Decides
  <2> QED BY <1>1, <2>2 DEF DecodeInv
<1>3. CASE status' = "empty"
  <2>1. Tracks(status', chunks', ls, next', stack', dec')
    BY <1>3 DEF Tracks, Decides
  <2> QED BY <1>1, <2>1 DEF DecodeInv
<1>4. CASE status' = "ok" /\ \E s \in Symbols : Used(ls) = {s}
  <2>1. PICK s \in Symbols : Used(ls) = {s}
    BY <1>4
  <2>2. Cardinality(Used(ls)) = 1
    BY <2>1, FS_Singleton
  <2>3. Tracks(status', chunks', ls, next', stack', dec')
    BY <1>4, <2>2 DEF Tracks, Decides
  <2> QED BY <1>1, <2>3 DEF DecodeInv
<1>5. CASE /\ status' = "gen" /\ chunks' = SortByDepth(ChunkSet(ls)) /\ stack' = <<Call(0)>>
           /\ next' = next /\ dec' = dec /\ \A s \in Symbols : ls[s] <= MaxLen
  <2>1. ls \in Fitted
    <3>1. \A s \in Symbols : ls[s] \in 0 .. MaxLen
      BY <1>5, AlphabetAssumption
    <3> QED BY <3>1 DEF Fitted
  <2>2. PICK cs : cs = chunks'
    OBVIOUS
  <2>3. Building(cs, ls, 1, <<Call(0)>>, Nothing)
    BY <1>5, <2>1, <2>2, BuildStarts
  <2>4. Tracks("gen", cs, ls, 1, <<Call(0)>>, Nothing)
    BY <2>3 DEF Tracks, Decides
  <2> QED BY <1>1, <1>5, <2>2, <2>4 DEF DecodeInv
<1> QED BY <1>2, <1>3, <1>4, <1>5 DEF BuildDecodeCore

\* A step of the recursion.
LEMMA GenTracks ==
  ASSUME DecodeInv, Gen
  PROVE  DecodeInv'
<1>1. status = "gen" /\ lens' = lens /\ chunks' = chunks
  BY DEF Gen, Reject, TakeChunk, OpenNode, GoRight, CloseNode, Finish, Entering
<1>2. Building(chunks, lens, next, stack, dec)
  BY <1>1 DEF DecodeInv, Tracks
<1>3. PICK p, f : p = Pop /\ f = Top
  OBVIOUS
<1>4. p = SubSeq(stack, 1, Len(stack) - 1) /\ f = stack[Len(stack)]
  BY <1>3 DEF Pop, Top
<1>5. /\ dec \in [sched : Seq(Recs), syms : Seq(Symbols)]
      /\ Len(dec.sched) \in Nat /\ Len(dec.syms) \in Nat
  BY <1>2 DEF Building, Written
<1>6. CASE Reject
  <2>1. /\ stack # <<>> /\ f.pc = "call"
        /\ ~(next <= Len(chunks) /\ f.depth <= MaxLen /\ chunks[next].depth >= f.depth)
    BY <1>3, <1>6 DEF Reject, Entering, InOrder
  <2>2. ~Complete(lens)
    BY <1>2, <1>4, <2>1, RejectsRightly
  <2>3. status' = "corrupt" /\ next' = next /\ stack' = stack /\ dec' = dec
    BY <1>6 DEF Reject
  <2>4. Tracks("corrupt", chunks, lens, next, stack, dec)
    BY <2>2 DEF Tracks, Decides
  <2> QED BY <1>1, <2>3, <2>4 DEF DecodeInv
<1>7. CASE TakeChunk
  <2>1. /\ stack # <<>> /\ f.pc = "call" /\ next <= Len(chunks) /\ f.depth <= MaxLen
        /\ chunks[next].depth = f.depth
    BY <1>3, <1>7 DEF TakeChunk, Entering, InOrder
  <2>2. Building(chunks, lens, next + 1, p, TakenWith(dec, chunks[next]))
    BY <1>2, <1>4, <2>1, TakeBuilds
  <2>3. status' = "gen" /\ next' = next + 1 /\ stack' = p /\ dec' = TakenWith(dec, chunks[next])
    BY <1>1, <1>3, <1>7 DEF TakeChunk, TakenWith
  <2>4. Tracks("gen", chunks, lens, next + 1, p, TakenWith(dec, chunks[next]))
    BY <2>2 DEF Tracks, Decides
  <2> QED BY <1>1, <2>3, <2>4 DEF DecodeInv
<1>8. CASE OpenNode
  <2>1. /\ stack # <<>> /\ f.pc = "call" /\ next <= Len(chunks) /\ f.depth <= MaxLen
        /\ chunks[next].depth > f.depth
    BY <1>3, <1>8 DEF OpenNode, Entering, InOrder
  <2>2. PICK r, a, q, e :
          /\ r = Rec("FULL", 0, 0, 0)
          /\ a = [f EXCEPT !.pc = "left", !.self = Len(dec.sched) + 1, !.leftRank = Len(dec.syms)]
          /\ q = p \o <<a, Call(f.depth + 1)>> /\ e = [dec EXCEPT !.sched = Append(@, r)]
    OBVIOUS
  <2>3. r \in Recs
    BY <2>2 DEF Rec, Recs
  <2>4. Building(chunks, lens, next, q, e)
    BY <1>2, <1>4, <2>1, <2>2, <2>3, OpenBuilds
  <2>5. status' = "gen" /\ next' = next /\ stack' = q /\ dec' = e
    BY <1>1, <1>3, <1>8, <2>2 DEF OpenNode
  <2>6. Tracks("gen", chunks, lens, next, q, e)
    BY <2>4 DEF Tracks, Decides
  <2> QED BY <1>1, <2>5, <2>6 DEF DecodeInv
<1>9. CASE GoRight
  <2>1. stack # <<>> /\ f.pc = "left"
    BY <1>3, <1>9 DEF GoRight
  <2>2. PICK a, q :
          /\ a = [f EXCEPT !.pc = "right", !.rightSched = Len(dec.sched) + 1, !.rightRank = Len(dec.syms)]
          /\ q = p \o <<a, Call(f.depth + 1)>>
    OBVIOUS
  <2>3. Building(chunks, lens, next, q, dec)
    BY <1>2, <1>4, <2>1, <2>2, RightBuilds
  <2>4. status' = "gen" /\ next' = next /\ stack' = q /\ dec' = dec
    BY <1>1, <1>3, <1>9, <2>2 DEF GoRight
  <2>5. Tracks("gen", chunks, lens, next, q, dec)
    BY <2>3 DEF Tracks, Decides
  <2> QED BY <1>1, <2>4, <2>5 DEF DecodeInv
<1>10. CASE CloseNode
  <2>1. stack # <<>> /\ f.pc = "right"
    BY <1>3, <1>10 DEF CloseNode
  <2>2. PICK r, e :
          /\ r = Rec(IF LeftLeaf(f) THEN "LEAF_LEFT" ELSE "FULL", f.rightRank - 1, f.rightSched - f.self, 0)
          /\ e = [dec EXCEPT !.sched[f.self] = r]
    OBVIOUS
  <2>3. r \in Recs
    <3>1. f \in Frames
      BY <1>2, <1>4, <2>1, TopFacts DEF TopIs
    <3>2. f.rightRank - 1 \in Int /\ f.rightSched - f.self \in Int
      BY <3>1 DEF Frames
    <3>3. CASE LeftLeaf(f)
      BY <2>2, <3>2, <3>3 DEF Rec, Recs
    <3>4. CASE ~LeftLeaf(f)
      BY <2>2, <3>2, <3>4 DEF Rec, Recs
    <3> QED BY <3>3, <3>4
  <2>4. Building(chunks, lens, next, p, e)
    BY <1>2, <1>4, <2>1, <2>2, <2>3, CloseBuilds
  <2>5. status' = "gen" /\ next' = next /\ stack' = p /\ dec' = e
    BY <1>1, <1>3, <1>10, <2>2 DEF CloseNode
  <2>6. Tracks("gen", chunks, lens, next, p, e)
    BY <2>4 DEF Tracks, Decides
  <2> QED BY <1>1, <2>5, <2>6 DEF DecodeInv
<1>11. CASE Finish
  <2>1. stack = <<>> /\ status' = Verdict /\ next' = next /\ stack' = stack /\ dec' = dec
    BY <1>11 DEF Finish
  <2>2. next = Len(chunks) + 1 <=> Complete(lens)
    BY <1>2, <2>1, FinishesRightly
  <2>3. PICK s : s = Verdict
    OBVIOUS
  <2>4. (s = "ok" /\ Complete(lens)) \/ (s = "corrupt" /\ ~Complete(lens))
    BY <2>2, <2>3 DEF Verdict
  <2>5. Tracks(s, chunks, lens, next, stack, dec)
    BY <2>4 DEF Tracks, Decides
  <2> QED BY <1>1, <2>1, <2>3, <2>5 DEF DecodeInv
<1> QED BY <1>6, <1>7, <1>8, <1>9, <1>10, <1>11 DEF Gen

LEMMA TracksDecide ==
  ASSUME DecodeInv
  PROVE  VerdictRight
<1>1. RejectsIncomplete
  BY DEF DecodeInv, Tracks, Decides, RejectsIncomplete
<1>2. OnlyLeftLeaf
  <2> SUFFICES ASSUME status = "gen", stack # <<>>, Top.pc = "right"
               PROVE  Len(dec.sched) >= Top.rightSched
    BY DEF OnlyLeftLeaf
  <2>1. Building(chunks, lens, next, stack, dec)
    BY DEF DecodeInv, Tracks
  <2>2. PICK n : n = Len(stack)
    OBVIOUS
  <2>3. n \in 1 .. Len(stack) /\ Top = stack[n]
    BY <2>1, <2>2 DEF Building, Descent, Top
  <2>4. stack[n].rightSched <= Len(dec.sched)
    BY <2>1, <2>2, <2>3 DEF Building, Written
  <2>5. stack[n].rightSched \in Int /\ Len(dec.sched) \in Nat
    <3>1. Len(dec.sched) \in Nat
      BY <2>1 DEF Building, Written
    <3>2. stack[n] \in Frames
      BY <2>1, <2>3 DEF Building, Descent
    <3> QED BY <3>1, <3>2 DEF Frames
  <2> QED BY <2>3, <2>4, <2>5
<1> QED BY <1>1, <1>2 DEF VerdictRight

LEMMA DecodeInvariance == DecodeSpec => []DecodeInv
<1>1. TableInit /\ lens = Zeros => DecodeInv
  BY DecodeStarts
<1>2. DecodeInv /\ [Decoding]_<<lens, tableVars>> => DecodeInv'
  <2> SUFFICES ASSUME DecodeInv, [Decoding]_<<lens, tableVars>>
               PROVE  DecodeInv'
    OBVIOUS
  <2>1. ASSUME NEW ls \in [Symbols -> Nat], BuildDecodeCore(ls)
        PROVE  DecodeInv'
    BY <2>1, CallTracks
  <2>2. CASE Gen
    BY <2>2, GenTracks
  <2>3. CASE UNCHANGED <<lens, tableVars>>
    BY <2>3 DEF tableVars, DecodeInv
  <2> QED BY <2>1, <2>2, <2>3 DEF Decoding
<1> QED BY <1>1, <1>2, PTL DEF DecodeSpec

\* Whatever lengths come off the wire, the decoder's build of two symbols or more accepts
\* exactly the complete codes, and a lone leaf is only ever the left child.
THEOREM AcceptsCompleteCodes == DecodeSpec => []VerdictRight
<1>1. DecodeInv => VerdictRight
  BY TracksDecide
<1> QED BY <1>1, DecodeInvariance, PTL


-----------------------------------------------------------------------------
\* The two builds in a row: lengths from frequencies, and the decoder's build of them.
TablesInit == LengthsInit /\ TableInit /\ lens = Zeros
BuiltHandedOver == phase = "done" /\ BuildDecodeCore(lens) /\ UNCHANGED lengthsVars
TablesStep ==
  \/ Lengthening /\ UNCHANGED tableVars
  \/ BuiltHandedOver
  \/ Gen /\ UNCHANGED lengthsVars
TablesSpec == TablesInit /\ [][TablesStep]_<<lens, lengthsVars, tableVars>>

\* Nothing changes the lengths once they are done, so that what the decoder's build is at
\* work on is the complete code it was given.
LoneCode(ls) == \E x \in Symbols : ls = [Zeros EXCEPT ![x] = 1]
Together ==
  /\ status \in {"idle", "gen", "ok"} /\ (status # "idle" => phase = "done")
  /\ status = "gen" => Complete(lens)
  /\ phase = "done" => NumUsed >= 2 \/ LoneCode(lens)

\* What frequencies come to is a complete code, or the one bit of a lone symbol.
LEMMA DoneLengths ==
  ASSUME BuildInv, Together, phase = "done"
  PROVE  /\ \A s \in Symbols : lens[s] <= MaxLen
         /\ Used(lens) # {}
         /\ Cardinality(Used(lens)) >= 2 => Complete(lens)
<1>0. MaxLen \in Nat /\ MaxLen >= 1
  BY AlphabetAssumption
<1>1. CASE NumUsed >= 2
  <2>1. CompleteLens /\ freq \in [Symbols -> Nat]
    BY <1>1 DEF BuildInv
  <2>2. \A s \in Symbols : lens[s] <= MaxLen /\ (lens[s] > 0 <=> s \in Occurring)
    BY <2>1 DEF CompleteLens, Coding
  <2>3. Used(lens) = Occurring
    BY <2>2 DEF Used, Occurring
  <2>4. CodeSum(lens, Used(lens)) = 2^MaxLen
    <3>1. Share(lens) = Target /\ IsFiniteSet(Occurring)
      BY <2>1, UsedFinite DEF CompleteLens
    <3> QED BY <2>3, <3>1, CodeSumIsSum DEF Share, Target
  <2>5. Complete(lens)
    BY <2>2, <2>4, Zenon DEF Complete, CodeSum
  <2>6. Occurring # {}
    <3> SUFFICES ASSUME Occurring = {} PROVE FALSE
      OBVIOUS
    <3>1. NumUsed = 0
      BY FS_EmptySet DEF NumUsed
    <3> QED BY <1>1, <3>1
  <2> QED BY <2>2, <2>3, <2>5, <2>6
<1>2. CASE LoneCode(lens)
  <2>1. PICK x \in Symbols : lens = [Zeros EXCEPT ![x] = 1]
    BY <1>2 DEF LoneCode
  <2>2. \A s \in Symbols : lens[s] = IF s = x THEN 1 ELSE 0
    BY <2>1 DEF Zeros
  <2>3. Used(lens) = {x}
    BY <2>2 DEF Used
  <2>4. Cardinality(Used(lens)) = 1
    BY <2>3, FS_Singleton
  <2> QED BY <1>0, <2>2, <2>3, <2>4
<1> QED BY <1>1, <1>2 DEF Together

LEMMA GatherLone ==
  ASSUME NEW f \in [Symbols -> Nat], Gather(f), phase' = "done"
  PROVE  LoneCode(lens')
<1>1. PICK U : U = {s \in Symbols : f[s] > 0}
  OBVIOUS
<1>2. Cardinality(U) \in Nat /\ \E p : Placed(f, U, p)
  BY <1>1, LeavesNumber
<1>3. Leaves(f) \in [1 .. Cardinality(U) -> U] /\ Len(Leaves(f)) = Cardinality(U)
  BY <1>2 DEF Placed
<1>4. Len(Leaves(f)) = 1
  BY <1>2, <1>3 DEF Gather
<1>5. Leaves(f)[1] \in Symbols
  BY <1>1, <1>3, <1>4
<1>6. lens' = [Zeros EXCEPT ![Leaves(f)[1]] = 1]
  BY <1>4 DEF Gather
<1> QED BY <1>5, <1>6 DEF LoneCode

LEMMA StepTogether ==
  ASSUME BuildInv, DecodeInv, Together, [TablesStep]_<<lens, lengthsVars, tableVars>>
  PROVE  BuildInv' /\ DecodeInv' /\ Together'
<1>1. CASE Lengthening /\ UNCHANGED tableVars
  <2>1. status = "idle"
    BY <1>1 DEF Together, Lengthening, Gather, Build, MergeTwo, Depths, Clamp, Lengthen, Lengthened,
                Shorten, UnderFull, Shortened, Deal
  <2>2. status' = "idle" /\ chunks' = chunks /\ next' = next /\ stack' = stack /\ dec' = dec
    BY <1>1, <2>1 DEF tableVars
  <2>3. BuildInv'
    BY <1>1, LengtheningBuilds
  <2>4. DecodeInv'
    <3>1. next = 1 /\ stack = <<>> /\ dec = Nothing
      BY <2>1 DEF DecodeInv, Tracks
    <3>2. PICK ls, cs : ls = lens' /\ cs = chunks
      OBVIOUS
    <3>3. Tracks("idle", cs, ls, next, stack, dec)
      BY <3>1 DEF Tracks, Decides
    <3> QED BY <2>2, <3>2, <3>3 DEF DecodeInv
  <2>5. phase' = "done" => NumUsed' >= 2 \/ LoneCode(lens')
    <3>1. CASE \E f \in [Symbols -> Nat] : Countable(f) /\ Gather(f)
      BY <3>1, GatherLone
    <3>2. CASE Build /\ phase' = "done"
      <4>1. phase \in Limiting /\ freq' = freq
        BY <3>2 DEF Build, MergeTwo, Depths, Clamp, Lengthen, Lengthened, Shorten, UnderFull, Shortened,
                    Deal, Limiting
      <4>2. NumUsed >= 2
        BY <4>1 DEF BuildInv
      <4>3. NumUsed' = NumUsed
        BY <4>1, SameUsed
      <4> QED BY <4>2, <4>3
    <3> QED BY <1>1, <3>1, <3>2 DEF Lengthening
  <2>6. LoneCode(lens)' <=> LoneCode(lens')
    BY DEF LoneCode
  <2> QED BY <2>2, <2>3, <2>4, <2>5, <2>6 DEF Together
<1>2. CASE BuiltHandedOver
  <2>1. phase = "done" /\ status = "idle" /\ UNCHANGED <<lens, lengthsVars>> /\ BuildDecodeCore(lens)
    BY <1>2 DEF BuiltHandedOver, BuildDecodeCore
  <2>2. phase' = "done" /\ NumUsed' = NumUsed /\ lens' = lens
    BY <2>1 DEF lengthsVars, NumUsed, Occurring
  <2>3. BuildInv'
    BY <2>1, IdleBuild
  <2>4. /\ \A s \in Symbols : lens[s] <= MaxLen
        /\ Used(lens) # {} /\ (Cardinality(Used(lens)) >= 2 => Complete(lens))
    BY <2>1, DoneLengths
  <2>5. lens \in [Symbols -> Nat]
    <3>1. CASE NumUsed >= 2
      BY <2>1, <3>1 DEF BuildInv, CompleteLens, Coding
    <3>2. CASE LoneCode(lens)
      BY <3>2 DEF LoneCode, Zeros
    <3> QED BY <2>1, <3>1, <3>2 DEF Together
  <2>6. DecodeInv'
    BY <2>1, <2>5, CallTracks
  <2>7. \A s \in Symbols : ~(lens[s] > MaxLen)
    <3> SUFFICES ASSUME NEW s \in Symbols PROVE ~(lens[s] > MaxLen)
      OBVIOUS
    <3>1. lens[s] \in Nat /\ lens[s] <= MaxLen /\ MaxLen \in Nat
      BY <2>4, <2>5, AlphabetAssumption
    <3> QED BY <3>1
  <2>8. status' \in {"gen", "ok"} /\ (status' = "gen" => Complete(lens))
    BY <2>1, <2>4, <2>7 DEF BuildDecodeCore
  <2>9. (status' = "gen" => Complete(lens')) /\ (NumUsed' >= 2 \/ LoneCode(lens'))
    BY <2>1, <2>2, <2>8 DEF Together
  <2> QED BY <2>2, <2>3, <2>6, <2>8, <2>9 DEF Together
<1>3. CASE Gen /\ UNCHANGED lengthsVars
  <2>1. status = "gen" /\ lens' = lens /\ phase = "done"
    BY <1>3 DEF Gen, Reject, TakeChunk, OpenNode, GoRight, CloseNode, Finish, Entering, Together
  <2>2. phase' = "done" /\ NumUsed' = NumUsed
    BY <1>3, <2>1 DEF lengthsVars, NumUsed, Occurring
  <2>3. BuildInv'
    BY <1>3, <2>1, IdleBuild
  <2>4. DecodeInv'
    BY <1>3, GenTracks
  <2>5. Complete(lens) /\ Building(chunks, lens, next, stack, dec)
    BY <2>1 DEF Together, DecodeInv, Tracks
  <2>6. ~Reject
    <3> SUFFICES ASSUME Reject PROVE FALSE
      OBVIOUS
    <3>1. PICK f : f = stack[Len(stack)]
      OBVIOUS
    <3>2. /\ stack # <<>> /\ f.pc = "call"
          /\ ~(next <= Len(chunks) /\ f.depth <= MaxLen /\ chunks[next].depth >= f.depth)
      BY <3>1 DEF Reject, Entering, InOrder, Top
    <3>3. ~Complete(lens)
      BY <2>5, <3>1, <3>2, RejectsRightly
    <3> QED BY <2>5, <3>3
  <2>7. status' \in {"gen", "ok"}
    <3>1. CASE Finish
      <4>1. stack = <<>> /\ status' = Verdict
        BY <3>1 DEF Finish
      <4>2. next = Len(chunks) + 1
        BY <2>5, <4>1, FinishesRightly
      <4> QED BY <4>1, <4>2 DEF Verdict
    <3>2. CASE TakeChunk \/ OpenNode \/ GoRight \/ CloseNode
      BY <2>1, <3>2 DEF TakeChunk, OpenNode, GoRight, CloseNode
    <3> QED BY <1>3, <2>6, <3>1, <3>2 DEF Gen
  <2>8. Complete(lens') /\ (NumUsed' >= 2 \/ LoneCode(lens'))
    BY <2>1, <2>2, <2>5 DEF Together
  <2> QED BY <2>2, <2>3, <2>4, <2>7, <2>8 DEF Together
<1>4. CASE UNCHANGED <<lens, lengthsVars, tableVars>>
  <2>1. /\ UNCHANGED <<lens, lengthsVars>> /\ lens' = lens /\ phase' = phase /\ freq' = freq
        /\ status' = status /\ chunks' = chunks /\ next' = next /\ stack' = stack /\ dec' = dec
    BY <1>4 DEF lengthsVars, tableVars
  <2>2. BuildInv'
    BY <2>1, IdleBuild
  <2>3. DecodeInv'
    BY <2>1 DEF DecodeInv
  <2>4. NumUsed' = NumUsed
    BY <2>1 DEF NumUsed, Occurring
  <2> QED BY <2>1, <2>2, <2>3, <2>4 DEF Together
<1> QED BY <1>1, <1>2, <1>3, <1>4 DEF TablesStep

\* The decoder's build of lengths that are done has not refused them, nor found no symbol in
\* them.
BuiltNeverRefused == phase = "done" => status # "corrupt" /\ status # "empty"

\* From any countable frequencies, those that total less than Fib[Bins + 2], what
\* pivco_build_table makes of them before the joint pass are lengths that pivco_build_decode_core takes.
THEOREM BuiltLengthsAccepted == TablesSpec => []BuiltNeverRefused
<1> DEFINE I == BuildInv /\ DecodeInv /\ Together
<1>1. TablesInit => I
  BY InitBuild, DecodeStarts DEF TablesInit, LengthsInit, TableInit, Together
<1>2. I /\ [TablesStep]_<<lens, lengthsVars, tableVars>> => I'
  BY StepTogether
<1>3. I => BuiltNeverRefused
  BY DEF Together, BuiltNeverRefused
<1> QED BY <1>1, <1>2, <1>3, PTL DEF TablesSpec
=============================================================================
