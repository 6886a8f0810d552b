---------------------------- MODULE JointLengths ----------------------------
(***************************************************************************)
(* The joint length and shape pass of pivco_build_table                    *)
(* (src/joint_lengths.c): the lengths are bent so that the decoder gets    *)
(* fewer and larger flat chunks.  A chunk <<L, b>> is 2^b symbols of       *)
(* length L under one root; a shape is a set of chunks whose roots fill    *)
(* the code space.  Its price for symbols dealt in order of frequency is   *)
(* minimised by a dynamic program over (symbols placed, slots open), level *)
(* by level, in one plane of rows of diagonals.  A guard then compares the *)
(* shape with the lengths there were; its time model is any.               *)
(*                                                                         *)
(* Prices are in units of 1/Passes bits, so that they are integers.        *)
(***************************************************************************)
EXTENDS CodeLengths

CONSTANTS MaxFlat,     \* JL_MAX_FLAT: 8
          Passes,      \* 1 / lambda: merge passes worth a bit, 10
          Gamma,       \* decode cost of a schedule record over all blocks, in merge passes
          FewSymbols, MoreSymbols,  \* where the tiers change: 64 and 128
          MinGroups,   \* groups a grouped solve needs: 8
          FreqMax      \* UINT32_MAX: heavier symbols weigh no more
ASSUME JointAssumption ==
  /\ {MaxFlat, Passes, FewSymbols, MoreSymbols, MinGroups, FreqMax} \subseteq Nat \ {0} /\ Gamma \in Nat
  /\ Cardinality(Symbols) % 8 = 0  \* no grouping runs out of unused symbols

VARIABLES effort, \* pivco_cfg_t.effort
          stage,  \* idle, solve, take, double, backtrack, deal, kept or adopted
          engine, \* registers or scalar: the form of the row sweeps
          order,  \* sf: the symbols, heaviest first, ghosts last
          P,      \* occurrences, saturated, of the first symbols of order, by their number
          glog,   \* log2 of the symbols in a group
          level,  \* L
          plane,  \* cost: least price by diagonal and compact index
          picks,  \* arch: for each level, the chunk sizes taken on the way to a cell
          shape   \* the chunks chosen
jointVars == <<effort, stage, engine, order, P, glog, level, plane, picks, shape>>

-----------------------------------------------------------------------------
Efforts == {"plain", "balanced", "faster_decompress", "fastest_decompress"}

Stages == {"idle", "solve", "take", "double", "backtrack", "deal", "kept", "adopted"}

\* The grouping an effort asks for, and none where it would leave too few groups.
Wanted(n) ==
  LET size == IF n <= FewSymbols THEN 0 ELSE IF n <= MoreSymbols THEN 1 ELSE 2
  IN  CASE effort = "fastest_decompress" -> 0
        [] effort = "faster_decompress"  -> size
        [] OTHER                         -> size + 1
\* dp_take_order: chunks in order of price are in order of length.
OrderHolds(g) == MaxFlat - g <= Passes + 1
Tier(n) ==
  LET g == Wanted(n)
  IN  IF g > 0 /\ (n < MinGroups * 2^g \/ ~OrderHolds(g)) THEN 0 ELSE g

Least(a, b) == IF a < b THEN a ELSE b
Most(a, b)  == IF a > b THEN a ELSE b

\* The pass sees frequencies that saturate: among the heaviest it loses their order.
Weight == [s \in Symbols |-> Least(freq[s], FreqMax)]

\* Heaviest first; unused symbols fill up the last group.
Ordered(g) ==
  LET leaf == Leaves(Weight)
      free == Symbols \ Occurring
      unused == [i \in 1 .. Cardinality(free) |-> CHOOSE s \in free : Cardinality({t \in free : t <= s}) = i]
  IN  Reverse(leaf) \o SubSeq(unused, 1, (2^g - (Len(leaf) % 2^g)) % 2^g)

\* The problem solved has groups for symbols, and levels and sizes shifted.
sigma == Len(order) \div 2^glog
lmax  == MaxLen - glog
bcap  == MaxFlat - glog
\* The occurrences of the first k groups.
Prefix(k) == P[k * 2^glog]

\* What an occurrence costs at level L in a chunk of depth b, and what a chunk does: the
\* record of a merge, and one of its own unless it is a lone leaf.
PerUse(L, b) == Passes * L + (L - b)
PerChunk(b) == IF b = 0 /\ glog = 0 THEN Gamma ELSE 2 * Gamma
\* The 2^b groups after the first k as one chunk at level L.
ChunkPrice(L, b, k) ==
  PerChunk(b) + (IF k + 2^b <= sigma THEN PerUse(L, b) * (Prefix(k + 2^b) - Prefix(k)) ELSE 0)

-----------------------------------------------------------------------------
\* The plane.  Row t is the diagonal of k groups placed and t - k slots open; index j of it
\* is k = 2 j + t % 2.  Memory nobody wrote holds a price no real one can beat.
Unpriced == 10^6
Unwritten == -Unpriced
Plus(c, d) == IF c = Unpriced THEN c ELSE c + d

Lanes == 0 .. ((sigma \div 2 + 5) \div 4) * 4 - 1
Below(L) == lmax - L
\* tlo and thi: a level's diagonals.
Band(L) == Most(1, (sigma + 2^Below(L) - 1) \div 2^Below(L)) .. Least(2^L, sigma)

\* dp_row_cap: the largest index from which the slots left, h levels above the deepest, can
\* still take every symbol.
RowCap(t, h) ==
  LET kcap == IF h = 0 THEN t ELSE Least(t, (t * 2^h - sigma) \div (2^h - 1))
  IN  IF (h > 0 /\ t * 2^h < sigma) \/ kcap < t % 2 THEN -1 ELSE (kcap - (t % 2)) \div 2

JointInit ==
  /\ effort = "plain" /\ stage = "idle" /\ engine = "scalar" /\ order = <<>> /\ P = <<>> /\ glog = 0
  /\ level = 0 /\ plane = <<>> /\ picks = <<>> /\ shape = {}

\* pivco_build_table calls the pass last.
Called == phase = "done" /\ stage = "idle"
Skip ==
  /\ Called /\ (effort = "plain" \/ NumUsed < 2)
  /\ stage' = "kept"
  /\ UNCHANGED <<effort, engine, order, P, glog, level, plane, picks, shape>>

Collect ==
  /\ Called /\ effort # "plain" /\ NumUsed >= 2
  /\ glog' = Tier(NumUsed)
  /\ order' = Ordered(glog')
  /\ P' = LET sum[k \in 0 .. Len(order')] == IF k = 0 THEN 0 ELSE sum[k - 1] + Weight[order'[k]]
          IN  sum
  /\ stage' = "solve"
  /\ UNCHANGED <<effort, engine, level, plane, picks, shape>>

\* Only the rows of the first level are cleared.
Prime ==
  /\ stage = "solve" /\ OrderHolds(glog)
  /\ engine' \in {"registers", "scalar"}
  /\ plane' = [t \in 0 .. sigma |->
                 [j \in Lanes |-> IF t \notin Band(1) THEN Unwritten
                                  ELSE IF t = 2 /\ j = 0 THEN 0 ELSE Unpriced]]
  /\ level' = 1 /\ stage' = "take"
  /\ UNCHANGED <<effort, order, P, glog, picks, shape>>

\* No memory for the plane, or prices that are not in order of length.
GiveUp ==
  /\ stage = "solve"
  /\ stage' = "kept"
  /\ UNCHANGED <<effort, engine, order, P, glog, level, plane, picks, shape>>

\* Taking a chunk of 2^b groups from the cells of a row, each candidate from what its
\* source was before.
Taken(row, t, b, sources) ==
  LET step == 2^(b - 1)
      cand == [j \in sources |-> Plus(row.cost[j], ChunkPrice(level, b, 2 * j + (t % 2)))]
      better == {j \in Lanes : j - step \in sources /\ (j >= step => cand[j - step] < row.cost[j])}
  IN  [cost |-> [j \in Lanes |-> IF j \in better THEN cand[j - step] ELSE row.cost[j]],
       took |-> [j \in Lanes |-> IF j \in better THEN row.took[j - step] \cup {b} ELSE row.took[j]]]
\* The register sweep takes from every lane of the row, also beyond its cap.
RegisterSweep(row, t, b) ==
  IF RowCap(t, Below(level)) < 2^(b - 1) THEN row ELSE Taken(row, t, b, Lanes)
\* The sweep in memory stops where the target is the cap.
MemorySweep(row, t, b) == Taken(row, t, b, 0 .. RowCap(t, Below(level)) - 2^(b - 1))
\* Larger chunks are the cheaper ones.
TakeOrder == LET n == Least(level, bcap) IN [i \in 1 .. n |-> n + 1 - i]
Swept(t) == FoldLeft(LAMBDA row, b : IF engine = "registers" THEN RegisterSweep(row, t, b)
                                                            ELSE MemorySweep(row, t, b),
                     [cost |-> plane[t], took |-> [j \in Lanes |-> {}]], TakeOrder)

TakeLevel ==
  /\ stage = "take"
  /\ LET swept == [t \in Band(level) |-> Swept(t)]
     IN  /\ plane' = [t \in DOMAIN plane |-> IF t \in Band(level) THEN swept[t].cost ELSE plane[t]]
         /\ picks' = Append(picks, [t \in Band(level) |-> swept[t].took])
  /\ stage' = IF level = lmax THEN "backtrack" ELSE "double"
  /\ UNCHANGED <<effort, engine, order, P, glog, level, shape>>

\* Each slot left becomes two of the next level, after a lone leaf where the number of
\* slots is odd.
DoubledRow(rows, t) ==
  LET from(j) == (t + (t % 2)) \div 2 + j
      k(j) == 2 * j + (t % 2)
      lone(j) == (from(j) + k(j)) % 2
      source(j) == rows[from(j)][(k(j) - lone(j) - (from(j) % 2)) \div 2]
      cell(j) == IF from(j) \notin Band(level) \/ k(j) < lone(j) THEN Unpriced
                 ELSE IF lone(j) = 0 THEN source(j)
                 ELSE Plus(source(j), ChunkPrice(level, 0, k(j) - 1))
  IN  [j \in Lanes |-> IF j <= RowCap(t, Below(level + 1)) THEN cell(j) ELSE rows[t][j]]
\* Mutant: the other way round.
RowsUp == SetToSortSeq(Band(level + 1), LAMBDA t, u : t < u)

\* In place, so from the last row on: sources lie on earlier ones.
RowsDown == SetToSortSeq(Band(level + 1), LAMBDA t, u : t > u)

DoubleLevel ==
  /\ stage = "double"
  /\ plane' = FoldLeft(LAMBDA rows, t : [rows EXCEPT ![t] = DoubledRow(rows, t)], plane, RowsDown)
  /\ level' = level + 1 /\ stage' = "take"
  /\ UNCHANGED <<effort, engine, order, P, glog, picks, shape>>

\* The price of the shape: every group placed, no slot open.
Best == plane[sigma][(sigma - (sigma % 2)) \div 2]

\* What the trail says was taken at level L on the way to k placed and s open.
TookAt(L, k, s) ==
  LET t == k + s
      lone == s % 2
  IN  picks[L][t][(k - lone - (t % 2)) \div 2] \cup {0 : i \in 1 .. lone}
SizeOf(sizes) == MapThenSumSet(LAMBDA b : 2^b, sizes)

Backtrack ==
  /\ stage = "backtrack"
  /\ IF Best = Unpriced THEN stage' = "kept" /\ UNCHANGED shape
     ELSE LET back == FoldLeft(
                LAMBDA at, L : LET took == TookAt(L, at.k, at.s)
                                   s == at.s + SizeOf(took)
                               IN  [k |-> at.k - SizeOf(took), s |-> IF L > 1 THEN s \div 2 ELSE s,
                                    chunks |-> at.chunks \cup {<<L + glog, b + glog>> : b \in took}],
                [k |-> sigma, s |-> 0, chunks |-> {}], [i \in 1 .. lmax |-> lmax + 1 - i])
          IN  shape' = back.chunks /\ stage' = "deal"
  /\ UNCHANGED <<effort, engine, order, P, glog, level, plane, picks>>

-----------------------------------------------------------------------------
\* The deal and the guard.

\* Chunks in order of price, of equal ones the shorter, then the larger.
Cheaper(c, d) ==
  \/ PerUse(c[1], c[2]) < PerUse(d[1], d[2])
  \/ PerUse(c[1], c[2]) = PerUse(d[1], d[2]) /\ (c[1] < d[1] \/ (c[1] = d[1] /\ c[2] > d[2]))
\* Symbols dealt before a chunk, and the chunk the i-th symbol falls into.
DealtTo(c) == MapThenSumSet(LAMBDA d : 2^d[2], {d \in shape : Cheaper(d, c)})
ChunkAt(i) == CHOOSE c \in shape : DealtTo(c) < i /\ i <= DealtTo(c) + 2^c[2]
Candidate ==
  [s \in Symbols |-> IF \E i \in DOMAIN order : order[i] = s
                     THEN ChunkAt(CHOOSE i \in DOMAIN order : order[i] = s)[1] ELSE lens[s]]

BitsWith(ls) == MapThenSumSet(LAMBDA s : Weight[s] * ls[s], Occurring)
\* guard_bits: at most one and a half percent more.
FewBits(ls) == 1000 * BitsWith(ls) <= 1015 * BitsWith(lens)

Guard ==
  /\ stage = "deal"
  /\ \/ lens' = Candidate /\ FewBits(Candidate) /\ stage' = "adopted"
     \/ stage' = "kept" /\ UNCHANGED lens
  /\ UNCHANGED <<effort, engine, order, P, glog, level, plane, picks, shape>>

\* Only the guard touches the lengths.
Bend ==
  \/ Guard
  \/ (Skip \/ Collect \/ Prime \/ GiveUp \/ TakeLevel \/ DoubleLevel \/ Backtrack) /\ UNCHANGED lens

-----------------------------------------------------------------------------
\* Properties

\* The price of the shape with counts[L] groups at level L, level by level with the
\* largest chunk first, when groups are dealt out in order of price.
Counts(w) == [L \in 1 .. lmax |-> Cardinality({i \in DOMAIN w : w[i] = L})]
ChunksOf(counts) == {c \in (1 .. lmax) \X (0 .. bcap) : (counts[c[1]] \div 2^c[2]) % 2 = 1}
Dearness(c) == <<Passes * c[1] + (c[1] - c[2]), c[1], bcap - c[2]>>
Precedes(c, d) == \E i \in 1 .. 3 : Dearness(c)[i] < Dearness(d)[i]
                                   /\ \A h \in 1 .. (i - 1) : Dearness(c)[h] = Dearness(d)[h]
PriceOf(chunks) ==
  MapThenSumSet(
    LAMBDA c : LET k == MapThenSumSet(LAMBDA d : 2^d[2], {d \in chunks : Precedes(d, c)})
               IN  (IF c[2] = 0 /\ glog = 0 THEN Gamma ELSE 2 * Gamma)
                   + Dearness(c)[1] * (Prefix(k + 2^c[2]) - Prefix(k)),
    chunks)
Shapes == {w \in CompleteCodes[sigma] : w[1] <= lmax /\ \A L \in 1 .. lmax : Counts(w)[L] < 2^(bcap + 1)}

\* In spite of pruned rows, rewritten planes and lanes nobody initialised, the program
\* ends with the least price there is, and the trail leads to a shape of that price.
CheapestShape ==
  /\ stage = "backtrack" => \A w \in Shapes : Best <= PriceOf(ChunksOf(Counts(w)))
  /\ stage = "deal" => PriceOf({<<c[1] - glog, c[2] - glog>> : c \in shape}) = Best

\* Lengths that take the place of others are a complete code of every symbol that occurs
\* and of fewer ghosts than a group has symbols, no code longer than allowed and, of
\* saturated frequencies, at most one and a half percent more bits; and a pass that gives up leaves the lengths alone.
BoundedBend ==
  [][stage' \in {"adopted", "kept"} /\ stage' # stage =>
       /\ stage' = "kept" => lens' = lens
       /\ \A s \in Occurring : lens'[s] > 0
       /\ \A s \in Symbols : lens'[s] <= MaxLen
       /\ LET coded == {s \in Symbols : lens'[s] > 0}
          IN  /\ NumUsed >= 2 => MapThenSumSet(LAMBDA s : 2^(MaxLen - lens'[s]), coded) = Target
              /\ Cardinality(coded \ Occurring) < 2^glog'
       /\ MapThenSumSet(LAMBDA s : 1000 * Weight[s] * lens'[s], Occurring)
            <= MapThenSumSet(LAMBDA s : 1015 * Weight[s] * lens[s], Occurring)]_<<lens, stage>>
=============================================================================
