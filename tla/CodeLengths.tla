----------------------------- MODULE CodeLengths -----------------------------
(***************************************************************************)
(* From symbol frequencies to code lengths (pivco_build_table in           *)
(* src/huffman_table.c): the two-queue Huffman construction and, when the  *)
(* tree is deeper than a code may be, the limiter.  The limiter works on   *)
(* the counts per length only: it clamps, lengthens codes until they fit,  *)
(* shortens codes to use up what that freed, and deals the lengths out     *)
(* again.                                                                  *)
(***************************************************************************)
EXTENDS Alphabet, Sequences, SequencesExt

CONSTANT Bins      \* the limiter counts lengths below Bins (64: int count[64])

\* 256 symbols always fit into codes of 11 bits, and every length of a code has its bin.
ASSUME LimitAssumption == Cardinality(Symbols) <= 2^MaxLen
ASSUME BinsAssumption == Bins \in Nat /\ MaxLen < Bins

VARIABLES freq,    \* the caller's frequencies
          phase,   \* idle, merge, limit, over, under, deal, done or empty
          li, ih,  \* heads of the leaf queue and of the internal queue
          nfreq,   \* weights: the sorted leaves, then the internal nodes
          parent,  \* parent of each node that was merged
          count,   \* limiter: codes per length
          kraft    \* limiter: Kraft sum in units of 2^-MaxLen

lengthsVars == <<freq, phase, li, ih, nfreq, parent, count, kraft>>

-----------------------------------------------------------------------------
Occurring == {s \in Symbols : freq[s] > 0}
NumUsed == Cardinality(Occurring)
Target  == 2^MaxLen

\* sort_leaves_by_freq: a stable sort of the used symbols.
Before(f, s, t) == f[s] < f[t] \/ (f[s] = f[t] /\ s <= t)
Leaves(f) ==
  LET U == {s \in Symbols : f[s] > 0}
  IN  [i \in 1 .. Cardinality(U) |->
         CHOOSE s \in U : Cardinality({t \in U : Before(f, t, s)}) = i]

NoCount == [l \in 1 .. MaxLen |-> 0]

\* A leaf at depth d of a Huffman tree needs a total of at least Fib[d + 2], so that the
\* lengths of countable frequencies all have a bin.  The code checks no total: with 64
\* bins the frequencies may sum to 2.7 * 10^13.
Fib[d \in 0 .. (Bins + 2)] == IF d < 2 THEN d ELSE Fib[d - 1] + Fib[d - 2]
Countable(f) == MapThenSumSet(LAMBDA s : f[s], Symbols) < Fib[Bins + 2]

LengthsInit ==
  /\ freq = Zeros /\ phase = "idle" /\ li = 1 /\ ih = 1
  /\ nfreq = <<>> /\ parent = <<>> /\ count = NoCount /\ kraft = 0

\* pivco_build_table: gather the used symbols.
Gather(f) ==
  /\ phase = "idle"
  /\ freq' = f
  /\ LET leaf == Leaves(f)
         n == Len(leaf)
     IN  /\ phase' = CASE n = 0 -> "empty" [] n = 1 -> "done" [] OTHER -> "merge"
         /\ lens' = IF n = 1 THEN [Zeros EXCEPT ![leaf[1]] = 1] ELSE Zeros
         /\ nfreq' = [i \in 1 .. n |-> f[leaf[i]]]
         /\ parent' = [i \in 1 .. (2 * n - 1) |-> 0]
         /\ ih' = n + 1
  /\ UNCHANGED <<li, count, kraft>>

\* Mutant: the heavier head, the comparison turned round.
LeafNextHeavy(l, h) ==
  l <= NumUsed /\ (h > Len(nfreq) \/ nfreq[l] >= nfreq[h])

\* Mutant: a leaf wins over an internal node only when it is lighter by two.
LeafNextLate(l, h) ==
  l <= NumUsed /\ (h > Len(nfreq) \/ nfreq[l] + 1 < nfreq[h])

\* The lighter head of the two queues; a leaf wins a tie.
LeafNext(l, h) ==
  l <= NumUsed /\ (IF h > Len(nfreq) THEN TRUE ELSE nfreq[l] <= nfreq[h])

MergeTwo ==
  /\ phase = "merge" /\ Len(nfreq) < 2 * NumUsed - 1
  /\ LET a  == IF LeafNext(li, ih) THEN li ELSE ih
         l1 == IF LeafNext(li, ih) THEN li + 1 ELSE li
         h1 == IF LeafNext(li, ih) THEN ih ELSE ih + 1
         b  == IF LeafNext(l1, h1) THEN l1 ELSE h1
     IN  /\ li' = IF LeafNext(l1, h1) THEN l1 + 1 ELSE l1
         /\ ih' = IF LeafNext(l1, h1) THEN h1 ELSE h1 + 1
         /\ nfreq' = Append(nfreq, nfreq[a] + nfreq[b])
         /\ parent' = [parent EXCEPT ![a] = Len(nfreq) + 1, ![b] = Len(nfreq) + 1]
  /\ UNCHANGED <<freq, phase, lens, count, kraft>>

\* Depths from the root down, the parent's index always being the larger one.
Depth == LET d[i \in 1 .. (2 * NumUsed - 1)] ==
               IF i = 2 * NumUsed - 1 THEN 0 ELSE d[parent[i]] + 1
         IN  d

Depths ==
  /\ phase = "merge" /\ Len(nfreq) = 2 * NumUsed - 1
  /\ LET leaf == Leaves(freq)
     IN  lens' = [s \in Symbols |->
                    IF s \in Occurring THEN Depth[CHOOSE i \in DOMAIN leaf : leaf[i] = s] ELSE 0]
  /\ phase' = "limit"
  /\ UNCHANGED <<freq, li, ih, nfreq, parent, count, kraft>>

-----------------------------------------------------------------------------
\* limit_code_lengths

KraftOf(c) == MapThenSumSet(LAMBDA l : c[l] * 2^(MaxLen - l), 1 .. MaxLen)

Clamped(l) == IF l > MaxLen THEN MaxLen ELSE l
\* The counts per length, the long ones moved down to MaxLen.  A length that has no bin is
\* counted past the end of the arrays, and the counts may then be anything.
Binned == \A s \in Symbols : lens[s] < Bins
LengthCounts == [l \in 1 .. MaxLen |-> Cardinality({s \in Occurring : Clamped(lens[s]) = l})]
Histograms == IF Binned THEN {LengthCounts} ELSE [1 .. MaxLen -> 0 .. Cardinality(Symbols)]

Clamp ==
  /\ phase = "limit"
  /\ \E c \in Histograms :
       LET deep == \E s \in Occurring : lens[s] > MaxLen
       IN  /\ phase' = IF deep THEN "over" ELSE "done"
           /\ count' = IF deep THEN c ELSE count
           /\ kraft' = IF deep THEN KraftOf(c) ELSE kraft
  /\ UNCHANGED <<freq, li, ih, nfreq, parent, lens>>

Move(c, from, to) == [c EXCEPT ![from] = @ - 1, ![to] = @ + 1]
Shorter(c) == {l \in 1 .. (MaxLen - 1) : c[l] > 0}

\* Mutant: what a move by one length frees, one power of two off.
FreedTwice(l) == 2^(MaxLen - l)

\* Lengthening one code of length l by one frees this much.
Freed(l) == 2^(MaxLen - l - 1)

\* One turn of the first loop: the longest code that can still grow grows.
Lengthen ==
  /\ phase = "over" /\ kraft > Target /\ Shorter(count) # {}
  /\ LET best == Max(Shorter(count))
     IN  /\ count' = Move(count, best, best + 1)
         /\ kraft' = kraft - Freed(best)
  /\ UNCHANGED <<freq, phase, li, ih, nfreq, parent, lens>>

\* The loop's end; the break that "shouldn't happen" included.
Lengthened ==
  /\ phase = "over" /\ (kraft <= Target \/ Shorter(count) = {})
  /\ phase' = "under"
  /\ UNCHANGED <<freq, li, ih, nfreq, parent, lens, count, kraft>>

\* One turn of the second loop: the longest length some code of length MaxLen can
\* move up to, then one more code by a single step.
Fitting == {l \in 1 .. (MaxLen - 1) : kraft + 2^(MaxLen - l) - 1 <= Target}
UnderFull == phase = "under" /\ kraft < Target /\ count[MaxLen] > 0

\* Mutant: the second step takes the code back that the first moved up.
StepBack(c, k) == <<Move(c, MaxLen - 1, MaxLen), k - 1>>

\* One code of length MaxLen moves up by one.
StepUp(c, k) == <<Move(c, MaxLen, MaxLen - 1), k + 1>>

Shorten ==
  /\ UnderFull
  /\ LET l  == Max(Fitting)
         c1 == IF Fitting = {} THEN count ELSE Move(count, MaxLen, l)
         k1 == IF Fitting = {} THEN kraft ELSE kraft + 2^(MaxLen - l) - 1
         again == k1 < Target /\ k1 + 1 <= Target /\ c1[MaxLen] >= 2
     IN  /\ count' = IF again THEN StepUp(c1, k1)[1] ELSE c1
         /\ kraft' = IF again THEN StepUp(c1, k1)[2] ELSE k1
         \* break: under-full, and at most one code of the longest length left
         /\ phase' = IF k1 < Target /\ ~again THEN "deal" ELSE "under"
  /\ UNCHANGED <<freq, li, ih, nfreq, parent, lens>>

Shortened ==
  /\ phase = "under" /\ ~UnderFull
  /\ phase' = "deal"
  /\ UNCHANGED <<freq, li, ih, nfreq, parent, lens, count, kraft>>

\* Mutant: the lengths are dealt out in symbol order.
DealtBeforeBySymbol(s, t) == s <= t

\* The new lengths go out shortest first, to the symbols by their old length.
DealtBefore(s, t) ==
  Clamped(lens[s]) < Clamped(lens[t]) \/ (Clamped(lens[s]) = Clamped(lens[t]) /\ s <= t)

Deal ==
  /\ phase = "deal"
  /\ LET place(s) == Cardinality({t \in Occurring : DealtBefore(t, s)})
         upTo(l)  == MapThenSumSet(LAMBDA k : count[k], 1 .. l)
     IN  lens' = [s \in Symbols |->
                    IF s \notin Occurring THEN 0
                    ELSE CHOOSE l \in 1 .. MaxLen : upTo(l - 1) < place(s) /\ place(s) <= upTo(l)]
  /\ phase' = "done"
  /\ UNCHANGED <<freq, li, ih, nfreq, parent, count, kraft>>

Build == MergeTwo \/ Depths \/ Clamp \/ Lengthen \/ Lengthened \/ Shorten \/ Shortened \/ Deal

-----------------------------------------------------------------------------
\* Properties

LengthsTypeOK ==
  /\ freq \in [Symbols -> Nat]
  /\ phase \in {"idle", "merge", "limit", "over", "under", "deal", "done", "empty"}
  /\ li \in 1 .. (NumUsed + 1) /\ ih \in 1 .. (Len(nfreq) + 1)
  /\ Len(nfreq) <= 2 * Cardinality(Symbols)
  /\ count \in [1 .. MaxLen -> 0 .. Cardinality(Symbols)]
  /\ kraft \in Nat

\* Two queues do instead of a heap because internal nodes come out in order: no
\* internal node is lighter than an earlier one.
QueueSorted ==
  phase = "merge" =>
    \A i, j \in (NumUsed + 1) .. Len(nfreq) : i <= j => nfreq[i] <= nfreq[j]

\* "support original lengths up to 63" (comment at count[64]): no tree the merge loop builds
\* is deeper than the limiter's bins reach.
BinsSuffice == phase = "limit" => Binned

\* What the limiter's loops count is what they hold: the codes of all used symbols
\* and their Kraft sum.
Accounting ==
  phase \in {"over", "under", "deal"} =>
    /\ kraft = KraftOf(count)
    /\ MapThenSumSet(LAMBDA l : count[l], 1 .. MaxLen) = NumUsed

\* Every table of two symbols or more is a complete code of at most MaxLen bits,
\* which is what the decoder's build insists on, with a code for every used symbol.
CompleteCode ==
  phase = "done" /\ NumUsed >= 2 =>
    /\ \A s \in Symbols : lens[s] <= MaxLen /\ (s \in Occurring => lens[s] > 0)
    /\ MapThenSumSet(LAMBDA s : 2^(MaxLen - lens[s]), {s \in Symbols : lens[s] > 0}) = Target

\* "Assign shortest new lengths to the most frequent symbols" (comment in
\* limit_code_lengths): no symbol has a longer code than a rarer one.
RareIsLonger ==
  phase = "done" => \A s, t \in Occurring : freq[s] > freq[t] => lens[s] <= lens[t]

\* What the limiter keeps is the order of the lengths it clamped: a symbol that had
\* the shorter code of at most MaxLen bits never ends up with the longer one.
OrderKept ==
  [][phase = "deal" =>
       \A s, t \in Occurring :
         Clamped(lens[s]) < Clamped(lens[t]) => lens'[s] <= lens'[t]]_lengthsVars

\* Before the limiter the lengths are optimal: no complete code over the same
\* symbols, given to the leaves in sorted order, costs less.
Cost(ls) == MapThenSumSet(LAMBDA s : freq[s] * ls[s], Occurring)
\* The complete codes of n leaves, the longest first: each is one of n - 1 leaves in
\* which a leaf becomes two of the longest.
CompleteCodes[n \in 1 .. Cardinality(Symbols)] ==
  IF n = 1 THEN {<<0>>}
  ELSE {<<wi[1][wi[2]] + 1, wi[1][wi[2]] + 1>> \o RemoveAt(wi[1], wi[2]) :
          wi \in {wi \in CompleteCodes[n - 1] \X (1 .. n - 1) : wi[1][wi[2]] + 1 >= wi[1][1]}}
OptimalBeforeLimit ==
  phase = "limit" =>
    LET leaf == Leaves(freq)
    IN  \A w \in CompleteCodes[NumUsed] :
          Cost(lens) <= MapThenSumSet(LAMBDA i : freq[leaf[i]] * w[i], DOMAIN w)

\* The two queues build what a heap would: an optimal code.
TwoQueues == LengthsTypeOK /\ QueueSorted /\ OptimalBeforeLimit

\* The limiter's books are right on the way and its code complete at the end.
LimiterSound == Accounting /\ CompleteCode
=============================================================================
