----------------------------- MODULE FiniteSums -----------------------------
(***************************************************************************)
(* Facts the proofs share: induction in the form of a set, sums over       *)
(* finite sets, as MapThenSumSet computes them, and powers of two.         *)
(***************************************************************************)
EXTENDS Integers, FiniteSetsExt, FiniteSetTheorems, WellFoundedInduction, TLAPS

-----------------------------------------------------------------------------
\* A set that holds 0 and the successors of its members holds every number.
LEMMA NatInduction0 ==
  ASSUME NEW S, 0 \in S, \A n \in Nat : n \in S => n + 1 \in S
  PROVE  \A n \in Nat : n \in S
<1> DEFINE T == Nat \ S
           R == OpToRel(<, Nat)
<1>1. SUFFICES ASSUME T # {} PROVE FALSE
  OBVIOUS
<1>2. T \subseteq Nat /\ IsWellFoundedOn(R, Nat)
  BY NatLessThanWellFounded
<1>3. \A y, x \in Nat : y < x => <<y, x>> \in R
  BY DEF OpToRel
<1>4. PICK x \in T : \A y \in T : <<y, x>> \notin R
  <2> HIDE DEF T, R
  <2> QED BY <1>1, <1>2, WFMin
<1>5. x \in Nat /\ x \notin S /\ x # 0
  OBVIOUS
<1>6. x - 1 \in Nat /\ x - 1 < x /\ (x - 1) + 1 = x
  BY <1>5
<1>7. x - 1 \notin T
  <2> HIDE DEF R
  <2> QED BY <1>3, <1>4, <1>5, <1>6
<1> QED BY <1>5, <1>6, <1>7

\* A set that holds, of the subsets of a finite set, each whose proper subsets it holds,
\* holds them all.
LEMMA SubsetInduction ==
  ASSUME NEW S, IsFiniteSet(S), NEW U,
         \A T \in SUBSET S : (\A V \in SUBSET T : V # T => V \in U) => T \in U
  PROVE  \A T \in SUBSET S : T \in U
<1> DEFINE W == {n \in Nat : \A T \in SUBSET S : Cardinality(T) <= n => T \in U}
<1>0. \A T \in SUBSET S : IsFiniteSet(T) /\ Cardinality(T) \in Nat
  BY FS_Subset, FS_CardinalityType
<1>1. \A T \in SUBSET S : \A V \in SUBSET T :
         V # T => Cardinality(V) < Cardinality(T) /\ V \in SUBSET S
  <2> SUFFICES ASSUME NEW T \in SUBSET S, NEW V \in SUBSET T, V # T
               PROVE  Cardinality(V) < Cardinality(T) /\ V \in SUBSET S
    OBVIOUS
  <2>1. Cardinality(V) <= Cardinality(T) /\ Cardinality(V) # Cardinality(T)
    BY <1>0, FS_Subset
  <2>2. V \in SUBSET S
    OBVIOUS
  <2> QED BY <1>0, <2>1, <2>2
<1>2. 0 \in W
  <2>1. SUFFICES ASSUME NEW T \in SUBSET S, Cardinality(T) <= 0 PROVE T \in U
    OBVIOUS
  <2>2. ASSUME NEW V \in SUBSET T, V # T PROVE FALSE
    <3>1. Cardinality(V) < Cardinality(T) /\ V \in SUBSET S
      BY <1>1, <2>2
    <3> QED BY <1>0, <2>1, <3>1
  <2> QED BY <2>2
<1>3. ASSUME NEW n \in Nat, n \in W PROVE n + 1 \in W
  <2>1. SUFFICES ASSUME NEW T \in SUBSET S, Cardinality(T) <= n + 1 PROVE T \in U
    BY <1>3
  <2>2. ASSUME NEW V \in SUBSET T, V # T PROVE V \in U
    <3>1. Cardinality(V) < Cardinality(T) /\ V \in SUBSET S
      BY <1>1, <2>2
    <3>2. Cardinality(V) <= n
      BY <1>0, <2>1, <3>1
    <3> QED BY <1>3, <3>1, <3>2
  <2> QED BY <2>2
<1>4. \A n \in Nat : n \in W
  <2> HIDE DEF W
  <2> QED BY <1>2, <1>3, NatInduction0
<1> QED
  <2>1. SUFFICES ASSUME NEW T \in SUBSET S PROVE T \in U
    OBVIOUS
  <2>2. Cardinality(T) \in W /\ Cardinality(T) <= Cardinality(T)
    BY <1>0, <1>4
  <2> QED BY <2>2

-----------------------------------------------------------------------------
\* h sums g over the subsets of S the way MapThenSumSet does.
Picked(s) == CHOOSE x \in s : TRUE
IsSum(h, S, g) ==
  h = [s \in SUBSET S |-> IF s = {} THEN 0
                          ELSE g[CHOOSE x \in s : TRUE] + h[s \ {CHOOSE x \in s : TRUE}]]

\* The subsets of at most n elements.
UpTo(S, n) == {s \in SUBSET S : Cardinality(s) <= n}
IsSumUpTo(h, S, g, n) ==
  h = [s \in UpTo(S, n) |-> IF s = {} THEN 0 ELSE g[Picked(s)] + h[s \ {Picked(s)}]]

\* What is left of a set without its picked element.
LEMMA PickedLeaves ==
  ASSUME NEW S, IsFiniteSet(S), NEW s \in SUBSET S, s # {}
  PROVE  /\ Picked(s) \in s /\ s \ {Picked(s)} \in SUBSET S
         /\ IsFiniteSet(s) /\ Cardinality(s) \in Nat
         /\ Cardinality(s \ {Picked(s)}) = Cardinality(s) - 1
<1>1. Picked(s) \in s
  BY DEF Picked
<1>2. IsFiniteSet(s) /\ Cardinality(s) \in Nat
  BY FS_Subset, FS_CardinalityType
<1> QED BY <1>1, <1>2, FS_RemoveElement

\* There is a function that sums g.
LEMMA SumExists ==
  ASSUME NEW S, IsFiniteSet(S), NEW g
  PROVE  \E h : IsSum(h, S, g)
<1> DEFINE W == {n \in Nat : \E h : IsSumUpTo(h, S, g, n)}
<1>0. \A s \in SUBSET S : IsFiniteSet(s) /\ Cardinality(s) \in Nat /\ (Cardinality(s) = 0 <=> s = {})
  BY FS_Subset, FS_CardinalityType, FS_EmptySet
<1>1. 0 \in W
  <2> DEFINE h == [s \in UpTo(S, 0) |-> 0]
  <2>1. \A s \in UpTo(S, 0) : s = {}
    BY <1>0 DEF UpTo
  <2>2. IsSumUpTo(h, S, g, 0)
    BY <2>1 DEF IsSumUpTo
  <2> HIDE DEF h
  <2> QED BY <2>2
<1>2. ASSUME NEW n \in Nat, n \in W PROVE n + 1 \in W
  <2>1. PICK h : IsSumUpTo(h, S, g, n)
    BY <1>2
  <2> DEFINE k == [s \in UpTo(S, n + 1) |->
                     IF s = {} THEN 0 ELSE g[Picked(s)] + h[s \ {Picked(s)}]]
  <2>2. \A s \in UpTo(S, n) : s \in UpTo(S, n + 1) /\ h[s] = k[s]
    <3>1. SUFFICES ASSUME NEW s \in UpTo(S, n) PROVE s \in UpTo(S, n + 1) /\ h[s] = k[s]
      OBVIOUS
    <3>2. s \in UpTo(S, n + 1)
      BY <1>0 DEF UpTo
    <3>3. h[s] = IF s = {} THEN 0 ELSE g[Picked(s)] + h[s \ {Picked(s)}]
      BY <2>1 DEF IsSumUpTo
    <3> QED BY <3>2, <3>3
  <2>3. \A s \in UpTo(S, n + 1) : s # {} => s \ {Picked(s)} \in UpTo(S, n)
    <3>1. SUFFICES ASSUME NEW s \in UpTo(S, n + 1), s # {}
                   PROVE  s \ {Picked(s)} \in UpTo(S, n)
      OBVIOUS
    <3>2. s \in SUBSET S /\ Cardinality(s) <= n + 1
      BY DEF UpTo
    <3>3. s \ {Picked(s)} \in SUBSET S /\ Cardinality(s \ {Picked(s)}) <= n
      BY <3>1, <3>2, PickedLeaves
    <3> QED BY <3>3 DEF UpTo
  <2>4. IsSumUpTo(k, S, g, n + 1)
    <3> DEFINE m == [s \in UpTo(S, n + 1) |->
                       IF s = {} THEN 0 ELSE g[Picked(s)] + k[s \ {Picked(s)}]]
    <3>1. \A s \in UpTo(S, n + 1) : k[s] = m[s]
      <4>1. SUFFICES ASSUME NEW s \in UpTo(S, n + 1) PROVE k[s] = m[s]
        OBVIOUS
      <4>2. k[s] = IF s = {} THEN 0 ELSE g[Picked(s)] + h[s \ {Picked(s)}]
        OBVIOUS
      <4>3. m[s] = IF s = {} THEN 0 ELSE g[Picked(s)] + k[s \ {Picked(s)}]
        OBVIOUS
      <4>4. s # {} => h[s \ {Picked(s)}] = k[s \ {Picked(s)}]
        BY <2>2, <2>3
      <4> HIDE DEF k, m
      <4> QED BY <4>2, <4>3, <4>4
    <3>2. k = [s \in UpTo(S, n + 1) |-> k[s]] /\ m = [s \in UpTo(S, n + 1) |-> m[s]]
      OBVIOUS
    <3>3. k = m
      <4> HIDE DEF k, m
      <4> QED BY <3>1, <3>2
    <3> HIDE DEF k
    <3> QED BY <3>3 DEF IsSumUpTo
  <2> HIDE DEF k
  <2> QED BY <2>4
<1>3. PICK h : IsSumUpTo(h, S, g, Cardinality(S))
  <2>1. Cardinality(S) \in W
    <3> HIDE DEF W
    <3> QED BY <1>0, <1>1, <1>2, NatInduction0
  <2> QED BY <2>1
<1>4. UpTo(S, Cardinality(S)) = SUBSET S
  BY FS_Subset DEF UpTo
<1>5. IsSum(h, S, g)
  BY <1>3, <1>4, Zenon DEF IsSumUpTo, IsSum, Picked
<1> QED BY <1>5

\* The sum of g over S, as MapThenSumSet computes it, is such a function's.
SumOver(S, g) == MapThenSumSet(LAMBDA x : g[x], S)

LEMMA SumIsSum ==
  ASSUME NEW S, IsFiniteSet(S), NEW g
  PROVE  \E h : IsSum(h, S, g) /\ SumOver(S, g) = h[S]
<1> DEFINE h == CHOOSE h : IsSum(h, S, g)
<1>1. IsSum(h, S, g)
  BY SumExists, Zenon
<1>2. SumOver(S, g) = h[S]
  BY Zenon DEF SumOver, MapThenSumSet, MapThenFoldSet, IsSum
<1> HIDE DEF h
<1> QED BY <1>1, <1>2

\* The sum, a step at a time.
Unfolds(h, S, g) ==
  /\ h[{}] = 0
  /\ \A s \in SUBSET S : s # {} => h[s] = g[Picked(s)] + h[s \ {Picked(s)}]

LEMMA SumUnfolds ==
  ASSUME NEW S, IsFiniteSet(S), NEW g, NEW h, IsSum(h, S, g)
  PROVE  Unfolds(h, S, g)
<1>1. h = [s \in SUBSET S |-> IF s = {} THEN 0 ELSE g[Picked(s)] + h[s \ {Picked(s)}]]
  BY Zenon DEF IsSum, Picked
<1>2. {} \in SUBSET S
  OBVIOUS
<1>3. \A s \in SUBSET S : h[s] = IF s = {} THEN 0 ELSE g[Picked(s)] + h[s \ {Picked(s)}]
  BY <1>1
<1> QED BY <1>2, <1>3 DEF Unfolds

\* A sum of integers is one.
LEMMA SumType ==
  ASSUME NEW S, IsFiniteSet(S), NEW g, \A x \in S : g[x] \in Int, NEW h, IsSum(h, S, g)
  PROVE  \A T \in SUBSET S : h[T] \in Int
<1> DEFINE U == {T \in SUBSET S : h[T] \in Int}
<1>0. Unfolds(h, S, g)
  BY SumUnfolds
<1>1. ASSUME NEW T \in SUBSET S, \A V \in SUBSET T : V # T => V \in U PROVE T \in U
  <2>1. CASE T = {}
    BY <1>0, <2>1 DEF Unfolds
  <2>2. CASE T # {}
    <3>1. Picked(T) \in T /\ T \ {Picked(T)} \in SUBSET T /\ T \ {Picked(T)} # T
      BY <2>2, PickedLeaves
    <3>2. h[T \ {Picked(T)}] \in Int /\ g[Picked(T)] \in Int
      BY <1>1, <3>1
    <3>3. h[T] = g[Picked(T)] + h[T \ {Picked(T)}]
      BY <1>0, <2>2 DEF Unfolds
    <3> QED BY <3>2, <3>3
  <2> QED BY <2>1, <2>2
<1>2. \A T \in SUBSET S : T \in U
  <2> HIDE DEF U
  <2> QED BY <1>1, SubsetInduction
<1> QED BY <1>2

\* The order does not matter: any element can be taken first.
Takes(h, S, g) == \A T \in SUBSET S : \A x \in T : h[T] = g[x] + h[T \ {x}]

LEMMA SumTakes ==
  ASSUME NEW S, IsFiniteSet(S), NEW g, \A x \in S : g[x] \in Int, NEW h, IsSum(h, S, g)
  PROVE  Takes(h, S, g)
<1> DEFINE U == {T \in SUBSET S : \A x \in T : h[T] = g[x] + h[T \ {x}]}
<1>0. Unfolds(h, S, g)
  BY SumUnfolds
<1>1. ASSUME NEW T \in SUBSET S, \A V \in SUBSET T : V # T => V \in U PROVE T \in U
  <2>1. SUFFICES ASSUME NEW x \in T PROVE h[T] = g[x] + h[T \ {x}]
    OBVIOUS
  <2> DEFINE y == Picked(T)
  <2>2. y \in T /\ h[T] = g[y] + h[T \ {y}]
    BY <1>0, PickedLeaves DEF Unfolds
  <2>3. CASE x = y
    BY <2>2, <2>3
  <2>4. CASE x # y
    <3> HIDE DEF y
    <3>1. T \ {y} \in U /\ T \ {x} \in U
      BY <1>1, <2>2
    <3>2. x \in T \ {y} /\ y \in T \ {x} /\ (T \ {y}) \ {x} = (T \ {x}) \ {y}
      BY <2>2, <2>4
    <3>3. h[T \ {y}] = g[x] + h[(T \ {y}) \ {x}]
      BY <3>1, <3>2
    <3>4. h[T \ {x}] = g[y] + h[(T \ {x}) \ {y}]
      BY <3>1, <3>2
    <3>5. /\ g[x] \in Int /\ g[y] \in Int /\ (T \ {y}) \ {x} \in SUBSET S
          /\ h[(T \ {y}) \ {x}] \in Int
      BY <2>2, SumType
    <3>6. PICK r \in Int : r = h[(T \ {y}) \ {x}] /\ r = h[(T \ {x}) \ {y}]
      BY <3>2, <3>5
    <3> QED BY <2>2, <3>3, <3>4, <3>5, <3>6
  <2> QED BY <2>3, <2>4
<1>2. \A T \in SUBSET S : T \in U
  <2> HIDE DEF U
  <2> QED BY <1>1, SubsetInduction
<1> QED BY <1>2 DEF Takes

\* Sums of functions that agree on a set agree on it.
LEMMA SumAgrees ==
  ASSUME NEW S, IsFiniteSet(S), NEW g, NEW f, NEW h, NEW k, IsSum(h, S, g), IsSum(k, S, f)
  PROVE  \A T \in SUBSET S : (\A x \in T : g[x] = f[x]) => h[T] = k[T]
<1> DEFINE U == {T \in SUBSET S : (\A x \in T : g[x] = f[x]) => h[T] = k[T]}
<1>0. Unfolds(h, S, g) /\ Unfolds(k, S, f)
  BY SumUnfolds
<1>1. ASSUME NEW T \in SUBSET S, \A V \in SUBSET T : V # T => V \in U PROVE T \in U
  <2>1. SUFFICES ASSUME \A x \in T : g[x] = f[x] PROVE h[T] = k[T]
    OBVIOUS
  <2>2. CASE T = {}
    BY <1>0, <2>2 DEF Unfolds
  <2>3. CASE T # {}
    <3>1. Picked(T) \in T /\ T \ {Picked(T)} \in SUBSET T /\ T \ {Picked(T)} # T
      BY <2>3, PickedLeaves
    <3>2. h[T \ {Picked(T)}] = k[T \ {Picked(T)}]
      BY <1>1, <2>1, <3>1
    <3>3. h[T] = g[Picked(T)] + h[T \ {Picked(T)}] /\ k[T] = f[Picked(T)] + k[T \ {Picked(T)}]
      BY <1>0, <2>3 DEF Unfolds
    <3> QED BY <2>1, <3>1, <3>2, <3>3
  <2> QED BY <2>2, <2>3
<1>2. \A T \in SUBSET S : T \in U
  <2> HIDE DEF U
  <2> QED BY <1>1, SubsetInduction
<1> QED BY <1>2

\* A value that moves between two elements, or among three, leaves the sum.
LEMMA SumTwo ==
  ASSUME NEW S, IsFiniteSet(S), NEW g, NEW f, \A x \in S : g[x] \in Int /\ f[x] \in Int,
         NEW h, NEW k, IsSum(h, S, g), IsSum(k, S, f),
         NEW a \in S, NEW b \in S, a # b, \A x \in S : x \notin {a, b} => g[x] = f[x],
         g[a] + g[b] = f[a] + f[b]
  PROVE  h[S] = k[S]
<1> DEFINE R == (S \ {a}) \ {b}
<1>1. S \in SUBSET S /\ S \ {a} \in SUBSET S /\ R \in SUBSET S /\ b \in S \ {a}
  OBVIOUS
<1>2. Takes(h, S, g) /\ Takes(k, S, f)
  BY SumTakes
<1>3. h[S] = g[a] + h[S \ {a}] /\ h[S \ {a}] = g[b] + h[R]
  BY <1>1, <1>2 DEF Takes
<1>4. k[S] = f[a] + k[S \ {a}] /\ k[S \ {a}] = f[b] + k[R]
  BY <1>1, <1>2 DEF Takes
<1>5. h[R] = k[R]
  <2>1. \A x \in R : g[x] = f[x]
    OBVIOUS
  <2> HIDE DEF R
  <2> QED BY <1>1, <2>1, SumAgrees
<1> HIDE DEF R
<1>6. PICK r \in Int : r = h[R]
  BY <1>1, SumType
<1>7. PICK ga \in Int, gb \in Int, fa \in Int, fb \in Int :
        ga = g[a] /\ gb = g[b] /\ fa = f[a] /\ fb = f[b]
  OBVIOUS
<1>8. h[S] = ga + (gb + r) /\ k[S] = fa + (fb + r)
  BY <1>3, <1>4, <1>5, <1>6, <1>7
<1>9. ga + (gb + r) = fa + (fb + r)
  BY <1>7
<1> QED BY <1>8, <1>9

LEMMA SumThree ==
  ASSUME NEW S, IsFiniteSet(S), NEW g, NEW f, \A x \in S : g[x] \in Int /\ f[x] \in Int,
         NEW h, NEW k, IsSum(h, S, g), IsSum(k, S, f),
         NEW a \in S, NEW b \in S, NEW d \in S, a # b, a # d, b # d,
         \A x \in S : x \notin {a, b, d} => g[x] = f[x],
         g[a] + g[b] + g[d] = f[a] + f[b] + f[d]
  PROVE  h[S] = k[S]
<1> DEFINE Q == (S \ {a}) \ {b}
           R == Q \ {d}
<1>1. /\ S \in SUBSET S /\ S \ {a} \in SUBSET S /\ Q \in SUBSET S /\ R \in SUBSET S
      /\ b \in S \ {a} /\ d \in Q
  OBVIOUS
<1>2. Takes(h, S, g) /\ Takes(k, S, f)
  BY SumTakes
<1>3. h[R] = k[R]
  <2>1. \A x \in R : g[x] = f[x]
    OBVIOUS
  <2> HIDE DEF R
  <2> QED BY <1>1, <2>1, SumAgrees
<1>4. PICK r \in Int : r = h[R]
  <2> HIDE DEF R
  <2> QED BY <1>1, SumType
<1>5. h[S] = g[a] + h[S \ {a}] /\ h[S \ {a}] = g[b] + h[Q] /\ h[Q] = g[d] + h[R]
  <2>1. h[S] = g[a] + h[S \ {a}]
    BY <1>1, <1>2 DEF Takes
  <2>2. h[S \ {a}] = g[b] + h[Q]
    BY <1>1, <1>2 DEF Takes
  <2>3. h[Q] = g[d] + h[R]
    <3> HIDE DEF Q
    <3> QED BY <1>1, <1>2 DEF Takes
  <2> QED BY <2>1, <2>2, <2>3
<1>6. k[S] = f[a] + k[S \ {a}] /\ k[S \ {a}] = f[b] + k[Q] /\ k[Q] = f[d] + k[R]
  <2>1. k[S] = f[a] + k[S \ {a}]
    BY <1>1, <1>2 DEF Takes
  <2>2. k[S \ {a}] = f[b] + k[Q]
    BY <1>1, <1>2 DEF Takes
  <2>3. k[Q] = f[d] + k[R]
    <3> HIDE DEF Q
    <3> QED BY <1>1, <1>2 DEF Takes
  <2> QED BY <2>1, <2>2, <2>3
<1> HIDE DEF R, Q
<1>7. PICK ga \in Int, gb \in Int, gd \in Int, fa \in Int, fb \in Int, fd \in Int :
        /\ ga = g[a] /\ gb = g[b] /\ gd = g[d]
        /\ fa = f[a] /\ fb = f[b] /\ fd = f[d]
  OBVIOUS
<1>8. h[S] = ga + (gb + (gd + r)) /\ k[S] = fa + (fb + (fd + r))
  BY <1>3, <1>4, <1>5, <1>6, <1>7
<1>9. ga + (gb + (gd + r)) = fa + (fb + (fd + r))
  BY <1>7
<1> QED BY <1>8, <1>9

-----------------------------------------------------------------------------
\* Powers of two, by the subsets of an interval.
LEMMA PowerIsPositive ==
  ASSUME NEW n \in Nat
  PROVE  2 ^ n \in Nat /\ 2 ^ n >= 1
<1>1. IsFiniteSet(1 .. n) /\ Cardinality(1 .. n) = n
  BY FS_Interval
<1>2. IsFiniteSet(SUBSET (1 .. n)) /\ Cardinality(SUBSET (1 .. n)) = 2 ^ n
  BY <1>1, FS_SUBSET
<1>3. Cardinality(SUBSET (1 .. n)) \in Nat
  BY <1>2, FS_CardinalityType
<1>4. SUBSET (1 .. n) # {}
  OBVIOUS
<1>5. Cardinality(SUBSET (1 .. n)) # 0
  BY <1>2, <1>4, FS_EmptySet
<1> QED BY <1>2, <1>3, <1>5

LEMMA PowerDoubles ==
  ASSUME NEW n \in Nat
  PROVE  2 ^ (n + 1) = 2 * 2 ^ n
<1> DEFINE A == SUBSET (1 .. n)
           B == {s \in SUBSET (1 .. (n + 1)) : n + 1 \in s}
           f == [s \in A |-> s \cup {n + 1}]
<1>1. /\ IsFiniteSet(1 .. n) /\ Cardinality(1 .. n) = n
      /\ IsFiniteSet(1 .. (n + 1)) /\ Cardinality(1 .. (n + 1)) = n + 1
  BY FS_Interval
<1>2. /\ IsFiniteSet(A) /\ Cardinality(A) = 2 ^ n
      /\ Cardinality(SUBSET (1 .. (n + 1))) = 2 ^ (n + 1)
  BY <1>1, FS_SUBSET
<1>3. 1 .. (n + 1) = (1 .. n) \cup {n + 1} /\ n + 1 \notin 1 .. n
  OBVIOUS
<1>4. SUBSET (1 .. (n + 1)) = A \cup B /\ A \cap B = {}
  BY <1>3
<1>5. f \in Bijection(A, B)
  <2>1. \A s \in A : f[s] = s \cup {n + 1} /\ f[s] \in B /\ n + 1 \notin s
    BY <1>3
  <2>2. f \in [A -> B]
    BY <2>1
  <2>3. \A s, t \in A : f[s] = f[t] => s = t
    <3> SUFFICES ASSUME NEW s \in A, NEW t \in A, f[s] = f[t] PROVE s = t
      OBVIOUS
    <3>1. s \cup {n + 1} = t \cup {n + 1} /\ n + 1 \notin s /\ n + 1 \notin t
      BY <2>1
    <3> HIDE DEF A, f
    <3> QED BY <3>1
  <2>4. \A t \in B : \E s \in A : f[s] = t
    <3> SUFFICES ASSUME NEW t \in B PROVE \E s \in A : f[s] = t
      OBVIOUS
    <3>1. t \ {n + 1} \in A
      BY <1>3
    <3>2. f[t \ {n + 1}] = (t \ {n + 1}) \cup {n + 1}
      BY <3>1
    <3>3. (t \ {n + 1}) \cup {n + 1} = t
      OBVIOUS
    <3> HIDE DEF A, f, B
    <3> QED BY <3>1, <3>2, <3>3
  <2> HIDE DEF A, B, f
  <2> QED BY <2>2, <2>3, <2>4 DEF Bijection, Injection, Surjection, IsInjective
<1>6. IsFiniteSet(B) /\ Cardinality(B) = 2 ^ n
  <2>1. ExistsBijection(A, B)
    BY <1>5 DEF ExistsBijection
  <2> HIDE DEF A, B
  <2> QED BY <1>2, <2>1, FS_Bijection
<1>7. Cardinality(A \cup B) = 2 ^ n + 2 ^ n
  <2>1. Cardinality(A \cap B) = 0
    BY <1>4, FS_EmptySet
  <2> HIDE DEF A, B
  <2>2. Cardinality(A \cup B) = Cardinality(A) + Cardinality(B) - Cardinality(A \cap B)
    BY <1>2, <1>6, FS_Union
  <2>3. 2 ^ n \in Nat
    BY PowerIsPositive
  <2> QED BY <1>2, <1>6, <2>1, <2>2, <2>3
<1>8. 2 ^ (n + 1) = 2 ^ n + 2 ^ n
  BY <1>2, <1>4, <1>7
<1>9. 2 ^ n \in Nat
  BY PowerIsPositive
<1> QED BY <1>8, <1>9

\* A larger exponent gives a larger power.
LEMMA PowerGrows ==
  ASSUME NEW m \in Nat, NEW n \in Nat, m <= n
  PROVE  2 ^ m <= 2 ^ n
<1> DEFINE W == {d \in Nat : 2 ^ m <= 2 ^ (m + d)}
<1>1. 0 \in W
  <2>1. m + 0 = m /\ 2 ^ m \in Nat
    BY PowerIsPositive
  <2>2. 2 ^ (m + 0) = 2 ^ m
    BY <2>1
  <2> QED BY <2>1, <2>2
<1>2. ASSUME NEW d \in Nat, d \in W PROVE d + 1 \in W
  <2>1. m + d \in Nat /\ m + (d + 1) = (m + d) + 1
    OBVIOUS
  <2>2. 2 ^ ((m + d) + 1) = 2 * 2 ^ (m + d)
    BY <2>1, PowerDoubles
  <2>3. 2 ^ m \in Nat /\ 2 ^ (m + d) \in Nat /\ 2 ^ m <= 2 ^ (m + d)
    BY <1>2, <2>1, PowerIsPositive
  <2>4. 2 ^ (m + (d + 1)) = 2 * 2 ^ (m + d)
    BY <2>1, <2>2
  <2> QED BY <2>3, <2>4
<1>3. n - m \in W
  <2>1. n - m \in Nat
    OBVIOUS
  <2> HIDE DEF W
  <2> QED BY <1>1, <1>2, <2>1, NatInduction0
<1>4. m + (n - m) = n
  OBVIOUS
<1> QED BY <1>3, <1>4

\* Powers outgrow their exponents.
LEMMA PowerExceeds ==
  ASSUME NEW n \in Nat
  PROVE  2 ^ n > n
<1> DEFINE W == {k \in Nat : 2 ^ k > k}
<1>1. 0 \in W
  OBVIOUS
<1>2. ASSUME NEW k \in Nat, k \in W PROVE k + 1 \in W
  <2>1. 2 ^ (k + 1) = 2 * 2 ^ k /\ 2 ^ k \in Nat /\ 2 ^ k > k
    BY <1>2, PowerDoubles, PowerIsPositive
  <2> QED BY <2>1
<1>3. n \in W
  <2> HIDE DEF W
  <2> QED BY <1>1, <1>2, NatInduction0
<1> QED BY <1>3

-----------------------------------------------------------------------------
(* The same sums, set by set. *)

\* The sum over a set gives the sum over each of its parts.
LEMMA TotalPart ==
  ASSUME NEW S, IsFiniteSet(S), NEW g, NEW h, IsSum(h, S, g), NEW T \in SUBSET S
  PROVE  h[T] = SumOver(T, g)
<1>1. IsFiniteSet(T)
  BY FS_Subset
<1>2. PICK k : IsSum(k, T, g) /\ SumOver(T, g) = k[T]
  BY <1>1, SumIsSum
<1>3. Unfolds(h, S, g) /\ Unfolds(k, T, g)
  BY <1>1, <1>2, SumUnfolds
<1> DEFINE U == {V \in SUBSET T : h[V] = k[V]}
<1>4. ASSUME NEW V \in SUBSET T, \A R \in SUBSET V : R # V => R \in U PROVE V \in U
  <2>1. CASE V = {}
    BY <1>3, <2>1 DEF Unfolds
  <2>2. CASE V # {}
    <3>1. Picked(V) \in V /\ V \ {Picked(V)} \in SUBSET V /\ V \ {Picked(V)} # V
      BY <1>1, <2>2, PickedLeaves
    <3>2. h[V \ {Picked(V)}] = k[V \ {Picked(V)}]
      BY <1>4, <3>1
    <3>3. h[V] = g[Picked(V)] + h[V \ {Picked(V)}]
      BY <1>3, <2>2 DEF Unfolds
    <3>4. k[V] = g[Picked(V)] + k[V \ {Picked(V)}]
      BY <1>3, <2>2 DEF Unfolds
    <3> QED BY <3>2, <3>3, <3>4
  <2> QED BY <2>1, <2>2
<1>5. \A V \in SUBSET T : V \in U
  <2> HIDE DEF U
  <2> QED BY <1>1, <1>4, SubsetInduction
<1> QED BY <1>2, <1>5

\* A sum starts at nothing, takes its members in any order, and is a number.
LEMMA TotalRules ==
  ASSUME NEW S, IsFiniteSet(S), NEW g, \A x \in S : g[x] \in Int
  PROVE  /\ SumOver({}, g) = 0
         /\ \A T \in SUBSET S : SumOver(T, g) \in Int
         /\ \A T \in SUBSET S : \A x \in T : SumOver(T, g) = g[x] + SumOver(T \ {x}, g)
<1>1. PICK h : IsSum(h, S, g)
  BY SumExists
<1>2. \A T \in SUBSET S : h[T] = SumOver(T, g)
  BY <1>1, TotalPart
<1>3. h[{}] = 0
  BY <1>1, SumUnfolds DEF Unfolds
<1>4. \A T \in SUBSET S : h[T] \in Int
  BY <1>1, SumType
<1>5. \A T \in SUBSET S : \A x \in T : h[T] = g[x] + h[T \ {x}]
  <2>1. Takes(h, S, g)
    BY <1>1, SumTakes
  <2> QED BY <2>1 DEF Takes
<1>6. \A T \in SUBSET S : \A x \in T : T \ {x} \in SUBSET S
  OBVIOUS
<1> QED BY <1>2, <1>3, <1>4, <1>5, <1>6

LEMMA TotalSame ==
  ASSUME NEW S, IsFiniteSet(S), NEW g, NEW f, \A x \in S : g[x] = f[x]
  PROVE  SumOver(S, g) = SumOver(S, f)
<1>1. PICK h : IsSum(h, S, g)
  BY SumExists
<1>2. PICK k : IsSum(k, S, f)
  BY SumExists
<1>3. S \in SUBSET S
  OBVIOUS
<1>4. h[S] = k[S]
  BY <1>1, <1>2, <1>3, SumAgrees
<1> QED BY <1>1, <1>2, <1>3, <1>4, TotalPart

\* No part of a sum of counts is negative.
LEMMA TotalNat ==
  ASSUME NEW S, IsFiniteSet(S), NEW g, \A x \in S : g[x] \in Nat
  PROVE  SumOver(S, g) \in Nat
<1> DEFINE U == {T \in SUBSET S : SumOver(T, g) \in Nat}
<1>1. \A x \in S : g[x] \in Int
  OBVIOUS
<1>2. /\ SumOver({}, g) = 0
      /\ \A T \in SUBSET S : \A x \in T : SumOver(T, g) = g[x] + SumOver(T \ {x}, g)
  BY <1>1, TotalRules
<1>3. ASSUME NEW T \in SUBSET S, \A V \in SUBSET T : V # T => V \in U PROVE T \in U
  <2>1. CASE T = {}
    BY <1>2, <2>1
  <2>2. CASE T # {}
    <3>1. PICK x \in T : TRUE
      BY <2>2
    <3>2. T \ {x} \in U
      BY <1>3
    <3>3. SumOver(T, g) = g[x] + SumOver(T \ {x}, g) /\ g[x] \in Nat
      BY <1>2
    <3> QED BY <3>2, <3>3
  <2> QED BY <2>1, <2>2
<1>4. \A T \in SUBSET S : T \in U
  <2> HIDE DEF U
  <2> QED BY <1>3, SubsetInduction
<1> QED BY <1>4

\* A sum of nothings is nothing.
LEMMA TotalNone ==
  ASSUME NEW S, IsFiniteSet(S), NEW g, \A x \in S : g[x] = 0
  PROVE  SumOver(S, g) = 0
<1> DEFINE U == {T \in SUBSET S : SumOver(T, g) = 0}
<1>1. \A x \in S : g[x] \in Int
  OBVIOUS
<1>2. /\ SumOver({}, g) = 0
      /\ \A T \in SUBSET S : \A x \in T : SumOver(T, g) = g[x] + SumOver(T \ {x}, g)
  BY <1>1, TotalRules
<1>3. ASSUME NEW T \in SUBSET S, \A V \in SUBSET T : V # T => V \in U PROVE T \in U
  <2>1. CASE T = {}
    BY <1>2, <2>1
  <2>2. CASE T # {}
    <3>1. PICK x \in T : TRUE
      BY <2>2
    <3>2. SumOver(T \ {x}, g) = 0
      BY <1>3
    <3>3. SumOver(T, g) = g[x] + SumOver(T \ {x}, g) /\ g[x] = 0
      BY <1>2
    <3> QED BY <3>2, <3>3
  <2> QED BY <2>1, <2>2
<1>4. \A T \in SUBSET S : T \in U
  <2> HIDE DEF U
  <2> QED BY <1>3, SubsetInduction
<1> QED BY <1>4

\* The sum over two sets apart is that over the one and that over the other.
LEMMA TotalUnion ==
  ASSUME NEW A, NEW B, IsFiniteSet(A), IsFiniteSet(B), A \cap B = {},
         NEW g, \A x \in A \cup B : g[x] \in Int
  PROVE  SumOver(A \cup B, g) = SumOver(A, g) + SumOver(B, g)
<1> DEFINE U == {T \in SUBSET B : SumOver(A \cup T, g) = SumOver(A, g) + SumOver(T, g)}
<1>1. IsFiniteSet(A \cup B)
  BY FS_Union
<1>2. PICK C : C = A \cup B
  OBVIOUS
<1>3. /\ SumOver({}, g) = 0
      /\ \A T \in SUBSET C : SumOver(T, g) \in Int
      /\ \A T \in SUBSET C : \A x \in T : SumOver(T, g) = g[x] + SumOver(T \ {x}, g)
  BY <1>1, <1>2, TotalRules
<1>4. ASSUME NEW T \in SUBSET B, \A V \in SUBSET T : V # T => V \in U PROVE T \in U
  <2>1. CASE T = {}
    <3>1. A \cup T = A /\ SumOver(A, g) \in Int
      BY <1>2, <1>3, <2>1
    <3> QED BY <1>3, <2>1, <3>1
  <2>2. CASE T # {}
    <3>1. PICK x \in T : TRUE
      BY <2>2
    <3>2. SumOver(A \cup (T \ {x}), g) = SumOver(A, g) + SumOver(T \ {x}, g)
      BY <1>4
    <3>3. SumOver(T, g) = g[x] + SumOver(T \ {x}, g)
      BY <1>2, <1>3
    <3>4. /\ A \cup T \in SUBSET C /\ x \in A \cup T /\ (A \cup T) \ {x} = A \cup (T \ {x})
      BY <1>2
    <3>5. SumOver(A \cup T, g) = g[x] + SumOver(A \cup (T \ {x}), g)
      BY <1>3, <3>4
    <3>6. g[x] \in Int /\ SumOver(A, g) \in Int /\ SumOver(T \ {x}, g) \in Int
      BY <1>2, <1>3
    <3>7. SumOver(A \cup T, g) = SumOver(A, g) + SumOver(T, g)
      BY <3>2, <3>3, <3>5, <3>6
    <3> QED BY <3>7
  <2> QED BY <2>1, <2>2
<1>5. \A T \in SUBSET B : T \in U
  <2> HIDE DEF U
  <2> QED BY <1>4, SubsetInduction
<1> QED BY <1>5

\* The sum over a part of a set of counts is no more than the sum over the set.
LEMMA TotalWithin ==
  ASSUME NEW S, IsFiniteSet(S), NEW g, \A x \in S : g[x] \in Nat, NEW T \in SUBSET S
  PROVE  SumOver(T, g) <= SumOver(S, g)
<1>1. IsFiniteSet(T) /\ IsFiniteSet(S \ T) /\ T \cap (S \ T) = {} /\ T \cup (S \ T) = S
  BY FS_Subset
<1>2. SumOver(T, g) \in Nat /\ SumOver(S \ T, g) \in Nat
  BY <1>1, TotalNat
<1>3. \A x \in T \cup (S \ T) : g[x] \in Int
  OBVIOUS
<1>4. SumOver(T \cup (S \ T), g) = SumOver(T, g) + SumOver(S \ T, g)
  BY <1>1, <1>3, TotalUnion
<1>5. SumOver(S, g) = SumOver(T, g) + SumOver(S \ T, g)
  BY <1>1, <1>4
<1> QED BY <1>2, <1>5

\* Numbering the terms from 1 instead of from lo + 1 leaves their sum.
Shifted(g, f, lo, n) == \A i \in 1 .. n : g[i] = f[lo + i] /\ g[i] \in Int

LEMMA TotalShift ==
  ASSUME NEW lo \in Nat, NEW n \in Nat, NEW g, NEW f, Shifted(g, f, lo, n)
  PROVE  SumOver(1 .. n, g) = SumOver((lo + 1) .. (lo + n), f)
<1>0. \A i \in 1 .. n : g[i] = f[lo + i] /\ g[i] \in Int
  BY DEF Shifted
<1> DEFINE W == {m \in Nat : m <= n => SumOver(1 .. m, g) = SumOver((lo + 1) .. (lo + m), f)}
<1>1. 0 \in W
  <2>1. 1 .. 0 = {} /\ (lo + 1) .. (lo + 0) = {}
    OBVIOUS
  <2>2. \A e : SumOver({}, e) = 0
    <3>1. IsFiniteSet({})
      BY FS_EmptySet
    <3> QED BY <3>1, TotalRules
  <2> QED BY <2>1, <2>2
<1>2. ASSUME NEW m \in Nat, m \in W PROVE m + 1 \in W
  <2>1. SUFFICES ASSUME m + 1 <= n
                 PROVE  SumOver(1 .. (m + 1), g) = SumOver((lo + 1) .. (lo + (m + 1)), f)
    OBVIOUS
  <2> DEFINE A == 1 .. (m + 1)
             B == (lo + 1) .. (lo + (m + 1))
  <2>2. IsFiniteSet(A) /\ IsFiniteSet(B)
    BY FS_Interval
  <2>3. \A x \in A : g[x] \in Int
    BY <1>0, <2>1
  <2>4. \A y \in B : f[y] \in Int
    <3>1. SUFFICES ASSUME NEW y \in B PROVE f[y] \in Int
      OBVIOUS
    <3>2. y - lo \in 1 .. n /\ lo + (y - lo) = y
      BY <2>1
    <3>3. g[y - lo] = f[lo + (y - lo)] /\ g[y - lo] \in Int
      BY <1>0, <3>2
    <3> QED BY <3>2, <3>3
  <2>5. /\ m + 1 \in A /\ A \ {m + 1} = 1 .. m
        /\ lo + (m + 1) \in B /\ B \ {lo + (m + 1)} = (lo + 1) .. (lo + m)
    OBVIOUS
  <2> HIDE DEF A, B
  <2>6. SumOver(A, g) = g[m + 1] + SumOver(A \ {m + 1}, g)
    <3>1. A \in SUBSET A
      OBVIOUS
    <3> QED BY <2>2, <2>3, <2>5, <3>1, TotalRules
  <2>7. SumOver(B, f) = f[lo + (m + 1)] + SumOver(B \ {lo + (m + 1)}, f)
    <3>1. B \in SUBSET B
      OBVIOUS
    <3> QED BY <2>2, <2>4, <2>5, <3>1, TotalRules
  <2>8. g[m + 1] = f[lo + (m + 1)]
    BY <1>0, <2>1
  <2>9. SumOver(1 .. m, g) = SumOver((lo + 1) .. (lo + m), f)
    BY <1>2, <2>1
  <2>10. SumOver(A, g) = SumOver(B, f)
    BY <2>5, <2>6, <2>7, <2>8, <2>9
  <2> QED BY <2>10 DEF A, B
<1>3. \A m \in Nat : m \in W
  <2> HIDE DEF W
  <2> QED BY <1>1, <1>2, NatInduction0
<1> QED BY <1>3

-----------------------------------------------------------------------------
(* Sums compared, scaled and counted out. *)

LEMMA Distributes ==
  ASSUME NEW c \in Int, NEW a \in Int, NEW b \in Int
  PROVE  c * (a + b) = c * a + c * b /\ c * a \in Int
OBVIOUS

\* A factor of every term is a factor of the sum.
LEMMA TotalScaled ==
  ASSUME NEW S, IsFiniteSet(S), NEW c \in Int, NEW g, NEW f,
         \A x \in S : g[x] \in Int /\ f[x] = c * g[x]
  PROVE  SumOver(S, f) = c * SumOver(S, g)
<1> DEFINE U == {T \in SUBSET S : SumOver(T, f) = c * SumOver(T, g)}
<1>1. \A x \in S : g[x] \in Int /\ f[x] \in Int
  OBVIOUS
<1>2. /\ SumOver({}, g) = 0 /\ SumOver({}, f) = 0
      /\ \A T \in SUBSET S : SumOver(T, g) \in Int
      /\ \A T \in SUBSET S : \A x \in T : SumOver(T, g) = g[x] + SumOver(T \ {x}, g)
      /\ \A T \in SUBSET S : \A x \in T : SumOver(T, f) = f[x] + SumOver(T \ {x}, f)
  <2>1. /\ SumOver({}, g) = 0
        /\ \A T \in SUBSET S : SumOver(T, g) \in Int
        /\ \A T \in SUBSET S : \A x \in T : SumOver(T, g) = g[x] + SumOver(T \ {x}, g)
    BY <1>1, TotalRules
  <2>2. /\ SumOver({}, f) = 0
        /\ \A T \in SUBSET S : \A x \in T : SumOver(T, f) = f[x] + SumOver(T \ {x}, f)
    BY <1>1, TotalRules
  <2> QED BY <2>1, <2>2
<1>3. ASSUME NEW T \in SUBSET S, \A V \in SUBSET T : V # T => V \in U PROVE T \in U
  <2>1. CASE T = {}
    BY <1>2, <2>1
  <2>2. CASE T # {}
    <3>1. PICK x \in T : TRUE
      BY <2>2
    <3>2. SumOver(T \ {x}, f) = c * SumOver(T \ {x}, g)
      BY <1>3
    <3>3. SumOver(T, g) = g[x] + SumOver(T \ {x}, g) /\ SumOver(T, f) = f[x] + SumOver(T \ {x}, f)
      BY <1>2
    <3>4. PICK a \in Int, b \in Int : a = g[x] /\ b = SumOver(T \ {x}, g)
      BY <1>1, <1>2
    <3>5. SumOver(T, g) = a + b /\ SumOver(T, f) = c * a + c * b
      BY <3>2, <3>3, <3>4
    <3>6. SumOver(T, f) = c * SumOver(T, g)
      BY <3>5, Distributes
    <3> QED BY <3>6
  <2> QED BY <2>1, <2>2
<1>4. \A T \in SUBSET S : T \in U
  <2> HIDE DEF U
  <2> QED BY <1>3, SubsetInduction
<1> QED BY <1>4

\* Term by term no larger is no larger in all.
LEMMA TotalBounded ==
  ASSUME NEW S, IsFiniteSet(S), NEW g, NEW f,
         \A x \in S : g[x] \in Int /\ f[x] \in Int /\ g[x] <= f[x]
  PROVE  SumOver(S, g) <= SumOver(S, f)
<1> DEFINE U == {T \in SUBSET S : SumOver(T, g) <= SumOver(T, f)}
<1>1. \A x \in S : g[x] \in Int /\ f[x] \in Int
  OBVIOUS
<1>2. /\ SumOver({}, g) = 0 /\ SumOver({}, f) = 0
      /\ \A T \in SUBSET S : SumOver(T, g) \in Int /\ SumOver(T, f) \in Int
      /\ \A T \in SUBSET S : \A x \in T : SumOver(T, g) = g[x] + SumOver(T \ {x}, g)
      /\ \A T \in SUBSET S : \A x \in T : SumOver(T, f) = f[x] + SumOver(T \ {x}, f)
  <2>1. /\ SumOver({}, g) = 0
        /\ \A T \in SUBSET S : SumOver(T, g) \in Int
        /\ \A T \in SUBSET S : \A x \in T : SumOver(T, g) = g[x] + SumOver(T \ {x}, g)
    BY <1>1, TotalRules
  <2>2. /\ SumOver({}, f) = 0
        /\ \A T \in SUBSET S : SumOver(T, f) \in Int
        /\ \A T \in SUBSET S : \A x \in T : SumOver(T, f) = f[x] + SumOver(T \ {x}, f)
    BY <1>1, TotalRules
  <2> QED BY <2>1, <2>2
<1>3. ASSUME NEW T \in SUBSET S, \A V \in SUBSET T : V # T => V \in U PROVE T \in U
  <2>1. CASE T = {}
    BY <1>2, <2>1
  <2>2. CASE T # {}
    <3>1. PICK x \in T : TRUE
      BY <2>2
    <3>2. SumOver(T \ {x}, g) <= SumOver(T \ {x}, f)
      BY <1>3
    <3>3. SumOver(T, g) = g[x] + SumOver(T \ {x}, g) /\ SumOver(T, f) = f[x] + SumOver(T \ {x}, f)
      BY <1>2
    <3>4. g[x] <= f[x] /\ g[x] \in Int /\ f[x] \in Int
      OBVIOUS
    <3>5. SumOver(T \ {x}, g) \in Int /\ SumOver(T \ {x}, f) \in Int
      BY <1>2
    <3>6. SumOver(T, g) <= SumOver(T, f)
      BY <3>2, <3>3, <3>4, <3>5
    <3> QED BY <3>6
  <2> QED BY <2>1, <2>2
<1>4. \A T \in SUBSET S : T \in U
  <2> HIDE DEF U
  <2> QED BY <1>3, SubsetInduction
<1> QED BY <1>4

\* Equal terms come to their number times one of them.
LEMMA TotalEqual ==
  ASSUME NEW S, IsFiniteSet(S), NEW c \in Int, NEW g, \A x \in S : g[x] = c
  PROVE  SumOver(S, g) = Cardinality(S) * c
<1> DEFINE U == {T \in SUBSET S : SumOver(T, g) = Cardinality(T) * c}
<1>1. \A x \in S : g[x] \in Int
  OBVIOUS
<1>2. /\ SumOver({}, g) = 0
      /\ \A T \in SUBSET S : \A x \in T : SumOver(T, g) = g[x] + SumOver(T \ {x}, g)
  BY <1>1, TotalRules
<1>3. ASSUME NEW T \in SUBSET S, \A V \in SUBSET T : V # T => V \in U PROVE T \in U
  <2>1. CASE T = {}
    <3>1. Cardinality({}) = 0 /\ 0 * c = 0
      BY FS_EmptySet
    <3> QED BY <1>2, <2>1, <3>1
  <2>2. CASE T # {}
    <3>1. PICK x \in T : TRUE
      BY <2>2
    <3>2. SumOver(T \ {x}, g) = Cardinality(T \ {x}) * c
      BY <1>3
    <3>3. SumOver(T, g) = g[x] + SumOver(T \ {x}, g) /\ g[x] = c
      BY <1>2
    <3>4. IsFiniteSet(T)
      BY FS_Subset
    <3>5. PICK k \in Nat : k = Cardinality(T \ {x}) /\ Cardinality(T) = k + 1
      <4>1. Cardinality(T \ {x}) \in Nat /\ Cardinality(T) \in Nat
        BY <3>4, FS_RemoveElement, FS_CardinalityType
      <4>2. Cardinality(T \ {x}) = Cardinality(T) - 1
        BY <3>1, <3>4, FS_RemoveElement
      <4> QED BY <4>1, <4>2
    <3>6. SumOver(T, g) = c + k * c
      BY <3>2, <3>3, <3>5
    <3>7. c + k * c = (k + 1) * c
      BY <3>5
    <3> QED BY <3>5, <3>6, <3>7
  <2> QED BY <2>1, <2>2
<1>4. \A T \in SUBSET S : T \in U
  <2> HIDE DEF U
  <2> QED BY <1>3, SubsetInduction
<1> QED BY <1>4

\* Terms that depend on a feature only: as many of each as have the feature.
Sharing(S, f, l) == {x \in S : f[x] = l}
FeatureSum(S, f, g, h, k, L) ==
  /\ \A x \in S : f[x] \in L /\ h[x] = g[f[x]]
  /\ \A l \in L : g[l] \in Int /\ k[l] = Cardinality(Sharing(S, f, l)) * g[l]

LEMMA TotalByFeature ==
  ASSUME NEW S, IsFiniteSet(S), NEW L, IsFiniteSet(L), NEW f, NEW g, NEW h, NEW k,
         FeatureSum(S, f, g, h, k, L)
  PROVE  SumOver(S, h) = SumOver(L, k)
<1> DEFINE Of(V) == {x \in S : f[x] \in V}
           U == {V \in SUBSET L : SumOver(Of(V), h) = SumOver(V, k)}
<1>0. /\ \A x \in S : f[x] \in L /\ h[x] = g[f[x]] /\ h[x] \in Int
      /\ \A l \in L : g[l] \in Int /\ k[l] = Cardinality(Sharing(S, f, l)) * g[l]
  BY DEF FeatureSum
<1>1. \A l \in L : IsFiniteSet(Sharing(S, f, l)) /\ k[l] \in Int
  <2> SUFFICES ASSUME NEW l \in L PROVE IsFiniteSet(Sharing(S, f, l)) /\ k[l] \in Int
    OBVIOUS
  <2>1. Sharing(S, f, l) \in SUBSET S
    BY DEF Sharing
  <2>2. IsFiniteSet(Sharing(S, f, l))
    BY <2>1, FS_Subset
  <2>3. Cardinality(Sharing(S, f, l)) \in Nat
    BY <2>2, FS_CardinalityType
  <2> QED BY <1>0, <2>2, <2>3
<1>2. /\ SumOver({}, k) = 0
      /\ \A V \in SUBSET L : \A l \in V : SumOver(V, k) = k[l] + SumOver(V \ {l}, k)
  BY <1>1, TotalRules
<1>3. ASSUME NEW V \in SUBSET L, \A R \in SUBSET V : R # V => R \in U PROVE V \in U
  <2>1. CASE V = {}
    <3>1. Of(V) = {}
      BY <2>1
    <3>2. SumOver({}, h) = 0
      BY <1>0, TotalRules
    <3> QED BY <1>2, <2>1, <3>1, <3>2
  <2>2. CASE V # {}
    <3>1. PICK l \in V : TRUE
      BY <2>2
    <3>2. SumOver(Of(V \ {l}), h) = SumOver(V \ {l}, k)
      BY <1>3
    <3> DEFINE A == Sharing(S, f, l)
               B == Of(V \ {l})
    <3>3. Of(V) = A \cup B /\ A \cap B = {} /\ B \in SUBSET S /\ A \in SUBSET S
      BY DEF Sharing
    <3>4. \A x \in A : h[x] = g[l]
      BY <1>0 DEF Sharing
    <3>5. g[l] \in Int /\ k[l] = Cardinality(A) * g[l]
      BY <1>0
    <3>6. SumOver(V, k) = k[l] + SumOver(V \ {l}, k)
      BY <1>2
    <3> HIDE DEF A, B
    <3>7. IsFiniteSet(A) /\ IsFiniteSet(B)
      BY <3>3, FS_Subset
    <3>8. SumOver(A, h) = Cardinality(A) * g[l]
      BY <3>4, <3>5, <3>7, TotalEqual
    <3>9. SumOver(A \cup B, h) = SumOver(A, h) + SumOver(B, h)
      <4>1. \A x \in A \cup B : h[x] \in Int
        BY <1>0, <3>3
      <4> QED BY <3>3, <3>7, <4>1, TotalUnion
    <3>10. SumOver(A \cup B, h) = SumOver(V, k)
      BY <3>2, <3>5, <3>6, <3>8, <3>9 DEF B
    <3> QED BY <3>3, <3>10
  <2> QED BY <2>1, <2>2
<1>4. \A V \in SUBSET L : V \in U
  <2> HIDE DEF U
  <2> QED BY <1>3, SubsetInduction
<1>5. Of(L) = S
  BY <1>0
<1> QED BY <1>4, <1>5

\* Renaming the terms leaves the sum.
LEMMA TotalRenamed ==
  ASSUME NEW S, IsFiniteSet(S), NEW T, NEW f \in Bijection(S, T), NEW g, NEW h,
         \A y \in T : g[y] \in Int, \A x \in S : h[x] = g[f[x]]
  PROVE  SumOver(S, h) = SumOver(T, g)
<1>1. /\ f \in [S -> T] /\ \A x, y \in S : f[x] = f[y] => x = y
      /\ \A y \in T : \E x \in S : f[x] = y
  BY DEF Bijection, Injection, Surjection, IsInjective
<1>2. IsFiniteSet(T)
  BY FS_Bijection DEF ExistsBijection
<1> DEFINE k == [y \in T |-> Cardinality(Sharing(S, f, y)) * g[y]]
<1>3. \A y \in T : k[y] = g[y] /\ k[y] = Cardinality(Sharing(S, f, y)) * g[y]
  <2> SUFFICES ASSUME NEW y \in T PROVE k[y] = g[y] /\ k[y] = Cardinality(Sharing(S, f, y)) * g[y]
    OBVIOUS
  <2>1. PICK x \in S : f[x] = y
    BY <1>1
  <2>2. Sharing(S, f, y) = {x}
    BY <1>1, <2>1 DEF Sharing
  <2>3. Cardinality(Sharing(S, f, y)) = 1
    BY <2>2, FS_Singleton
  <2>4. k[y] = Cardinality(Sharing(S, f, y)) * g[y]
    OBVIOUS
  <2>5. g[y] \in Int
    OBVIOUS
  <2> HIDE DEF k
  <2> QED BY <2>3, <2>4, <2>5
<1>4. FeatureSum(S, f, g, h, k, T)
  <2> HIDE DEF k
  <2> QED BY <1>1, <1>3 DEF FeatureSum
<1>5. SumOver(S, h) = SumOver(T, k)
  <2> HIDE DEF k
  <2> QED BY <1>2, <1>4, TotalByFeature
<1>6. SumOver(T, k) = SumOver(T, g)
  <2> HIDE DEF k
  <2> QED BY <1>2, <1>3, TotalSame
<1> QED BY <1>5, <1>6

\* What two terms change by is what the sum changes by.
TwoApart(S, g, f, a, b) ==
  /\ a \in S /\ b \in S /\ a # b
  /\ \A x \in S : g[x] \in Int /\ f[x] \in Int /\ (x \notin {a, b} => g[x] = f[x])

LEMMA TotalTwo ==
  ASSUME NEW S, IsFiniteSet(S), NEW g, NEW f, NEW a, NEW b, TwoApart(S, g, f, a, b)
  PROVE  SumOver(S, f) = SumOver(S, g) + (f[a] - g[a]) + (f[b] - g[b])
<1> DEFINE R == (S \ {a}) \ {b}
<1>0. /\ a \in S /\ b \in S /\ a # b
      /\ \A x \in S : g[x] \in Int /\ f[x] \in Int /\ (x \notin {a, b} => g[x] = f[x])
  BY DEF TwoApart
<1>1. /\ \A T \in SUBSET S : SumOver(T, g) \in Int
      /\ \A T \in SUBSET S : \A x \in T : SumOver(T, g) = g[x] + SumOver(T \ {x}, g)
  BY <1>0, TotalRules
<1>2. /\ \A T \in SUBSET S : SumOver(T, f) \in Int
      /\ \A T \in SUBSET S : \A x \in T : SumOver(T, f) = f[x] + SumOver(T \ {x}, f)
  BY <1>0, TotalRules
<1>3. S \in SUBSET S /\ S \ {a} \in SUBSET S /\ b \in S \ {a} /\ R \in SUBSET S
  BY <1>0
<1>4. SumOver(S, g) = g[a] + SumOver(S \ {a}, g) /\ SumOver(S \ {a}, g) = g[b] + SumOver(R, g)
  BY <1>0, <1>1, <1>3
<1>5. SumOver(S, f) = f[a] + SumOver(S \ {a}, f) /\ SumOver(S \ {a}, f) = f[b] + SumOver(R, f)
  BY <1>0, <1>2, <1>3
<1>6. SumOver(R, g) = SumOver(R, f)
  <2>1. IsFiniteSet(R) /\ \A x \in R : g[x] = f[x]
    BY <1>0, <1>3, FS_Subset
  <2> HIDE DEF R
  <2> QED BY <2>1, TotalSame
<1>7. PICK r \in Int : r = SumOver(R, g)
  BY <1>1, <1>3
<1>8. g[a] \in Int /\ g[b] \in Int /\ f[a] \in Int /\ f[b] \in Int
  BY <1>0
<1> HIDE DEF R
<1>9. SumOver(S, g) = g[a] + (g[b] + r) /\ SumOver(S, f) = f[a] + (f[b] + r)
  BY <1>4, <1>5, <1>6, <1>7
<1> QED BY <1>7, <1>8, <1>9

\* A product of powers is the power of the sum.
LEMMA PowerAdds ==
  ASSUME NEW m \in Nat, NEW n \in Nat
  PROVE  2 ^ (m + n) = 2 ^ m * 2 ^ n
<1> DEFINE W == {d \in Nat : 2 ^ (m + d) = 2 ^ m * 2 ^ d}
<1>1. 0 \in W
  <2>1. m + 0 = m /\ 2 ^ m \in Nat /\ 2 ^ 0 = 1
    BY PowerIsPositive
  <2>2. 2 ^ (m + 0) = 2 ^ m
    BY <2>1
  <2>3. 2 ^ m * 2 ^ 0 = 2 ^ m
    BY <2>1
  <2> QED BY <2>2, <2>3
<1>2. ASSUME NEW d \in Nat, d \in W PROVE d + 1 \in W
  <2>1. m + d \in Nat /\ m + (d + 1) = (m + d) + 1
    OBVIOUS
  <2>2. 2 ^ ((m + d) + 1) = 2 * 2 ^ (m + d) /\ 2 ^ (d + 1) = 2 * 2 ^ d
    BY <2>1, PowerDoubles
  <2>3. PICK p \in Nat, q \in Nat : p = 2 ^ m /\ q = 2 ^ d
    BY PowerIsPositive
  <2>4. 2 ^ (m + (d + 1)) = 2 * (p * q) /\ 2 ^ m * 2 ^ (d + 1) = p * (2 * q)
    <3>1. 2 ^ (m + d) = p * q
      BY <1>2, <2>3
    <3>2. 2 ^ (m + (d + 1)) = 2 ^ ((m + d) + 1)
      BY <2>1
    <3> QED BY <2>2, <2>3, <3>1, <3>2
  <2>5. 2 * (p * q) = p * (2 * q)
    BY <2>3
  <2> QED BY <2>4, <2>5
<1>3. n \in W
  <2> HIDE DEF W
  <2> QED BY <1>1, <1>2, NatInduction0
<1> QED BY <1>3

\* In a total order, the places of the members of a set number it.
Upto(S, R, x) == {y \in S : <<y, x>> \in R}
IsOrder(S, R) ==
  /\ \A x \in S : <<x, x>> \in R
  /\ \A x, y \in S : <<x, y>> \in R \/ <<y, x>> \in R
  /\ \A x, y \in S : <<x, y>> \in R /\ <<y, x>> \in R => x = y
  /\ \A x, y, z \in S : <<x, y>> \in R /\ <<y, z>> \in R => <<x, z>> \in R

LEMMA PlacesNumber ==
  ASSUME NEW S, IsFiniteSet(S), NEW R, IsOrder(S, R), NEW p,
         p = [x \in S |-> Cardinality(Upto(S, R, x))]
  PROVE  /\ p \in Bijection(S, 1 .. Cardinality(S))
         /\ \A x, y \in S : x # y /\ <<x, y>> \in R => p[x] < p[y]
<1> DEFINE n == Cardinality(S)
<1>0. n \in Nat /\ IsFiniteSet(1 .. n) /\ Cardinality(1 .. n) = n
  BY FS_CardinalityType, FS_Interval
<1>1. \A x \in S : /\ Upto(S, R, x) \in SUBSET S /\ x \in Upto(S, R, x)
                   /\ IsFiniteSet(Upto(S, R, x)) /\ p[x] = Cardinality(Upto(S, R, x))
                   /\ p[x] \in 1 .. n
  <2> SUFFICES ASSUME NEW x \in S
               PROVE  /\ Upto(S, R, x) \in SUBSET S /\ x \in Upto(S, R, x)
                      /\ IsFiniteSet(Upto(S, R, x)) /\ p[x] = Cardinality(Upto(S, R, x))
                      /\ p[x] \in 1 .. n
    OBVIOUS
  <2>1. Upto(S, R, x) \in SUBSET S /\ x \in Upto(S, R, x)
    BY DEF Upto, IsOrder
  <2>2. IsFiniteSet(Upto(S, R, x)) /\ Cardinality(Upto(S, R, x)) <= n
    BY <2>1, FS_Subset
  <2>3. Cardinality(Upto(S, R, x)) \in Nat
    BY <2>2, FS_CardinalityType
  <2>4. Cardinality(Upto(S, R, x)) # 0
    BY <2>1, <2>2, FS_EmptySet
  <2>5. p[x] = Cardinality(Upto(S, R, x))
    OBVIOUS
  <2> HIDE DEF n
  <2> QED BY <1>0, <2>1, <2>2, <2>3, <2>4, <2>5
<1>2. \A x, y \in S : x # y /\ <<x, y>> \in R => p[x] < p[y]
  <2> SUFFICES ASSUME NEW x \in S, NEW y \in S, x # y, <<x, y>> \in R PROVE p[x] < p[y]
    OBVIOUS
  <2>1. Upto(S, R, x) \in SUBSET Upto(S, R, y) /\ y \notin Upto(S, R, x)
    BY DEF Upto, IsOrder
  <2>2. Cardinality(Upto(S, R, x)) <= Cardinality(Upto(S, R, y))
    BY <1>1, <2>1, FS_Subset
  <2>3. Cardinality(Upto(S, R, x)) # Cardinality(Upto(S, R, y))
    BY <1>1, <2>1, FS_Subset
  <2> HIDE DEF n
  <2> QED BY <1>0, <1>1, <2>2, <2>3
<1>3. p \in Injection(S, 1 .. n)
  <2>1. p \in [S -> 1 .. n]
    <3>1. \A x \in S : p[x] \in 1 .. n
      BY <1>1
    <3> HIDE DEF n
    <3> QED BY <3>1
  <2>2. \A x, y \in S : p[x] = p[y] => x = y
    <3> SUFFICES ASSUME NEW x \in S, NEW y \in S, x # y PROVE p[x] # p[y]
      OBVIOUS
    <3>1. <<x, y>> \in R \/ <<y, x>> \in R
      BY DEF IsOrder
    <3>2. p[x] \in Nat /\ p[y] \in Nat
      BY <1>1
    <3> QED BY <1>2, <3>1, <3>2
  <2> QED BY <2>1, <2>2 DEF Injection, IsInjective
<1>4. p \in Surjection(S, 1 .. n)
  BY <1>0, <1>3, FS_Injection
<1> QED BY <1>2, <1>3, <1>4 DEF Bijection

-----------------------------------------------------------------------------
(* Numbers in binary. *)

\* Quotient and remainder, whatever the divisor.
LEMMA Divides ==
  ASSUME NEW p \in Nat \ {0}, NEW x \in Nat
  PROVE  x \div p \in Nat /\ x % p \in 0 .. p - 1 /\ x = p * (x \div p) + (x % p)
<1>1. p \in Nat /\ p > 0
  OBVIOUS
<1> QED BY <1>1

LEMMA Multiples ==
  ASSUME NEW p \in Nat, NEW a \in Nat, NEW b \in Nat, a < b
  PROVE  p * a \in Nat /\ p * b \in Nat /\ p * a + p <= p * b
<1>1. PICK apart \in Nat : b = a + 1 + apart
  <2>1. b - a - 1 \in Nat /\ b = a + 1 + (b - a - 1)
    OBVIOUS
  <2> QED BY <2>1
<1>2. p * apart \in Nat /\ p * a \in Nat
  OBVIOUS
<1>3. p * b = p * a + p + p * apart
  BY <1>1
<1> QED BY <1>2, <1>3

LEMMA HalvesTwice ==
  ASSUME NEW p \in Nat \ {0}, NEW x \in Nat
  PROVE  x \div (2 * p) = (x \div p) \div 2
<1>1. PICK a \in Nat, r \in 0 .. p - 1 : a = x \div p /\ x = p * a + r
  BY Divides
<1>2. PICK k \in Nat, e \in 0 .. 1 : k = a \div 2 /\ a = 2 * k + e
  <2>1. a \div 2 \in Nat /\ a % 2 \in 0 .. 1 /\ a = 2 * (a \div 2) + (a % 2)
    OBVIOUS
  <2> QED BY <2>1
<1>3. 2 * p \in Nat \ {0}
  OBVIOUS
<1>4. PICK f \in Nat, t \in 0 .. (2 * p) - 1 : f = x \div (2 * p) /\ x = (2 * p) * f + t
  BY <1>3, Divides
<1>5. PICK u \in Nat, v \in Nat : u = p * k /\ v = p * f
  OBVIOUS
<1>6. p * a = 2 * u + p * e /\ (2 * p) * f = 2 * v
  BY <1>2, <1>5
<1>7. p * e \in 0 .. p
  <2>1. e = 0 \/ e = 1
    BY <1>2
  <2> QED BY <2>1
<1>8. ~(f < k)
  <2> SUFFICES ASSUME f < k PROVE FALSE
    OBVIOUS
  <2>1. v + p <= u
    BY <1>5, Multiples
  <2> QED BY <1>1, <1>4, <1>6, <1>7, <2>1
<1>9. ~(k < f)
  <2> SUFFICES ASSUME k < f PROVE FALSE
    OBVIOUS
  <2>1. u + p <= v
    BY <1>5, Multiples
  <2> QED BY <1>1, <1>4, <1>6, <1>7, <2>1
<1> QED BY <1>1, <1>2, <1>4, <1>8, <1>9

\* The powers of two at a number's set bits make it up.
Powers == [b \in Nat |-> 2 ^ b]
BitsBelow(x, n) == {b \in 0 .. n - 1 : (x \div 2 ^ b) % 2 = 1}

LEMMA BitsMakeUp ==
  ASSUME NEW x \in Nat, NEW n \in Nat
  PROVE  /\ IsFiniteSet(BitsBelow(x, n)) /\ SumOver(BitsBelow(x, n), Powers) \in Nat
         /\ x \div 2 ^ n \in Nat
         /\ SumOver(BitsBelow(x, n), Powers) + 2 ^ n * (x \div 2 ^ n) = x
<1>1. \A b \in Nat : Powers[b] = 2 ^ b /\ 2 ^ b \in Nat \ {0}
  BY PowerIsPositive DEF Powers
<1>2. ASSUME NEW k \in Nat
      PROVE  /\ BitsBelow(x, k) \in SUBSET Nat /\ IsFiniteSet(BitsBelow(x, k))
             /\ SumOver(BitsBelow(x, k), Powers) \in Nat
  <2>1. IsFiniteSet(0 .. k - 1)
    BY FS_Interval
  <2>2. BitsBelow(x, k) \in SUBSET (0 .. k - 1) /\ BitsBelow(x, k) \in SUBSET Nat
    BY DEF BitsBelow
  <2>3. IsFiniteSet(BitsBelow(x, k))
    BY <2>1, <2>2, FS_Subset
  <2>4. \A b \in BitsBelow(x, k) : Powers[b] \in Nat
    BY <1>1, <2>2
  <2> QED BY <2>2, <2>3, <2>4, TotalNat
<1>3. \A k \in Nat : x \div 2 ^ k \in Nat
  BY <1>1, Divides
<1> DEFINE W == {k \in Nat : SumOver(BitsBelow(x, k), Powers) + 2 ^ k * (x \div 2 ^ k) = x}
<1>4. 0 \in W
  <2>1. BitsBelow(x, 0) = {}
    BY DEF BitsBelow
  <2>2. IsFiniteSet({})
    BY FS_EmptySet
  <2>3. SumOver(BitsBelow(x, 0), Powers) = 0
    BY <2>1, <2>2, TotalRules
  <2>4. 2 ^ 0 = 1 /\ x \div 1 = x
    OBVIOUS
  <2> QED BY <2>3, <2>4
<1>5. ASSUME NEW k \in Nat, k \in W PROVE k + 1 \in W
  <2>1. SumOver(BitsBelow(x, k), Powers) + 2 ^ k * (x \div 2 ^ k) = x
    BY <1>5
  <2>2. PICK p \in Nat \ {0} : p = 2 ^ k
    BY <1>1
  <2>3. 2 ^ (k + 1) = 2 * p
    BY <2>2, PowerDoubles
  <2>4. PICK a \in Nat : a = x \div p
    BY <1>3, <2>2
  <2>5. PICK h \in Nat, e \in 0 .. 1 : h = a \div 2 /\ e = a % 2 /\ a = 2 * h + e
    <3>1. a \div 2 \in Nat /\ a % 2 \in 0 .. 1 /\ a = 2 * (a \div 2) + (a % 2)
      OBVIOUS
    <3> QED BY <3>1
  <2>6. x \div 2 ^ (k + 1) = h
    BY <2>3, <2>4, <2>5, HalvesTwice
  <2>7. p * a = (2 * p) * h + p * e
    BY <2>5
  <2>8. SumOver(BitsBelow(x, k + 1), Powers) = SumOver(BitsBelow(x, k), Powers) + p * e
    <3>1. CASE e = 0
      <4>1. BitsBelow(x, k + 1) = BitsBelow(x, k)
        <5>1. 0 .. (k + 1) - 1 = (0 .. k - 1) \cup {k}
          OBVIOUS
        <5>2. (x \div 2 ^ k) % 2 # 1
          BY <2>2, <2>4, <2>5, <3>1
        <5> QED BY <5>1, <5>2 DEF BitsBelow
      <4> QED BY <1>2, <3>1, <4>1
    <3>2. CASE e = 1
      <4>1. BitsBelow(x, k + 1) = BitsBelow(x, k) \cup {k} /\ k \notin BitsBelow(x, k)
        <5>1. 0 .. (k + 1) - 1 = (0 .. k - 1) \cup {k} /\ k \notin 0 .. k - 1
          OBVIOUS
        <5>2. (x \div 2 ^ k) % 2 = 1
          BY <2>2, <2>4, <2>5, <3>2
        <5> QED BY <5>1, <5>2 DEF BitsBelow
      <4>2. PICK S, T : S = BitsBelow(x, k + 1) /\ T = BitsBelow(x, k)
        OBVIOUS
      <4>3. S \in SUBSET Nat /\ IsFiniteSet(S) /\ k \in S /\ S \ {k} = T /\ S \in SUBSET S
        BY <1>2, <4>1, <4>2
      <4>4. \A b \in S : Powers[b] \in Int
        BY <1>1, <4>3
      <4>5. SumOver(S, Powers) = Powers[k] + SumOver(S \ {k}, Powers)
        BY <4>3, <4>4, TotalRules
      <4>6. Powers[k] = p /\ p * e = p /\ SumOver(T, Powers) \in Nat
        BY <1>1, <1>2, <2>2, <3>2, <4>2
      <4>7. PICK m \in Nat : m = SumOver(T, Powers)
        BY <4>6
      <4>8. SumOver(S, Powers) = p + m
        BY <4>3, <4>5, <4>6, <4>7
      <4>9. SumOver(BitsBelow(x, k + 1), Powers) = p + m /\ SumOver(BitsBelow(x, k), Powers) = m
        BY <4>2, <4>7, <4>8
      <4>10. p + m = m + p * e
        BY <4>6
      <4> QED BY <4>9, <4>10
    <3> QED BY <2>5, <3>1, <3>2
  <2>9. PICK m \in Nat, w \in Nat : m = SumOver(BitsBelow(x, k), Powers) /\ w = p * e
    <3>1. p * e \in Nat
      OBVIOUS
    <3> QED BY <1>2, <3>1
  <2>10. m + (w + (2 * p) * h) = x
    BY <2>1, <2>2, <2>4, <2>7, <2>9
  <2>11. SumOver(BitsBelow(x, k + 1), Powers) + 2 ^ (k + 1) * (x \div 2 ^ (k + 1)) = x
    <3>1. 2 ^ (k + 1) * (x \div 2 ^ (k + 1)) = (2 * p) * h
      BY <2>3, <2>6
    <3>2. PICK y \in Nat : y = (2 * p) * h
      OBVIOUS
    <3>3. SumOver(BitsBelow(x, k + 1), Powers) = m + w
      BY <2>8, <2>9
    <3>4. m + w + y = x
      BY <2>10, <3>2
    <3> QED BY <3>1, <3>2, <3>3, <3>4
  <2> QED BY <2>11
<1>6. n \in W
  <2> HIDE DEF W
  <2> QED BY <1>4, <1>5, NatInduction0
<1> QED BY <1>2, <1>3, <1>6

\* Bits above the number itself are clear.
LEMMA AllItsBits ==
  ASSUME NEW x \in Nat
  PROVE  SumOver(BitsBelow(x, x + 1), Powers) = x
<1>1. 2 ^ (x + 1) \in Nat \ {0} /\ 2 ^ (x + 1) > x + 1
  BY PowerIsPositive, PowerExceeds
<1>2. PICK p \in Nat \ {0} : p = 2 ^ (x + 1) /\ p > x
  BY <1>1
<1>3. PICK a \in Nat, r \in 0 .. p - 1 : a = x \div p /\ x = p * a + r
  BY Divides
<1>4. a = 0
  <2>1. ~(0 < a)
    <3> SUFFICES ASSUME 0 < a PROVE FALSE
      OBVIOUS
    <3>1. p * 0 + p <= p * a /\ p * 0 = 0
      BY Multiples
    <3> QED BY <1>2, <1>3, <3>1
  <2> QED BY <1>3, <2>1
<1>5. 2 ^ (x + 1) * (x \div 2 ^ (x + 1)) = 0
  BY <1>2, <1>3, <1>4
<1>6. x + 1 \in Nat
  OBVIOUS
<1>7. /\ SumOver(BitsBelow(x, x + 1), Powers) \in Nat
      /\ SumOver(BitsBelow(x, x + 1), Powers) + 2 ^ (x + 1) * (x \div 2 ^ (x + 1)) = x
  BY <1>6, BitsMakeUp
<1> QED BY <1>5, <1>7

\* A sum taken part by part.
PartSum(S, f, h, k, L) ==
  /\ \A x \in S : f[x] \in L /\ h[x] \in Int
  /\ \A l \in L : k[l] = SumOver(Sharing(S, f, l), h)

LEMMA TotalByParts ==
  ASSUME NEW S, IsFiniteSet(S), NEW L, IsFiniteSet(L), NEW f, NEW h, NEW k,
         PartSum(S, f, h, k, L)
  PROVE  SumOver(S, h) = SumOver(L, k)
<1> DEFINE Of(V) == {x \in S : f[x] \in V}
           U == {V \in SUBSET L : SumOver(Of(V), h) = SumOver(V, k)}
<1>0. /\ \A x \in S : f[x] \in L /\ h[x] \in Int
      /\ \A l \in L : k[l] = SumOver(Sharing(S, f, l), h)
  BY DEF PartSum
<1>1. \A l \in L : Sharing(S, f, l) \in SUBSET S /\ k[l] \in Int
  <2> SUFFICES ASSUME NEW l \in L PROVE Sharing(S, f, l) \in SUBSET S /\ k[l] \in Int
    OBVIOUS
  <2>1. Sharing(S, f, l) \in SUBSET S
    BY DEF Sharing
  <2> QED BY <1>0, <2>1, TotalRules
<1>2. /\ SumOver({}, k) = 0
      /\ \A V \in SUBSET L : \A l \in V : SumOver(V, k) = k[l] + SumOver(V \ {l}, k)
  BY <1>1, TotalRules
<1>3. ASSUME NEW V \in SUBSET L, \A R \in SUBSET V : R # V => R \in U PROVE V \in U
  <2>1. CASE V = {}
    <3>1. Of(V) = {}
      BY <2>1
    <3>2. SumOver({}, h) = 0
      BY <1>0, TotalRules
    <3> QED BY <1>2, <2>1, <3>1, <3>2
  <2>2. CASE V # {}
    <3>1. PICK l \in V : TRUE
      BY <2>2
    <3>2. SumOver(Of(V \ {l}), h) = SumOver(V \ {l}, k)
      BY <1>3
    <3> DEFINE A == Sharing(S, f, l)
               B == Of(V \ {l})
    <3>3. Of(V) = A \cup B /\ A \cap B = {} /\ B \in SUBSET S /\ A \in SUBSET S
      BY DEF Sharing
    <3>4. k[l] = SumOver(A, h)
      BY <1>0
    <3>5. SumOver(V, k) = k[l] + SumOver(V \ {l}, k)
      BY <1>2
    <3> HIDE DEF A, B
    <3>6. IsFiniteSet(A) /\ IsFiniteSet(B)
      BY <3>3, FS_Subset
    <3>7. SumOver(A \cup B, h) = SumOver(A, h) + SumOver(B, h)
      <4>1. \A x \in A \cup B : h[x] \in Int
        BY <1>0, <3>3
      <4> QED BY <3>3, <3>6, <4>1, TotalUnion
    <3>8. SumOver(A \cup B, h) = SumOver(V, k)
      BY <3>2, <3>4, <3>5, <3>7 DEF B
    <3> QED BY <3>3, <3>8
  <2> QED BY <2>1, <2>2
<1>4. \A V \in SUBSET L : V \in U
  <2> HIDE DEF U
  <2> QED BY <1>3, SubsetInduction
<1>5. Of(L) = S
  BY <1>0
<1> QED BY <1>4, <1>5
=============================================================================
