------------------------ MODULE BlockCodec_proofs ------------------------
(***************************************************************************)
(* Theorems about BlockCodec, for every set of schedules and blocks.       *)
(*                                                                         *)
(* OrderOf is the order of a block's records that the schedule, the block  *)
(* and KrT determine.  Both walks are stacks of pending calls; the         *)
(* invariant says that the calls, one after the other, lead from the       *)
(* records still to come to the end of the block (Leads).  An encoding     *)
(* step moves a record from the pending ones to the stream, a decoding     *)
(* step takes it off the stream, and a node's children, bitmap and merge   *)
(* may take the node's place because they lead where the node leads.       *)
(***************************************************************************)
EXTENDS BlockCodec, NaturalsInduction, WellFoundedInduction, SequenceTheorems,
        FiniteSetTheorems, TLAPS
-----------------------------------------------------------------------------
(* Induction, and the recursive function behind the partition. *)

\* Induction over the naturals in the form of a set: a nonempty rest has a least element.
LEMMA SetInduction ==
  ASSUME NEW S, 0 \in S, \A n \in Nat : n \in S => n + 1 \in S
  PROVE  Nat \subseteq S
<1> DEFINE T == Nat \ S
           R == OpToRel(<, Nat)
<1>1. SUFFICES ASSUME T # {} PROVE FALSE
  OBVIOUS
<1>2. T \subseteq Nat
  OBVIOUS
<1>3. IsWellFoundedOn(R, Nat)
  BY NatLessThanWellFounded
<1>4. \A y, x \in Nat : y < x => <<y, x>> \in R
  BY DEF OpToRel
<1> HIDE DEF R
<1>5. PICK x \in T : \A y \in T : ~(<<y, x>> \in R)
  <2> HIDE DEF T
  <2>1. QED
    BY <1>1, <1>2, <1>3, WFMin
<1>6. x \in Nat /\ x \notin S
  OBVIOUS
<1>7. x # 0 /\ x - 1 \in Nat /\ x - 1 < x /\ (x - 1) + 1 = x
  BY <1>6
<1>8. x - 1 \notin T
  BY <1>5, <1>4, <1>6, <1>7
<1>9. QED
  BY <1>6, <1>7, <1>8

\* Induction up to a bound.
LEMMA BoundedInduction ==
  ASSUME NEW n \in Nat, NEW S, 0 \in S, \A i \in 0 .. (n - 1) : i \in S => i + 1 \in S
  PROVE  0 .. n \subseteq S
<1> DEFINE U == {i \in Nat : i <= n => i \in S}
<1>1. 0 \in U
  OBVIOUS
<1>2. ASSUME NEW i \in Nat, i \in U
      PROVE  i + 1 \in U
  <2>1. CASE i + 1 <= n
    <3>1. i \in 0 .. (n - 1) /\ i <= n
      BY <2>1
    <3>2. i \in S
      BY <1>2, <3>1
    <3>3. i + 1 \in S
      BY <3>1, <3>2
    <3>4. QED
      BY <3>3
  <2>2. CASE ~(i + 1 <= n)
    BY <2>2
  <2>3. QED
    BY <2>1, <2>2
<1>3. Nat \subseteq U
  <2> HIDE DEF U
  <2>1. QED
    BY <1>1, <1>2, SetInduction
<1>4. QED
  BY <1>3

\* Keep

IsKept(f, seq, S) ==
  f = [i \in 0 .. Len(seq) |->
         IF i = 0 THEN <<>>
         ELSE IF seq[i] \in S THEN Append(f[i - 1], seq[i]) ELSE f[i - 1]]

\* The recursive function Kept names exists.
LEMMA KeptExists ==
  ASSUME NEW T, NEW seq \in Seq(T), NEW S
  PROVE  \E f : IsKept(f, seq, S)
<1> DEFINE Upto(f, k) ==
      f = [i \in 0 .. k |-> IF i = 0 THEN <<>>
                            ELSE IF seq[i] \in S THEN Append(f[i - 1], seq[i]) ELSE f[i - 1]]
           U == {k \in Nat : \E f : Upto(f, k)}
<1>1. 0 \in U
  <2> DEFINE f == [i \in 0 .. 0 |-> <<>>]
  <2>1. Upto(f, 0)
    <3>1. \A i \in 0 .. 0 : i = 0
      OBVIOUS
    <3>2. QED
      BY <3>1
  <2>2. QED
    BY <2>1
<1>2. ASSUME NEW k \in Nat, k \in U
      PROVE  k + 1 \in U
  <2>1. PICK f : Upto(f, k)
    BY <1>2
  <2> DEFINE next == IF seq[k + 1] \in S THEN Append(f[k], seq[k + 1]) ELSE f[k]
             g == [i \in 0 .. (k + 1) |-> IF i <= k THEN f[i] ELSE next]
  <2>2. \A i \in 0 .. k : g[i] = f[i]
    OBVIOUS
  <2>3. g[k + 1] = next
    <3>1. ~(k + 1 <= k) /\ k + 1 \in 0 .. (k + 1)
      OBVIOUS
    <3>2. QED
      BY <3>1
  <2>4. \A i \in 0 .. (k + 1) :
          g[i] = IF i = 0 THEN <<>>
                 ELSE IF seq[i] \in S THEN Append(g[i - 1], seq[i]) ELSE g[i - 1]
    <3> SUFFICES ASSUME NEW i \in 0 .. (k + 1)
                 PROVE g[i] = IF i = 0 THEN <<>>
                              ELSE IF seq[i] \in S THEN Append(g[i - 1], seq[i]) ELSE g[i - 1]
      OBVIOUS
    <3>1. CASE i \in 0 .. k
      <4>1. f[i] = IF i = 0 THEN <<>>
                   ELSE IF seq[i] \in S THEN Append(f[i - 1], seq[i]) ELSE f[i - 1]
        BY <2>1, <3>1
      <4>2. i # 0 => i - 1 \in 0 .. k
        BY <3>1
      <4> HIDE DEF g
      <4>3. QED
        BY <2>2, <3>1, <4>1, <4>2
    <3>2. CASE i = k + 1
      <4>1. i # 0 /\ i - 1 = k /\ k \in 0 .. k
        BY <3>2
      <4> HIDE DEF g
      <4>2. QED
        BY <2>2, <2>3, <3>2, <4>1
    <3>3. QED
      BY <3>1, <3>2
  <2>5. Upto(g, k + 1)
    <3> DEFINE h == [i \in 0 .. (k + 1) |->
                       IF i = 0 THEN <<>>
                       ELSE IF seq[i] \in S THEN Append(g[i - 1], seq[i]) ELSE g[i - 1]]
    <3>1. \A i \in 0 .. (k + 1) : g[i] = h[i]
      BY <2>4
    <3>2. g = [i \in 0 .. (k + 1) |-> g[i]] /\ h = [i \in 0 .. (k + 1) |-> h[i]]
      OBVIOUS
    <3>3. g = h
      <4> HIDE DEF g, h
      <4>1. QED
        BY <3>1, <3>2
    <3> HIDE DEF g
    <3>4. QED
      BY <3>3
  <2> HIDE DEF g
  <2>6. QED
    BY <2>5
<1>3. Len(seq) \in U
  <2> HIDE DEF U
  <2>1. Len(seq) \in Nat
    OBVIOUS
  <2>2. QED
    BY <1>1, <1>2, <2>1, SetInduction
<1>4. QED
  BY <1>3 DEF IsKept

\* So Kept, the choice of such a function, is one.
LEMMA KeptIsChosen ==
  ASSUME NEW seq, NEW S, NEW f, IsKept(f, seq, S)
  PROVE  IsKept(Kept(seq, S), seq, S)
<1>1. Kept(seq, S) = [i \in 0 .. Len(seq) |->
           IF i = 0 THEN <<>>
           ELSE IF seq[i] \in S THEN Append(Kept(seq, S)[i - 1], seq[i])
                ELSE Kept(seq, S)[i - 1]]
  BY Zenon DEF Kept, IsKept
<1>2. QED
  BY <1>1, Zenon DEF IsKept

\* Kept step by step: the partition loop of part_core_scalar.
LEMMA KeptUnfolds ==
  ASSUME NEW T, NEW seq \in Seq(T), NEW S
  PROVE  /\ Kept(seq, S)[0] = <<>>
         /\ \A i \in 1 .. Len(seq) :
              Kept(seq, S)[i] = IF seq[i] \in S THEN Append(Kept(seq, S)[i - 1], seq[i])
                                ELSE Kept(seq, S)[i - 1]
<1>1. PICK f : IsKept(f, seq, S)
  BY KeptExists
<1>2. IsKept(Kept(seq, S), seq, S)
  BY <1>1, KeptIsChosen
<1>3. PICK g : g = Kept(seq, S)
  OBVIOUS
<1>4. g = [i \in 0 .. Len(seq) |->
         IF i = 0 THEN <<>>
         ELSE IF seq[i] \in S THEN Append(g[i - 1], seq[i]) ELSE g[i - 1]]
  BY <1>2, <1>3 DEF IsKept
<1>5. Len(seq) \in Nat
  OBVIOUS
<1>6. g[0] = <<>>
  <2>1. 0 \in 0 .. Len(seq)
    BY <1>5
  <2>2. QED
    BY <1>4, <2>1
<1>7. ASSUME NEW i \in 1 .. Len(seq)
      PROVE  g[i] = IF seq[i] \in S THEN Append(g[i - 1], seq[i]) ELSE g[i - 1]
  <2>1. i \in 0 .. Len(seq) /\ i # 0
    BY <1>5
  <2>2. QED
    BY <1>4, <2>1
<1>8. QED
  BY <1>3, <1>6, <1>7

\* After i symbols at most i are kept, all of them of the set.
LEMMA KeptType ==
  ASSUME NEW T, NEW seq \in Seq(T), NEW S
  PROVE  \A i \in 0 .. Len(seq) :
           Kept(seq, S)[i] \in Seq(T \cap S) /\ Len(Kept(seq, S)[i]) <= i
<1> DEFINE U == {i \in 0 .. Len(seq) :
                   Kept(seq, S)[i] \in Seq(T \cap S) /\ Len(Kept(seq, S)[i]) <= i}
<1>1. Len(seq) \in Nat
  OBVIOUS
<1>2. 0 \in U
  <2>1. Kept(seq, S)[0] = <<>>
    BY KeptUnfolds
  <2>2. <<>> \in Seq(T \cap S) /\ Len(<<>>) <= 0 /\ 0 \in 0 .. Len(seq)
    BY <1>1
  <2>3. QED
    BY <2>1, <2>2, Zenon
<1>3. ASSUME NEW i \in 0 .. (Len(seq) - 1), i \in U
      PROVE  i + 1 \in U
  <2>1. i + 1 \in 1 .. Len(seq) /\ (i + 1) - 1 = i
    BY <1>1
  <2>2. Kept(seq, S)[i + 1] = IF seq[i + 1] \in S THEN Append(Kept(seq, S)[i], seq[i + 1])
                              ELSE Kept(seq, S)[i]
    BY <2>1, KeptUnfolds
  <2>3. seq[i + 1] \in T
    BY <2>1
  <2>4. PICK q \in Seq(T \cap S) : q = Kept(seq, S)[i] /\ Len(q) <= i
    BY <1>3
  <2>5. Len(q) \in Nat
    OBVIOUS
  <2>6. CASE seq[i + 1] \in S
    <3>1. PICK z : z = Append(q, seq[i + 1])
      OBVIOUS
    <3>2. z \in Seq(T \cap S) /\ Len(z) = Len(q) + 1
      BY <2>3, <2>6, <3>1
    <3>3. Kept(seq, S)[i + 1] = z
      BY <2>2, <2>4, <2>6, <3>1
    <3>4. Len(z) <= i + 1 /\ i + 1 \in 0 .. Len(seq)
      BY <1>1, <2>4, <2>5, <3>2
    <3>5. QED
      BY <3>2, <3>3, <3>4
  <2>7. CASE seq[i + 1] \notin S
    BY <1>1, <2>1, <2>2, <2>4, <2>5, <2>7
  <2>8. QED
    BY <2>6, <2>7
<1>4. 0 .. Len(seq) \subseteq U
  <2> HIDE DEF U
  <2>1. QED
    BY <1>1, <1>2, <1>3, BoundedInduction
<1>5. QED
  BY <1>4

\* A half of a partition is no longer than the whole.
LEMMA KeepType ==
  ASSUME NEW T, NEW seq \in Seq(T), NEW S
  PROVE  Keep(seq, S) \in Seq(T \cap S) /\ Len(Keep(seq, S)) \in 0 .. Len(seq)
<1>1. Len(seq) \in Nat /\ Len(seq) \in 0 .. Len(seq)
  OBVIOUS
<1>2. PICK q \in Seq(T \cap S) : q = Keep(seq, S) /\ Len(q) <= Len(seq)
  BY <1>1, KeptType DEF Keep
<1>3. Len(q) \in Nat
  OBVIOUS
<1>4. QED
  BY <1>1, <1>2, <1>3

\* What is kept of a sequence does not depend on what follows it.
LEMMA KeptLocal ==
  ASSUME NEW T, NEW seq \in Seq(T), NEW seq2 \in Seq(T), NEW S,
         Len(seq) <= Len(seq2), \A i \in 1 .. Len(seq) : seq[i] = seq2[i]
  PROVE  \A i \in 0 .. Len(seq) : Kept(seq, S)[i] = Kept(seq2, S)[i]
<1> DEFINE U == {i \in 0 .. Len(seq) : Kept(seq, S)[i] = Kept(seq2, S)[i]}
<1>1. Len(seq) \in Nat /\ Len(seq2) \in Nat
  OBVIOUS
<1>2. 0 \in U
  <2>1. Kept(seq, S)[0] = <<>> /\ Kept(seq2, S)[0] = <<>>
    BY KeptUnfolds
  <2>2. QED
    BY <1>1, <2>1
<1>3. ASSUME NEW i \in 0 .. (Len(seq) - 1), i \in U
      PROVE  i + 1 \in U
  <2>1. i + 1 \in 1 .. Len(seq) /\ (i + 1) - 1 = i /\ i + 1 \in 1 .. Len(seq2)
    BY <1>1
  <2>2. Kept(seq, S)[i + 1] = IF seq[i + 1] \in S THEN Append(Kept(seq, S)[i], seq[i + 1])
                              ELSE Kept(seq, S)[i]
    BY <2>1, KeptUnfolds
  <2>3. Kept(seq2, S)[i + 1] = IF seq2[i + 1] \in S THEN Append(Kept(seq2, S)[i], seq2[i + 1])
                               ELSE Kept(seq2, S)[i]
    BY <2>1, KeptUnfolds
  <2>4. seq[i + 1] = seq2[i + 1] /\ Kept(seq, S)[i] = Kept(seq2, S)[i]
    BY <1>3, <2>1
  <2>5. i + 1 \in 0 .. Len(seq)
    BY <2>1
  <2>6. QED
    BY <2>2, <2>3, <2>4, <2>5
<1>4. 0 .. Len(seq) \subseteq U
  <2> HIDE DEF U
  <2>1. QED
    BY <1>1, <1>2, <1>3, BoundedInduction
<1>5. QED
  BY <1>4

\* Nothing is kept of nothing.
LEMMA KeepEmpty ==
  ASSUME NEW S
  PROVE  Keep(<<>>, S) = <<>>
<1>1. <<>> \in Seq({}) /\ Len(<<>>) = 0
  BY EmptySeq
<1>2. Kept(<<>>, S)[0] = <<>>
  BY <1>1, KeptUnfolds, ZenonT(40)
<1>3. QED
  BY <1>1, <1>2 DEF Keep

\* One symbol more.
LEMMA KeepAppend ==
  ASSUME NEW T, NEW seq \in Seq(T), NEW e \in T, NEW S
  PROVE  Keep(Append(seq, e), S) = IF e \in S THEN Append(Keep(seq, S), e) ELSE Keep(seq, S)
<1>1. PICK q \in Seq(T) : q = Append(seq, e)
  <2>1. Append(seq, e) \in Seq(T)
    OBVIOUS
  <2>2. QED
    BY <2>1, Zenon
<1>2. Len(q) = Len(seq) + 1 /\ Len(seq) \in Nat /\ q[Len(seq) + 1] = e
       /\ \A i \in 1 .. Len(seq) : seq[i] = q[i]
  BY <1>1
<1>3. Len(q) \in 1 .. Len(q) /\ Len(q) - 1 = Len(seq) /\ Len(seq) \in 0 .. Len(seq)
       /\ Len(seq) <= Len(q)
  BY <1>2
<1>4. Kept(q, S)[Len(q)] = IF q[Len(q)] \in S THEN Append(Kept(q, S)[Len(seq)], q[Len(q)])
                           ELSE Kept(q, S)[Len(seq)]
  BY <1>3, KeptUnfolds
<1>5. Kept(seq, S)[Len(seq)] = Kept(q, S)[Len(seq)]
  BY <1>2, <1>3, KeptLocal
<1>6. QED
  BY <1>1, <1>2, <1>4, <1>5 DEF Keep

\* Partitions one below the other keep what is in both sets.
LEMMA KeepKeep ==
  ASSUME NEW T, NEW seq \in Seq(T), NEW S, NEW V
  PROVE  Keep(Keep(seq, S), V) = Keep(seq, S \cap V)
<1> DEFINE U == {i \in 0 .. Len(seq) : Keep(Kept(seq, S)[i], V) = Kept(seq, S \cap V)[i]}
<1>1. Len(seq) \in Nat
  OBVIOUS
<1>2. 0 \in U
  <2>1. Kept(seq, S)[0] = <<>> /\ Kept(seq, S \cap V)[0] = <<>>
    BY KeptUnfolds
  <2>2. QED
    BY <1>1, <2>1, KeepEmpty
<1>3. ASSUME NEW i \in 0 .. (Len(seq) - 1), i \in U
      PROVE  i + 1 \in U
  <2>1. i + 1 \in 1 .. Len(seq) /\ (i + 1) - 1 = i /\ i \in 0 .. Len(seq)
         /\ i + 1 \in 0 .. Len(seq)
    BY <1>1
  <2>2. Kept(seq, S)[i + 1] = IF seq[i + 1] \in S THEN Append(Kept(seq, S)[i], seq[i + 1])
                              ELSE Kept(seq, S)[i]
    BY <2>1, KeptUnfolds
  <2>3. Kept(seq, S \cap V)[i + 1] =
          IF seq[i + 1] \in S \cap V THEN Append(Kept(seq, S \cap V)[i], seq[i + 1])
          ELSE Kept(seq, S \cap V)[i]
    BY <2>1, KeptUnfolds
  <2>4. PICK q : q = Kept(seq, S)[i]
    OBVIOUS
  <2>5. q \in Seq(T \cap S) /\ Keep(q, V) = Kept(seq, S \cap V)[i]
    BY <1>3, <2>1, <2>4, KeptType
  <2>6. seq[i + 1] \in T
    BY <2>1
  <2>7. CASE seq[i + 1] \in S
    <3>1. Keep(Append(q, seq[i + 1]), V) =
            IF seq[i + 1] \in V THEN Append(Keep(q, V), seq[i + 1]) ELSE Keep(q, V)
      <4>1. PICK X : X = T \cap S
        OBVIOUS
      <4>2. PICK e \in X : e = seq[i + 1]
        BY <2>6, <2>7, <4>1
      <4>3. q \in Seq(X)
        BY <2>5, <4>1
      <4>4. Keep(Append(q, e), V) = IF e \in V THEN Append(Keep(q, V), e) ELSE Keep(q, V)
        BY <4>3, KeepAppend
      <4>5. QED
        BY <4>2, <4>4
    <3>2. QED
      BY <2>1, <2>2, <2>3, <2>4, <2>5, <2>7, <3>1
  <2>8. CASE seq[i + 1] \notin S
    BY <2>1, <2>2, <2>3, <2>4, <2>5, <2>8
  <2>9. QED
    BY <2>7, <2>8
<1>4. 0 .. Len(seq) \subseteq U
  <2> HIDE DEF U
  <2>1. QED
    BY <1>1, <1>2, <1>3, BoundedInduction
<1>5. Len(seq) \in 0 .. Len(seq)
  BY <1>1
<1>6. QED
  BY <1>4, <1>5 DEF Keep

Starts(p, q) == Len(p) <= Len(q) /\ \A k \in 1 .. Len(p) : q[k] = p[k]

\* What is kept of a prefix is a prefix of what is kept of a longer one.
LEMMA KeptGrows ==
  ASSUME NEW T, NEW seq \in Seq(T), NEW S, NEW i \in 0 .. Len(seq), NEW j \in i .. Len(seq)
  PROVE  Starts(Kept(seq, S)[i], Kept(seq, S)[j])
<1>1. PICK p \in Seq(T \cap S) : p = Kept(seq, S)[i]
  BY KeptType
<1> DEFINE U == {d \in 0 .. (Len(seq) - i) :
                   /\ Len(p) <= Len(Kept(seq, S)[i + d])
                   /\ \A k \in 1 .. Len(p) : Kept(seq, S)[i + d][k] = p[k]}
<1>2. Len(seq) \in Nat /\ Len(seq) - i \in Nat /\ Len(p) \in Nat
  OBVIOUS
<1>3. 0 \in U
  <2>1. i + 0 = i
    OBVIOUS
  <2>2. QED
    BY <1>1, <1>2, <2>1
<1>4. ASSUME NEW d \in 0 .. (Len(seq) - i - 1), d \in U
      PROVE  d + 1 \in U
  <2>1. i + (d + 1) \in 1 .. Len(seq) /\ (i + (d + 1)) - 1 = i + d /\ i + d \in 0 .. Len(seq)
    BY <1>2
  <2>2. PICK q \in Seq(T \cap S) : q = Kept(seq, S)[i + d]
    BY <2>1, KeptType
  <2>3. PICK e \in T : e = seq[i + (d + 1)]
    BY <2>1
  <2>4. Kept(seq, S)[i + (d + 1)] = IF e \in S THEN Append(q, e) ELSE q
    BY <2>1, <2>2, <2>3, KeptUnfolds
  <2>5. Len(p) <= Len(q) /\ \A k \in 1 .. Len(p) : q[k] = p[k]
    BY <1>4, <2>2
  <2>6. Len(q) \in Nat
    OBVIOUS
  <2>7. d + 1 \in 0 .. (Len(seq) - i)
    BY <1>2
  <2>8. CASE e \in S
    <3>1. Len(Append(q, e)) = Len(q) + 1 /\ \A k \in 1 .. Len(q) : Append(q, e)[k] = q[k]
      BY <2>8
    <3>2. Len(p) <= Len(Append(q, e))
      BY <1>2, <2>5, <2>6, <3>1
    <3>3. \A k \in 1 .. Len(p) : Append(q, e)[k] = p[k]
      BY <1>2, <2>5, <2>6, <3>1
    <3>4. QED
      BY <2>4, <2>7, <2>8, <3>2, <3>3
  <2>9. CASE e \notin S
    BY <2>4, <2>5, <2>7, <2>9
  <2>10. QED
    BY <2>8, <2>9
<1>5. 0 .. (Len(seq) - i) \subseteq U
  <2> HIDE DEF U
  <2>1. QED
    BY <1>2, <1>3, <1>4, BoundedInduction
<1>6. /\ Len(p) <= Len(Kept(seq, S)[j])
      /\ \A k \in 1 .. Len(p) : Kept(seq, S)[j][k] = p[k]
  <2>1. j - i \in 0 .. (Len(seq) - i) /\ i + (j - i) = j
    BY <1>2
  <2>2. QED
    BY <1>5, <2>1
<1>7. QED
  BY <1>1, <1>6 DEF Starts

\* A symbol that is kept stands at the count of those kept up to it.
LEMMA KeptElement ==
  ASSUME NEW T, NEW seq \in Seq(T), NEW S, NEW i \in 1 .. Len(seq), seq[i] \in S
  PROVE  /\ Len(Kept(seq, S)[i]) \in 1 .. Len(Keep(seq, S))
         /\ Keep(seq, S)[Len(Kept(seq, S)[i])] = seq[i]
<1>1. Len(seq) \in Nat /\ i - 1 \in 0 .. Len(seq) /\ i \in 0 .. Len(seq)
       /\ Len(seq) \in i .. Len(seq)
  OBVIOUS
<1>2. PICK p \in Seq(T \cap S) : p = Kept(seq, S)[i - 1]
  BY <1>1, KeptType
<1>3. PICK q \in Seq(T \cap S) : q = Kept(seq, S)[i]
  BY <1>1, KeptType
<1>4. PICK all \in Seq(T \cap S) : all = Keep(seq, S)
  BY KeepType
<1>5. q = Append(p, seq[i])
  BY <1>2, <1>3, KeptUnfolds
<1>6. Len(p) \in Nat /\ Len(all) \in Nat
  OBVIOUS
<1>7. Len(q) = Len(p) + 1 /\ q[Len(p) + 1] = seq[i]
  BY <1>5
<1>8. Len(q) <= Len(all) /\ \A k \in 1 .. Len(q) : all[k] = q[k]
  <2>0. PICK m \in 0 .. Len(seq) : m = i
    BY <1>1
  <2>1. PICK n \in m .. Len(seq) : n = Len(seq)
    BY <1>1, <2>0
  <2>2. Starts(Kept(seq, S)[m], Kept(seq, S)[n])
    BY KeptGrows
  <2>3. all = Kept(seq, S)[n]
    BY <1>4, <2>1 DEF Keep
  <2>4. QED
    BY <1>3, <2>0, <2>1, <2>2, <2>3 DEF Starts
<1>9. Len(q) \in 1 .. Len(q) /\ Len(q) \in 1 .. Len(all)
  BY <1>6, <1>7, <1>8
<1>10. QED
  BY <1>3, <1>4, <1>7, <1>8, <1>9

\* The root's ranks are the block.
LEMMA KeepAll ==
  ASSUME NEW S, NEW seq \in Seq(S)
  PROVE  Keep(seq, S) = seq
<1> DEFINE U == {i \in 0 .. Len(seq) : Len(Kept(seq, S)[i]) = i}
<1>1. Len(seq) \in Nat /\ Len(seq) \in 0 .. Len(seq)
  OBVIOUS
<1>2. 0 \in U
  <2>1. Kept(seq, S)[0] = <<>>
    BY KeptUnfolds
  <2>2. QED
    BY <1>1, <2>1
<1>3. ASSUME NEW i \in 0 .. (Len(seq) - 1), i \in U
      PROVE  i + 1 \in U
  <2>1. i + 1 \in 1 .. Len(seq) /\ (i + 1) - 1 = i /\ i \in 0 .. Len(seq)
         /\ i + 1 \in 0 .. Len(seq)
    BY <1>1
  <2>2. seq[i + 1] \in S
    BY <2>1
  <2>3. PICK q \in Seq(S \cap S) : q = Kept(seq, S)[i]
    BY <2>1, KeptType
  <2>4. Kept(seq, S)[i + 1] = Append(q, seq[i + 1])
    <3>1. Kept(seq, S)[i + 1] = IF seq[i + 1] \in S THEN Append(Kept(seq, S)[i], seq[i + 1])
                                ELSE Kept(seq, S)[i]
      BY <2>1, KeptUnfolds
    <3>2. QED
      BY <2>2, <2>3, <3>1
  <2>5. Len(Append(q, seq[i + 1])) = Len(q) + 1
    BY <2>2
  <2>6. QED
    BY <1>3, <2>1, <2>3, <2>4, <2>5
<1>4. 0 .. Len(seq) \subseteq U
  <2> HIDE DEF U
  <2>1. QED
    BY <1>1, <1>2, <1>3, BoundedInduction
<1>5. \A i \in 1 .. Len(seq) : Keep(seq, S)[i] = seq[i]
  <2> SUFFICES ASSUME NEW i \in 1 .. Len(seq)
               PROVE Keep(seq, S)[i] = seq[i]
    OBVIOUS
  <2>1. seq[i] \in S /\ i \in 0 .. Len(seq)
    BY <1>1
  <2>2. Len(Kept(seq, S)[i]) = i
    BY <1>4, <2>1
  <2>3. QED
    BY <2>1, <2>2, KeptElement
<1>6. Len(Keep(seq, S)) = Len(seq)
  BY <1>1, <1>4 DEF Keep
<1>7. PICK q \in Seq(S \cap S) : q = Keep(seq, S)
  BY KeepType
<1>8. q \in Seq(S)
  BY <1>7
<1>9. QED
  BY <1>5, <1>6, <1>7, <1>8, SeqEqual

\* Two sets that share a sequence out between them keep all of it.
LEMMA KeptSplit ==
  ASSUME NEW T, NEW seq \in Seq(T), NEW S, NEW V,
         \A i \in 1 .. Len(seq) : (seq[i] \in S) # (seq[i] \in V)
  PROVE  \A i \in 0 .. Len(seq) : Len(Kept(seq, S)[i]) + Len(Kept(seq, V)[i]) = i
<1> DEFINE U == {i \in 0 .. Len(seq) : Len(Kept(seq, S)[i]) + Len(Kept(seq, V)[i]) = i}
<1>1. Len(seq) \in Nat
  OBVIOUS
<1>2. 0 \in U
  <2>1. Kept(seq, S)[0] = <<>> /\ Kept(seq, V)[0] = <<>>
    BY KeptUnfolds
  <2>2. Len(<<>>) = 0 /\ 0 \in 0 .. Len(seq) /\ 0 + 0 = 0
    BY <1>1
  <2>3. QED
    BY <2>1, <2>2
<1>3. ASSUME NEW i \in 0 .. (Len(seq) - 1), i \in U
      PROVE  i + 1 \in U
  <2>1. i + 1 \in 1 .. Len(seq) /\ (i + 1) - 1 = i /\ i \in 0 .. Len(seq)
         /\ i + 1 \in 0 .. Len(seq)
    BY <1>1
  <2>2. PICK e \in T : e = seq[i + 1]
    BY <2>1
  <2>3. PICK p \in Seq(T \cap S) : p = Kept(seq, S)[i]
    BY <2>1, KeptType
  <2>4. PICK q \in Seq(T \cap V) : q = Kept(seq, V)[i]
    BY <2>1, KeptType
  <2>5. Kept(seq, S)[i + 1] = IF e \in S THEN Append(p, e) ELSE p
    BY <2>1, <2>2, <2>3, KeptUnfolds
  <2>6. Kept(seq, V)[i + 1] = IF e \in V THEN Append(q, e) ELSE q
    BY <2>1, <2>2, <2>4, KeptUnfolds
  <2>7. Len(p) + Len(q) = i /\ Len(p) \in Nat /\ Len(q) \in Nat
    <3>1. Len(p) + Len(q) = i
      BY <1>3, <2>3, <2>4, Zenon
    <3>2. QED
      BY <3>1
  <2>8. (e \in S) # (e \in V)
    BY <2>1, <2>2
  <2>9. CASE e \in S
    <3>1. Len(Append(p, e)) = Len(p) + 1
      BY <2>9
    <3>2. e \notin V
      BY <2>8, <2>9
    <3>3. QED
      <4>1. Kept(seq, S)[i + 1] = Append(p, e) /\ Kept(seq, V)[i + 1] = q
        BY <2>5, <2>6, <2>9, <3>2
      <4>2. (Len(p) + 1) + Len(q) = i + 1
        BY <2>7
      <4>3. QED
        BY <2>1, <3>1, <4>1, <4>2, Zenon
  <2>10. CASE e \notin S
    <3>1. e \in V
      BY <2>8, <2>10
    <3>2. Len(Append(q, e)) = Len(q) + 1
      BY <3>1
    <3>3. QED
      <4>1. Kept(seq, S)[i + 1] = p /\ Kept(seq, V)[i + 1] = Append(q, e)
        BY <2>5, <2>6, <2>10, <3>1
      <4>2. Len(p) + (Len(q) + 1) = i + 1
        BY <2>7
      <4>3. QED
        BY <2>1, <3>2, <4>1, <4>2, Zenon
  <2>11. QED
    BY <2>9, <2>10
<1>4. 0 .. Len(seq) \subseteq U
  <2> HIDE DEF U
  <2>1. QED
    BY <1>1, <1>2, <1>3, BoundedInduction
<1>5. QED
  BY <1>4

OnesUpto(bm, i) == {k \in 1 .. i : bm[k]}

\* The ones of the first bits count what is kept of the first elements.
LEMMA KeptCount ==
  ASSUME NEW T, NEW seq \in Seq(T), NEW S, NEW bm,
         \A i \in 1 .. Len(seq) : bm[i] <=> seq[i] \in S
  PROVE  \A i \in 0 .. Len(seq) :
           Cardinality(OnesUpto(bm, i)) = Len(Kept(seq, S)[i])
<1> DEFINE C(i) == {k \in 1 .. i : bm[k]}
           U == {i \in 0 .. Len(seq) :
                   IsFiniteSet(C(i)) /\ Cardinality(C(i)) = Len(Kept(seq, S)[i])}
<1>1. Len(seq) \in Nat
  OBVIOUS
<1>2. 0 \in U
  <2>1. Kept(seq, S)[0] = <<>>
    BY KeptUnfolds
  <2>2. C(0) = {}
    OBVIOUS
  <2>3. IsFiniteSet({}) /\ Cardinality({}) = 0
    BY FS_EmptySet
  <2>4. Len(<<>>) = 0 /\ 0 \in 0 .. Len(seq)
    BY <1>1
  <2> HIDE DEF C
  <2>5. QED
    BY <2>1, <2>2, <2>3, <2>4
<1>3. ASSUME NEW i \in 0 .. (Len(seq) - 1), i \in U
      PROVE  i + 1 \in U
  <2>1. i + 1 \in 1 .. Len(seq) /\ (i + 1) - 1 = i /\ i \in 0 .. Len(seq)
         /\ i + 1 \in 0 .. Len(seq)
    BY <1>1
  <2>2. PICK e \in T : e = seq[i + 1]
    BY <2>1
  <2>3. PICK p \in Seq(T \cap S) : p = Kept(seq, S)[i]
    BY <2>1, KeptType
  <2>4. Kept(seq, S)[i + 1] = IF e \in S THEN Append(p, e) ELSE p
    BY <2>1, <2>2, <2>3, KeptUnfolds
  <2>5. IsFiniteSet(C(i)) /\ Cardinality(C(i)) = Len(p) /\ i + 1 \notin C(i)
    BY <1>3, <2>3
  <2>6. CASE e \in S
    <3>1. C(i + 1) = C(i) \cup {i + 1}
      BY <2>1, <2>2, <2>6
    <3>2. IsFiniteSet(C(i) \cup {i + 1}) /\ Cardinality(C(i) \cup {i + 1}) = Cardinality(C(i)) + 1
      <4> HIDE DEF C
      <4>1. QED
        BY <2>5, FS_AddElement
    <3>3. Len(Append(p, e)) = Len(p) + 1
      BY <2>6
    <3> HIDE DEF C
    <3>4. QED
      BY <2>1, <2>4, <2>5, <2>6, <3>1, <3>2, <3>3
  <2>7. CASE e \notin S
    <3>1. C(i + 1) = C(i)
      BY <2>1, <2>2, <2>7
    <3> HIDE DEF C
    <3>2. QED
      BY <2>1, <2>4, <2>5, <2>7, <3>1, <2>3
  <2>8. QED
    BY <2>6, <2>7
<1>4. 0 .. Len(seq) \subseteq U
  <2> HIDE DEF U
  <2>1. QED
    BY <1>1, <1>2, <1>3, BoundedInduction
<1>5. \A i \in 0 .. Len(seq) : C(i) = OnesUpto(bm, i)
  BY DEF OnesUpto
<1> HIDE DEF C
<1>6. QED
  BY <1>4, <1>5

-----------------------------------------------------------------------------
(* The ranks below a record. *)

\* The ranks of a record, given those of the records below it.
Under(f, s, r) ==
  IF s[r].kind = "FLAT" THEN s[r].param .. (s[r].param + 2^s[r].flat - 1)
  ELSE IF s[r].kind = "BOTH_LEAVES" THEN {s[r].param, s[r].param + 1}
  ELSE IF s[r].kind = "LEAF_LEFT" THEN {s[r].param} \cup f[r + 1]
  ELSE f[r + 1] \cup f[r + s[r].right]

IsRanks(f, s) == f = [r \in DOMAIN s |-> Under(f, s, r)]

\* Ranks are numbers.
LEMMA RanksAreNat == Ranks \subseteq Nat
  BY DEF Ranks

\* The ranks of a record depend on those of later records only.
LEMMA UnderAgrees ==
  ASSUME NEW s, NEW last \in Ranks, Preorder(s), DOMAIN s = 0 .. last,
         NEW r \in 0 .. last, NEW f, NEW g, \A q \in (r + 1) .. last : f[q] = g[q]
  PROVE  Under(f, s, r) = Under(g, s, r)
<1>1. s[r].kind \in {"FLAT", "BOTH_LEAVES", "LEAF_LEFT", "FULL"}
  BY DEF Preorder
<1>2. CASE s[r].kind = "FLAT"
  BY <1>2 DEF Under
<1>3. CASE s[r].kind = "BOTH_LEAVES"
  BY <1>3 DEF Under
<1>4. CASE s[r].kind = "LEAF_LEFT"
  <2>1. r + 1 \in 0 .. last
    BY <1>4 DEF Preorder, Inner
  <2>2. f[r + 1] = g[r + 1]
    BY <2>1 DEF Ranks
  <2>3. Under(f, s, r) = {s[r].param} \cup f[r + 1]
    BY <1>4 DEF Under
  <2>4. Under(g, s, r) = {s[r].param} \cup g[r + 1]
    BY <1>4 DEF Under
  <2>5. QED
    BY <2>2, <2>3, <2>4
<1>5. CASE s[r].kind = "FULL"
  <2>1. r + 1 \in 0 .. last /\ s[r].right \in Ranks \ {0} /\ r + s[r].right \in 0 .. last
    BY <1>5 DEF Preorder, Inner
  <2>2. f[r + 1] = g[r + 1] /\ f[r + s[r].right] = g[r + s[r].right]
    <3>1. PICK d \in Nat : d = s[r].right /\ d # 0 /\ r + d \in 0 .. last
      <4>1. s[r].right \in Nat /\ s[r].right # 0
        BY <2>1, RanksAreNat
      <4>2. QED
        BY <2>1, <4>1
    <3>2. r + 1 \in (r + 1) .. last /\ r + d \in (r + 1) .. last
      <4>1. last \in Nat
        BY DEF Ranks
      <4>2. r + 1 <= last /\ r + d <= last
        BY <2>1, <3>1
      <4>3. QED
        BY <3>1, <4>1, <4>2
    <3>3. QED
      BY <3>1, <3>2
  <2>3. Under(f, s, r) = f[r + 1] \cup f[r + s[r].right]
    BY <1>5 DEF Under
  <2>4. Under(g, s, r) = g[r + 1] \cup g[r + s[r].right]
    BY <1>5 DEF Under
  <2>5. QED
    BY <2>2, <2>3, <2>4
<1>6. QED
  BY <1>1, <1>2, <1>3, <1>4, <1>5

\* The recursive function RanksOf names exists.
LEMMA RanksExist ==
  ASSUME NEW s, Preorder(s)
  PROVE  \E f : IsRanks(f, s)
<1>1. PICK last \in Ranks : DOMAIN s = 0 .. last
  BY DEF Preorder
<1> DEFINE From(f, lo) == f = [r \in lo .. last |-> Under(f, s, r)]
           U == {d \in 0 .. (last + 1) : \E f : From(f, last + 1 - d)}
<1>2. last \in Nat /\ last + 1 \in Nat
  BY DEF Ranks
<1>3. 0 \in U
  <2>1. PICK lo \in Nat : lo = last + 1 - 0 /\ lo > last
    BY <1>2
  <2>2. lo .. last = {}
    BY <1>2, <2>1
  <2> DEFINE f == [r \in lo .. last |-> {}]
  <2>3. f = [r \in lo .. last |-> Under(f, s, r)]
    BY <2>2
  <2> HIDE DEF f
  <2>4. From(f, last + 1 - 0)
    BY <2>1, <2>3
  <2>5. QED
    BY <1>2, <2>4
<1>4. ASSUME NEW d \in 0 .. (last + 1 - 1), d \in U
      PROVE  d + 1 \in U
  <2>1. PICK lo \in 1 .. (last + 1) : lo = last + 1 - d
    BY <1>2
  <2>2. PICK f : From(f, lo)
    BY <1>4, <2>1
  <2>3. PICK m \in 0 .. last : m = lo - 1 /\ lo = m + 1
    BY <1>2
  <2> DEFINE g == [r \in m .. last |-> IF r = m THEN Under(f, s, m) ELSE f[r]]
  <2>4. \A r \in lo .. last : g[r] = f[r]
    BY <2>3
  <2>5. g[m] = Under(f, s, m) /\ g = [r \in m .. last |-> g[r]]
    BY <2>3
  <2> HIDE DEF g
  <2>6. ASSUME NEW r \in m .. last
        PROVE  g[r] = Under(g, s, r)
    <3>1. r \in 0 .. last
      BY <2>3
    <3>2. \A q \in (r + 1) .. last : f[q] = g[q]
      BY <1>2, <2>3, <2>4
    <3>3. Under(f, s, r) = Under(g, s, r)
      BY <1>1, <3>1, <3>2, UnderAgrees
    <3>4. CASE r = m
      BY <2>5, <3>3, <3>4
    <3>5. CASE r # m
      <4>1. r \in lo .. last
        BY <2>3, <3>5
      <4>2. f[r] = Under(f, s, r)
        BY <2>2, <4>1
      <4>3. QED
        BY <2>4, <3>3, <4>1, <4>2
    <3>6. QED
      BY <3>4, <3>5
  <2>7. g = [r \in m .. last |-> Under(g, s, r)]
    BY <2>5, <2>6
  <2>8. m = last + 1 - (d + 1) /\ d + 1 \in 0 .. (last + 1)
    BY <1>2, <2>1, <2>3
  <2>9. From(g, last + 1 - (d + 1))
    BY <2>7, <2>8
  <2>10. QED
    BY <2>8, <2>9
<1>5. 0 .. (last + 1) \subseteq U
  <2> HIDE DEF U
  <2>1. QED
    BY <1>2, <1>3, <1>4, BoundedInduction
<1>6. last + 1 \in 0 .. (last + 1) /\ last + 1 - (last + 1) = 0
  BY <1>2
<1>7. PICK f : From(f, 0)
  BY <1>5, <1>6
<1>8. QED
  BY <1>1, <1>7 DEF IsRanks

\* So RanksOf, the choice of such a function, is one.
LEMMA RanksChosen ==
  ASSUME NEW s, NEW f, IsRanks(f, s)
  PROVE  IsRanks(RanksOf(s), s)
<1>1. RanksOf(s) = [r \in DOMAIN s |->
        IF s[r].kind = "FLAT" THEN s[r].param .. (s[r].param + 2^s[r].flat - 1)
        ELSE IF s[r].kind = "BOTH_LEAVES" THEN {s[r].param, s[r].param + 1}
        ELSE IF s[r].kind = "LEAF_LEFT" THEN {s[r].param} \cup RanksOf(s)[r + 1]
        ELSE RanksOf(s)[r + 1] \cup RanksOf(s)[r + s[r].right]]
  BY Zenon DEF RanksOf, IsRanks, Under
<1>2. QED
  BY <1>1, Zenon DEF IsRanks, Under

\* The ranks of a record, from those of its children.
LEMMA RanksUnfold ==
  ASSUME NEW s, Preorder(s), NEW r \in DOMAIN s
  PROVE  RanksOf(s)[r] = Under(RanksOf(s), s, r)
<1>1. PICK f : IsRanks(f, s)
  BY RanksExist
<1>2. IsRanks(RanksOf(s), s)
  BY <1>1, RanksChosen
<1>3. QED
  BY <1>2 DEF IsRanks

\* The ranks of an inner record, as its partition sees them.
LEMMA RanksOfLeafLeft ==
  ASSUME NEW s, SchedOK(s), NEW r \in DOMAIN s, s[r].kind = "LEAF_LEFT"
  PROVE  /\ RightOf(s, r) \in DOMAIN s /\ RightOf(s, r) = r + 1
         /\ RanksOf(s)[r] \cap Above(s[r].param) = RanksOf(s)[RightOf(s, r)]
         /\ RanksOf(s)[r] = {s[r].param} \cup RanksOf(s)[RightOf(s, r)]
<1>1. RightOf(s, r) = r + 1 /\ r + 1 \in DOMAIN s /\ s[r].param \in Ranks
  BY DEF RightOf, SchedOK, Preorder, Inner
<1>2. RanksOf(s)[r] = {s[r].param} \cup RanksOf(s)[RightOf(s, r)]
  <2>1. RanksOf(s)[r] = Under(RanksOf(s), s, r)
    BY RanksUnfold DEF SchedOK
  <2>2. Under(RanksOf(s), s, r) = {s[r].param} \cup RanksOf(s)[r + 1]
    BY DEF Under
  <2>3. QED
    BY <1>1, <2>1, <2>2
<1>3. RanksOf(s)[RightOf(s, r)] \subseteq Ranks
       /\ \A v \in RanksOf(s)[RightOf(s, r)] : v > s[r].param
  BY <1>1 DEF SchedOK, Ordered, Inner
<1>4. QED
  BY <1>1, <1>2, <1>3 DEF Above, Ranks

\* The two children of a FULL record share out its ranks, at its param.
LEMMA RanksOfFull ==
  ASSUME NEW s, SchedOK(s), NEW r \in DOMAIN s, s[r].kind = "FULL"
  PROVE  /\ RightOf(s, r) \in DOMAIN s /\ r + 1 \in DOMAIN s
         /\ RanksOf(s)[r] \cap Above(s[r].param) = RanksOf(s)[RightOf(s, r)]
         /\ RanksOf(s)[r] \cap NotAbove(s[r].param) = RanksOf(s)[r + 1]
         /\ RanksOf(s)[r] = RanksOf(s)[r + 1] \cup RanksOf(s)[RightOf(s, r)]
         /\ RanksOf(s)[r + 1] \cap RanksOf(s)[RightOf(s, r)] = {}
<1>1. /\ RightOf(s, r) = r + s[r].right /\ r + s[r].right \in DOMAIN s /\ r + 1 \in DOMAIN s
      /\ s[r].param \in Ranks
  BY DEF RightOf, SchedOK, Preorder, Inner
<1>2. RanksOf(s)[r] = RanksOf(s)[r + 1] \cup RanksOf(s)[RightOf(s, r)]
  <2>1. RanksOf(s)[r] = Under(RanksOf(s), s, r)
    BY RanksUnfold DEF SchedOK
  <2>2. Under(RanksOf(s), s, r) = RanksOf(s)[r + 1] \cup RanksOf(s)[r + s[r].right]
    BY DEF Under
  <2>3. QED
    BY <1>1, <2>1, <2>2
<1>3. RanksOf(s)[RightOf(s, r)] \subseteq Ranks
       /\ \A v \in RanksOf(s)[RightOf(s, r)] : v > s[r].param
  BY <1>1 DEF SchedOK, Ordered, Inner
<1>4. RanksOf(s)[r + 1] \subseteq Ranks /\ \A v \in RanksOf(s)[r + 1] : v <= s[r].param
  BY <1>1 DEF SchedOK, Ordered, Inner
<1>5. PICK L, R : L = RanksOf(s)[r + 1] /\ R = RanksOf(s)[RightOf(s, r)]
  OBVIOUS
<1>6. PICK p \in Ranks : p = s[r].param
  BY <1>1
<1>7. L \subseteq Ranks /\ R \subseteq Ranks /\ (\A v \in R : v > p) /\ (\A v \in L : v <= p)
  BY <1>3, <1>4, <1>5, <1>6
<1>8. /\ (L \cup R) \cap Above(p) = R /\ (L \cup R) \cap NotAbove(p) = L /\ L \cap R = {}
  <2>1. \A v \in Ranks : ~(v > p /\ v <= p)
    BY DEF Ranks
  <2>2. \A v \in R : v \in Above(p) /\ v \notin NotAbove(p)
    BY <1>7, <2>1 DEF Above, NotAbove
  <2>3. \A v \in L : v \in NotAbove(p) /\ v \notin Above(p)
    BY <1>7, <2>1 DEF Above, NotAbove
  <2>4. QED
    BY <2>2, <2>3
<1>9. QED
  BY <1>1, <1>2, <1>5, <1>6, <1>8

\* Every rank of the block goes one way or the other.
LEMMA EitherSide ==
  ASSUME NEW p \in Ranks, NEW v \in Ranks
  PROVE  (v \in Above(p)) # (v \in NotAbove(p)) /\ (v > p <=> v \in Above(p))
  BY DEF Above, NotAbove, Ranks

-----------------------------------------------------------------------------
(* A record's part of the block. *)

\* The ranks of a record's part of the block, and the bitmap of that part.
Below(s, w, r)  == Keep(w, RanksOf(s)[r])
BitsOf(s, w, r) == [i \in 1 .. Len(Below(s, w, r)) |-> Below(s, w, r)[i] > s[r].param]

\* The type of a record's part of the block.
LEMMA BelowType ==
  ASSUME NEW s, NEW w \in Seq(Ranks), NEW r
  PROVE  /\ Below(s, w, r) \in Seq(Ranks \cap RanksOf(s)[r])
         /\ Below(s, w, r) \in Seq(Ranks)
         /\ Len(Below(s, w, r)) \in 0 .. Len(w)
         /\ \A i \in 1 .. Len(Below(s, w, r)) :
              Below(s, w, r)[i] \in Ranks /\ Below(s, w, r)[i] \in RanksOf(s)[r]
<1>1. PICK q \in Seq(Ranks \cap RanksOf(s)[r]) : q = Below(s, w, r) /\ Len(q) \in 0 .. Len(w)
  BY KeepType DEF Below
<1>2. q \in Seq(Ranks) /\ \A i \in 1 .. Len(q) : q[i] \in Ranks /\ q[i] \in RanksOf(s)[r]
  OBVIOUS
<1>3. QED
  BY <1>1, <1>2

\* A bit of the bitmap is the side its symbol goes to.
LEMMA BitsType ==
  ASSUME NEW s, NEW w \in Seq(Ranks), NEW r \in DOMAIN s, s[r].param \in Ranks
  PROVE  /\ BitsOf(s, w, r) \in Seq(BOOLEAN)
         /\ Len(BitsOf(s, w, r)) = Len(Below(s, w, r))
         /\ DOMAIN BitsOf(s, w, r) = 1 .. Len(Below(s, w, r))
         /\ \A i \in 1 .. Len(Below(s, w, r)) :
              BitsOf(s, w, r)[i] <=> Below(s, w, r)[i] \in Above(s[r].param)
<1>1. PICK n \in Nat : n = Len(Below(s, w, r))
  <2>1. Len(Below(s, w, r)) \in 0 .. Len(w)
    BY BelowType
  <2>2. QED
    BY <2>1
<1>2. \A i \in 1 .. n : Below(s, w, r)[i] \in Ranks
  BY <1>1, BelowType
<1>3. PICK b : b = BitsOf(s, w, r)
  OBVIOUS
<1>4. b = [i \in 1 .. n |-> Below(s, w, r)[i] > s[r].param]
  BY <1>1, <1>3 DEF BitsOf
<1>5. \A i \in 1 .. n : b[i] \in BOOLEAN
  BY <1>4
<1>6. b \in [1 .. n -> BOOLEAN]
  BY <1>4, <1>5
<1>7. b \in Seq(BOOLEAN) /\ Len(b) = n /\ DOMAIN b = 1 .. n
  BY <1>6
<1>8. \A i \in 1 .. n : b[i] <=> Below(s, w, r)[i] \in Above(s[r].param)
  BY <1>2, <1>4, EitherSide
<1>9. QED
  BY <1>1, <1>3, <1>7, <1>8

\* The partition of a record's ranks gives each child its own.
LEMMA PartitionRight ==
  ASSUME NEW s, SchedOK(s), NEW w \in Seq(Ranks), NEW r \in DOMAIN s, Inner(s[r])
  PROVE  Keep(Below(s, w, r), Above(s[r].param)) = Below(s, w, RightOf(s, r))
<1>1. RanksOf(s)[r] \cap Above(s[r].param) = RanksOf(s)[RightOf(s, r)]
  BY RanksOfLeafLeft, RanksOfFull DEF Inner
<1>2. Keep(Below(s, w, r), Above(s[r].param)) = Keep(w, RanksOf(s)[r] \cap Above(s[r].param))
  BY KeepKeep DEF Below
<1>3. QED
  BY <1>1, <1>2 DEF Below

\* The left half of a FULL record's partition is the left child's part.
LEMMA PartitionLeft ==
  ASSUME NEW s, SchedOK(s), NEW w \in Seq(Ranks), NEW r \in DOMAIN s, s[r].kind = "FULL"
  PROVE  Keep(Below(s, w, r), NotAbove(s[r].param)) = Below(s, w, r + 1)
<1>1. RanksOf(s)[r] \cap NotAbove(s[r].param) = RanksOf(s)[r + 1]
  BY RanksOfFull
<1>2. Keep(Below(s, w, r), NotAbove(s[r].param)) = Keep(w, RanksOf(s)[r] \cap NotAbove(s[r].param))
  BY KeepKeep DEF Below
<1>3. QED
  BY <1>1, <1>2 DEF Below

\* Every symbol of a prefix goes to exactly one side.
LEMMA SidesAddUp ==
  ASSUME NEW w \in Seq(Ranks), NEW p \in Ranks
  PROVE  \A i \in 0 .. Len(w) :
           /\ Len(Kept(w, Above(p))[i]) \in Nat /\ Len(Kept(w, NotAbove(p))[i]) \in Nat
           /\ Len(Kept(w, Above(p))[i]) + Len(Kept(w, NotAbove(p))[i]) = i
<1>1. \A i \in 1 .. Len(w) : (w[i] \in Above(p)) # (w[i] \in NotAbove(p))
  <2>1. \A i \in 1 .. Len(w) : w[i] \in Ranks
    OBVIOUS
  <2>2. QED
    BY <2>1, EitherSide
<1>2. \A i \in 0 .. Len(w) : Len(Kept(w, Above(p))[i]) + Len(Kept(w, NotAbove(p))[i]) = i
  BY <1>1, KeptSplit
<1>3. ASSUME NEW i \in 0 .. Len(w), NEW S
      PROVE  Len(Kept(w, S)[i]) \in Nat
  <2>1. PICK q \in Seq(Ranks \cap S) : q = Kept(w, S)[i]
    BY KeptType
  <2>2. Len(q) \in Nat
    OBVIOUS
  <2>3. QED
    BY <2>1, <2>2
<1>4. QED
  BY <1>2, <1>3

\* The left child has what the right child has not.
LEMMA FullSizes ==
  ASSUME NEW s, SchedOK(s), NEW w \in Seq(Ranks), NEW r \in DOMAIN s, s[r].kind = "FULL"
  PROVE  /\ Len(Below(s, w, RightOf(s, r))) \in Nat /\ Len(Below(s, w, r + 1)) \in Nat
         /\ Len(Below(s, w, r)) \in Nat
         /\ Len(Below(s, w, r)) - Len(Below(s, w, RightOf(s, r))) = Len(Below(s, w, r + 1))
<1>1. s[r].param \in Ranks /\ Inner(s[r])
  BY DEF SchedOK, Preorder, Inner
<1>2. PICK q \in Seq(Ranks) : q = Below(s, w, r)
  BY BelowType
<1>3. Keep(q, Above(s[r].param)) = Below(s, w, RightOf(s, r))
  BY <1>1, <1>2, PartitionRight
<1>4. Keep(q, NotAbove(s[r].param)) = Below(s, w, r + 1)
  BY <1>2, PartitionLeft
<1>5. Len(q) \in Nat /\ Len(q) \in 0 .. Len(q)
  OBVIOUS
<1>6. /\ Len(Keep(q, Above(s[r].param))) \in Nat /\ Len(Keep(q, NotAbove(s[r].param))) \in Nat
      /\ Len(Keep(q, Above(s[r].param))) + Len(Keep(q, NotAbove(s[r].param))) = Len(q)
  BY <1>1, <1>5, SidesAddUp DEF Keep
<1>7. QED
  BY <1>2, <1>3, <1>4, <1>5, <1>6

\* The popcount of a prefix of the bitmap.
LEMMA BitsCount ==
  ASSUME NEW s, NEW w \in Seq(Ranks), NEW r \in DOMAIN s, s[r].param \in Ranks
  PROVE  /\ Ones(BitsOf(s, w, r)) = Len(Keep(Below(s, w, r), Above(s[r].param)))
         /\ \A i \in 1 .. Len(Below(s, w, r)) :
              Ones(SubSeq(BitsOf(s, w, r), 1, i)) = Len(Kept(Below(s, w, r), Above(s[r].param))[i])
<1>1. PICK q \in Seq(Ranks) : q = Below(s, w, r)
  BY BelowType
<1>2. PICK b \in Seq(BOOLEAN) : b = BitsOf(s, w, r)
  BY BitsType
<1>3. PICK p \in Ranks : p = s[r].param
  OBVIOUS
<1>4. Len(b) = Len(q) /\ DOMAIN b = 1 .. Len(q) /\ \A i \in 1 .. Len(q) : b[i] <=> q[i] \in Above(p)
  BY <1>1, <1>2, <1>3, BitsType
<1>5. \A i \in 0 .. Len(q) : Cardinality(OnesUpto(b, i)) = Len(Kept(q, Above(p))[i])
  BY <1>4, KeptCount
<1>6. Len(q) \in Nat /\ Len(q) \in 0 .. Len(q)
  OBVIOUS
<1>7. Ones(b) = Len(Keep(q, Above(p)))
  <2>1. {k \in DOMAIN b : b[k]} = OnesUpto(b, Len(q))
    BY <1>4 DEF OnesUpto
  <2>2. QED
    BY <1>5, <1>6, <2>1 DEF Ones, Keep
<1>8. ASSUME NEW i \in 1 .. Len(q)
      PROVE  Ones(SubSeq(b, 1, i)) = Len(Kept(q, Above(p))[i])
  <2>1. PICK c : c = SubSeq(b, 1, i)
    OBVIOUS
  <2>2. DOMAIN c = 1 .. i /\ \A k \in 1 .. i : c[k] = b[k]
    BY <1>4, <1>6, <2>1
  <2>3. {k \in DOMAIN c : c[k]} = OnesUpto(b, i)
    BY <2>2 DEF OnesUpto
  <2>4. i \in 0 .. Len(q)
    BY <1>6
  <2>5. QED
    BY <1>5, <2>1, <2>3, <2>4 DEF Ones
<1>9. QED
  BY <1>1, <1>2, <1>3, <1>7, <1>8

-----------------------------------------------------------------------------
(* The merges undo the partitions. *)

\* The i-th symbol is where the merge looks for it.
LEMMA MergeAt ==
  ASSUME NEW s, NEW w \in Seq(Ranks), NEW r \in DOMAIN s, s[r].param \in Ranks,
         NEW left, NEW right, NEW i \in 1 .. Len(Below(s, w, r)),
         NEW q, q = Below(s, w, r), NEW p, p = s[r].param, NEW b, b = BitsOf(s, w, r),
         q[i] \in Above(p) =>
           /\ Len(Kept(q, Above(p))[i]) <= Len(right)
           /\ right[Len(Kept(q, Above(p))[i])] = q[i],
         q[i] \in NotAbove(p) =>
           /\ Len(Kept(q, NotAbove(p))[i]) <= Len(left)
           /\ left[Len(Kept(q, NotAbove(p))[i])] = q[i]
  PROVE  MergeVecs(b, left, right)[i] = q[i]
<1>1. q \in Seq(Ranks) /\ i \in 1 .. Len(q) /\ i \in 0 .. Len(q)
  <2>1. q \in Seq(Ranks)
    BY BelowType
  <2>2. QED
    BY <2>1
<1>2. PICK ones \in Nat : ones = Len(Kept(q, Above(p))[i])
  BY <1>1, SidesAddUp
<1>3. Ones(SubSeq(b, 1, i)) = ones
  BY <1>2, BitsCount
<1>4. i - ones = Len(Kept(q, NotAbove(p))[i])
  <2>1. PICK rest \in Nat : rest = Len(Kept(q, NotAbove(p))[i])
    BY <1>1, SidesAddUp
  <2>2. ones + rest = i
    BY <1>1, <1>2, <2>1, SidesAddUp
  <2>3. i - ones = rest
    BY <2>2
  <2>4. QED
    BY <2>1, <2>3
<1>5. DOMAIN b = 1 .. Len(q) /\ (b[i] <=> q[i] \in Above(p))
  BY <1>1, BitsType
<1>6. (q[i] \in Above(p)) # (q[i] \in NotAbove(p))
  <2>1. q[i] \in Ranks
    BY <1>1
  <2>2. QED
    BY <2>1, EitherSide
<1>7. MergeVecs(b, left, right)[i] =
        IF b[i] THEN IF ones <= Len(right) THEN right[ones] ELSE Garbage
        ELSE IF i - ones <= Len(left) THEN left[i - ones] ELSE Garbage
  <2>1. i \in DOMAIN b
    BY <1>1, <1>5
  <2>2. QED
    BY <1>3, <2>1 DEF MergeVecs
<1>8. CASE b[i]
  BY <1>2, <1>5, <1>7, <1>8
<1>9. CASE ~b[i]
  BY <1>4, <1>5, <1>6, <1>7, <1>9
<1>10. QED
  BY <1>8, <1>9

\* A merge that is right at every position is right.
LEMMA MergeDone ==
  ASSUME NEW s, NEW w \in Seq(Ranks), NEW r \in DOMAIN s, s[r].param \in Ranks,
         NEW left, NEW right,
         \A i \in 1 .. Len(Below(s, w, r)) :
           MergeVecs(BitsOf(s, w, r), left, right)[i] = Below(s, w, r)[i]
  PROVE  MergeVecs(BitsOf(s, w, r), left, right) = Below(s, w, r)
<1>1. PICK q \in Seq(Ranks) : q = Below(s, w, r)
  BY BelowType
<1>2. DOMAIN BitsOf(s, w, r) = 1 .. Len(q)
  BY <1>1, BitsType
<1>3. PICK z : z = MergeVecs(BitsOf(s, w, r), left, right)
  OBVIOUS
<1>4. z = [i \in 1 .. Len(q) |-> z[i]]
  BY <1>2, <1>3 DEF MergeVecs
<1>5. \A i \in 1 .. Len(q) : z[i] = q[i]
  BY <1>1, <1>3
<1>6. q = [i \in 1 .. Len(q) |-> q[i]]
  OBVIOUS
<1>7. z = q
  BY <1>4, <1>5, <1>6
<1>8. QED
  BY <1>1, <1>3, <1>7

\* prim_merge_vec_vec undoes the partition of a FULL record.
LEMMA MergeFull ==
  ASSUME NEW s, SchedOK(s), NEW w \in Seq(Ranks), NEW r \in DOMAIN s, s[r].kind = "FULL"
  PROVE  MergeVecs(BitsOf(s, w, r), Below(s, w, r + 1), Below(s, w, RightOf(s, r)))
           = Below(s, w, r)
<1>1. s[r].param \in Ranks /\ Inner(s[r])
  BY DEF SchedOK, Preorder, Inner
<1>2. PICK q \in Seq(Ranks) : q = Below(s, w, r)
  BY BelowType
<1>3. PICK p : p = s[r].param
  OBVIOUS
<1>4. PICK right : right = Below(s, w, RightOf(s, r))
  OBVIOUS
<1>5. PICK left : left = Below(s, w, r + 1)
  OBVIOUS
<1>6. Keep(q, Above(p)) = right /\ Keep(q, NotAbove(p)) = left
  BY <1>1, <1>2, <1>3, <1>4, <1>5, PartitionRight, PartitionLeft
<1>7. ASSUME NEW i \in 1 .. Len(q)
      PROVE  MergeVecs(BitsOf(s, w, r), left, right)[i] = q[i]
  <2>1. q[i] \in Above(p) =>
           /\ Len(Kept(q, Above(p))[i]) \in 1 .. Len(right)
           /\ right[Len(Kept(q, Above(p))[i])] = q[i]
    BY <1>6, KeptElement
  <2>2. q[i] \in NotAbove(p) =>
           /\ Len(Kept(q, NotAbove(p))[i]) \in 1 .. Len(left)
           /\ left[Len(Kept(q, NotAbove(p))[i])] = q[i]
    BY <1>6, KeptElement
  <2>3. Len(left) \in Nat /\ Len(right) \in Nat
    BY <1>4, <1>5, FullSizes
  <2>4. q[i] \in Above(p) =>
           /\ Len(Kept(q, Above(p))[i]) <= Len(right)
           /\ right[Len(Kept(q, Above(p))[i])] = q[i]
    BY <2>1, <2>3
  <2>5. q[i] \in NotAbove(p) =>
           /\ Len(Kept(q, NotAbove(p))[i]) <= Len(left)
           /\ left[Len(Kept(q, NotAbove(p))[i])] = q[i]
    BY <2>2, <2>3
  <2>6. QED
    BY <1>1, <1>2, <1>3, <2>4, <2>5, MergeAt
<1>8. QED
  BY <1>1, <1>2, <1>4, <1>5, <1>7, MergeDone

\* prim_merge_cst_vec undoes the partition of a LEAF_LEFT record.
LEMMA MergeLeaf ==
  ASSUME NEW s, SchedOK(s), NEW w \in Seq(Ranks), NEW r \in DOMAIN s, s[r].kind = "LEAF_LEFT"
  PROVE  MergeVecs(BitsOf(s, w, r), [i \in 1 .. Len(Below(s, w, r)) |-> s[r].param],
                   Below(s, w, RightOf(s, r)))
           = Below(s, w, r)
<1>1. s[r].param \in Ranks /\ Inner(s[r])
  BY DEF SchedOK, Preorder, Inner
<1>2. PICK q \in Seq(Ranks) : q = Below(s, w, r)
  BY BelowType
<1>3. PICK p \in Ranks : p = s[r].param
  BY <1>1
<1>4. PICK right \in Seq(Ranks) : right = Below(s, w, RightOf(s, r))
  BY BelowType
<1>5. PICK left : left = [i \in 1 .. Len(q) |-> p]
  OBVIOUS
<1>6. Keep(q, Above(p)) = right
  BY <1>1, <1>2, <1>3, <1>4, PartitionRight
<1>7. ASSUME NEW i \in 1 .. Len(q)
      PROVE  MergeVecs(BitsOf(s, w, r), left, right)[i] = q[i]
  <2>1. q[i] \in Above(p) =>
           /\ Len(Kept(q, Above(p))[i]) \in 1 .. Len(right)
           /\ right[Len(Kept(q, Above(p))[i])] = q[i]
    BY <1>6, KeptElement
  <2>2. Len(right) \in Nat /\ Len(q) \in Nat /\ i \in 0 .. Len(q)
    OBVIOUS
  <2>3. q[i] \in Above(p) =>
           /\ Len(Kept(q, Above(p))[i]) <= Len(right)
           /\ right[Len(Kept(q, Above(p))[i])] = q[i]
    BY <2>1, <2>2
  <2>4. ASSUME q[i] \in NotAbove(p)
        PROVE  /\ Len(Kept(q, NotAbove(p))[i]) <= Len(left)
               /\ left[Len(Kept(q, NotAbove(p))[i])] = q[i]
    <3>1. q[i] = p
      <4>1. q[i] \in {p} \cup RanksOf(s)[RightOf(s, r)] /\ q[i] \in Ranks
        <5>1. q[i] \in RanksOf(s)[r] /\ q[i] \in Ranks
          BY <1>2, BelowType
        <5>2. RanksOf(s)[r] = {p} \cup RanksOf(s)[RightOf(s, r)]
          BY <1>3, RanksOfLeafLeft
        <5>3. QED
          BY <5>1, <5>2
      <4>2. \A v \in RanksOf(s)[RightOf(s, r)] : v \in Above(p)
        BY <1>3, RanksOfLeafLeft
      <4>3. QED
        BY <2>4, <4>1, <4>2, EitherSide
    <3>2. PICK j : j = Len(Kept(q, NotAbove(p))[i])
      OBVIOUS
    <3>3. j >= 1
      <4>1. j \in 1 .. Len(Keep(q, NotAbove(p)))
        BY <2>4, <3>2, KeptElement
      <4>2. j \in Nat
        BY <2>2, <3>2, SidesAddUp
      <4>3. Len(Keep(q, NotAbove(p))) \in 0 .. Len(q)
        BY KeepType
      <4>4. QED
        BY <4>1, <4>2, <4>3
    <3>4. j \in Nat /\ j <= i
      <4>1. PICK k \in Nat : k = Len(Kept(q, Above(p))[i])
        BY <2>2, SidesAddUp
      <4>2. j \in Nat /\ k + j = i
        BY <2>2, <3>2, <4>1, SidesAddUp
      <4>3. QED
        BY <2>2, <4>1, <4>2
    <3>5. j \in 1 .. Len(q)
      BY <2>2, <3>3, <3>4
    <3>6. left[j] = p /\ Len(left) = Len(q)
      BY <1>5, <2>2, <3>5
    <3>7. QED
      BY <2>2, <3>1, <3>2, <3>5, <3>6
  <2>5. QED
    BY <1>1, <1>2, <1>3, <2>3, <2>4, MergeAt, SMTT(30)
<1>8. MergeVecs(BitsOf(s, w, r), left, right) = q
  BY <1>1, <1>2, <1>7, MergeDone
<1>9. QED
  BY <1>2, <1>3, <1>4, <1>5, <1>8

\* Two leaves: a bit is a symbol.
LEMMA PairDecoded ==
  ASSUME NEW s, SchedOK(s), NEW w \in Seq(Ranks), NEW r \in DOMAIN s,
         s[r].kind = "BOTH_LEAVES", NEW n, n = Len(Below(s, w, r))
  PROVE  [i \in 1 .. n |-> s[r].param + (IF BitsOf(s, w, r)[i] THEN 1 ELSE 0)] = Below(s, w, r)
<1>1. PICK p \in Ranks : p = s[r].param
  BY DEF SchedOK, Preorder
<1>2. PICK q \in Seq(Ranks) : q = Below(s, w, r)
  BY BelowType
<1>3. RanksOf(s)[r] = {p, p + 1}
  <2>1. RanksOf(s)[r] = Under(RanksOf(s), s, r)
    BY RanksUnfold DEF SchedOK
  <2>2. QED
    BY <1>1, <2>1 DEF Under
<1>4. ASSUME NEW i \in 1 .. n
      PROVE  p + (IF BitsOf(s, w, r)[i] THEN 1 ELSE 0) = q[i]
  <2>1. q[i] \in {p, p + 1}
    BY <1>2, <1>3, BelowType
  <2>2. BitsOf(s, w, r)[i] <=> q[i] \in Above(p)
    BY <1>1, <1>2, BitsType
  <2>3. q[i] \in Ranks
    BY <1>2, BelowType
  <2>4. (q[i] > p) <=> q[i] \in Above(p)
    BY <2>3, EitherSide
  <2>5. p \in Nat
    BY RanksAreNat
  <2>6. QED
    BY <2>1, <2>2, <2>4, <2>5
<1>5. q = [i \in 1 .. n |-> q[i]]
  BY <1>2
<1>6. QED
  BY <1>1, <1>2, <1>4, <1>5

-----------------------------------------------------------------------------
(* The pending calls of the encode walk. *)

DepthOf(s) == CHOOSE depth \in [DOMAIN s -> 0 .. MaxLen] : DepthOK(s, depth)

\* The pending calls an encode walk of a block can have.
NodeCalls(s, w) ==
  {c \in [op : {"node"}, rec : DOMAIN s, at : Nat, n : Nat, tmp : Nat] :
     /\ c.n = Len(Below(s, w, c.rec))
     /\ c.at + c.n <= c.tmp
     /\ c.tmp <= Len(w) + Len(w) * DepthOf(s)[c.rec]}
BitmapCalls(s, w) ==
  {BitmapCall(r, BitsOf(s, w, r)) :
     r \in {q \in DOMAIN s : s[q].kind # "FLAT" /\ Len(Below(s, w, q)) > 0}}
EncodeCalls(s, w) == NodeCalls(s, w) \cup BitmapCalls(s, w)

\* A call and a later one do not meet: neither in the two buffers nor in the tree.
Apart(s, c, d) ==
  /\ c.op = "node" /\ d.op = "node" =>
       /\ c.at + c.n <= d.at \/ d.at + d.n <= c.at
       /\ d.at + d.n <= c.tmp
       /\ RanksOf(s)[c.rec] \cap RanksOf(s)[d.rec] = {}
  /\ c.op = "node" /\ d.op = "bitmap" => ~(RanksOf(s)[d.rec] \subseteq RanksOf(s)[c.rec])
  /\ c.op = "bitmap" /\ d.op = "node" => ~(RanksOf(s)[c.rec] \subseteq RanksOf(s)[d.rec])
  /\ c.op = "bitmap" /\ d.op = "bitmap" => c.rec # d.rec

AllApart(s, q)   == \A i, j \in 1 .. Len(q) : i < j => Apart(s, q[i], q[j])
ApartFrom(s, c, q) == \A j \in 1 .. Len(q) : Apart(s, c, q[j])

\* Calls that replace a call are apart from whatever that call was apart from.
Replaces(s, w, c, p) ==
  /\ p \in Seq(EncodeCalls(s, w))
  /\ AllApart(s, p)
  /\ \A i \in 1 .. Len(p) : \A d \in EncodeCalls(s, w) :
       /\ Apart(s, c, d) => Apart(s, p[i], d)
       /\ d.op = "bitmap" /\ Apart(s, d, c) => Apart(s, d, p[i])

\* The operation of a call says which kind of call it is.
LEMMA CallOps ==
  ASSUME NEW s, NEW w, NEW c \in EncodeCalls(s, w)
  PROVE  /\ c.op = "node" <=> c \in NodeCalls(s, w)
         /\ c.op = "bitmap" <=> c \in BitmapCalls(s, w)
         /\ c.op \in {"node", "bitmap"} /\ c.rec \in DOMAIN s
<1>1. \A x \in NodeCalls(s, w) : x.op = "node" /\ x.rec \in DOMAIN s
  BY DEF NodeCalls
<1>2. \A x \in BitmapCalls(s, w) : x.op = "bitmap" /\ x.rec \in DOMAIN s
  BY DEF BitmapCalls, BitmapCall
<1>3. QED
  BY <1>1, <1>2 DEF EncodeCalls

\* The elements of a sequence without its first.
LEMMA TailElement ==
  ASSUME NEW C, NEW q \in Seq(C), q # <<>>
  PROVE  /\ Head(q) = q[1] /\ Head(q) \in C /\ Tail(q) \in Seq(C)
         /\ Len(q) \in Nat /\ Len(q) >= 1
         /\ Len(Tail(q)) = Len(q) - 1 /\ \A i \in 1 .. (Len(q) - 1) : Tail(q)[i] = q[i + 1]
<1>1. Len(q) \in Nat /\ Len(q) >= 1
  BY EmptySeq
<1>2. QED
  BY <1>1, HeadTailProperties

\* The elements of a sequence put before another.
LEMMA JoinElement ==
  ASSUME NEW C, NEW p \in Seq(C), NEW q \in Seq(C)
  PROVE  /\ p \o q \in Seq(C) /\ Len(p) \in Nat /\ Len(q) \in Nat
         /\ Len(p \o q) = Len(p) + Len(q)
         /\ \A i \in 1 .. Len(p) : (p \o q)[i] = p[i]
         /\ \A i \in 1 .. Len(q) : (p \o q)[Len(p) + i] = q[i]
<1>1. Len(p) \in Nat /\ Len(q) \in Nat
  OBVIOUS
<1>2. QED
  BY <1>1

\* Calls stay apart when the first one is taken.
LEMMA PopApart ==
  ASSUME NEW s, NEW w, NEW q \in Seq(EncodeCalls(s, w)), q # <<>>, AllApart(s, q)
  PROVE  /\ Tail(q) \in Seq(EncodeCalls(s, w)) /\ AllApart(s, Tail(q))
         /\ ApartFrom(s, Head(q), Tail(q))
<1>1. /\ Head(q) = q[1] /\ Tail(q) \in Seq(EncodeCalls(s, w)) /\ Len(q) \in Nat
      /\ Len(Tail(q)) = Len(q) - 1 /\ \A i \in 1 .. (Len(q) - 1) : Tail(q)[i] = q[i + 1]
  BY TailElement
<1>2. PICK t : t = Tail(q)
  OBVIOUS
<1>3. AllApart(s, t)
  <2> SUFFICES ASSUME NEW i \in 1 .. Len(t), NEW j \in 1 .. Len(t), i < j
               PROVE Apart(s, t[i], t[j])
    BY DEF AllApart
  <2>1. i + 1 \in 1 .. Len(q) /\ j + 1 \in 1 .. Len(q) /\ i + 1 < j + 1
    BY <1>1, <1>2
  <2>2. t[i] = q[i + 1] /\ t[j] = q[j + 1]
    BY <1>1, <1>2
  <2>3. QED
    BY <2>1, <2>2 DEF AllApart
<1>4. ApartFrom(s, q[1], t)
  <2> SUFFICES ASSUME NEW j \in 1 .. Len(t)
               PROVE Apart(s, q[1], t[j])
    BY DEF ApartFrom
  <2>1. 1 \in 1 .. Len(q) /\ j + 1 \in 1 .. Len(q) /\ 1 < j + 1 /\ t[j] = q[j + 1]
    BY <1>1, <1>2
  <2>2. QED
    BY <2>1 DEF AllApart
<1>5. QED
  BY <1>1, <1>2, <1>3, <1>4

\* Calls stay apart when the first one is replaced.
LEMMA PushApart ==
  ASSUME NEW s, NEW w, NEW q \in Seq(EncodeCalls(s, w)), q # <<>>, AllApart(s, q),
         NEW p, Replaces(s, w, Head(q), p)
  PROVE  /\ p \o Tail(q) \in Seq(EncodeCalls(s, w)) /\ AllApart(s, p \o Tail(q))
         /\ \A d \in EncodeCalls(s, w) :
              d.op = "bitmap" /\ ApartFrom(s, d, q) => ApartFrom(s, d, p \o Tail(q))
<1>1. PICK C : C = EncodeCalls(s, w)
  OBVIOUS
<1>2. PICK c \in C, t \in Seq(C) : c = Head(q) /\ t = Tail(q)
  BY <1>1, TailElement
<1>3. AllApart(s, t) /\ ApartFrom(s, c, t)
  BY <1>1, <1>2, PopApart
<1>4. /\ p \in Seq(C) /\ AllApart(s, p)
      /\ \A i \in 1 .. Len(p) : \A d \in C :
           /\ Apart(s, c, d) => Apart(s, p[i], d)
           /\ d.op = "bitmap" /\ Apart(s, d, c) => Apart(s, d, p[i])
  BY <1>1, <1>2 DEF Replaces
<1>5. PICK z : z = p \o t
  OBVIOUS
<1>6. /\ z \in Seq(C) /\ Len(p) \in Nat /\ Len(t) \in Nat
      /\ Len(z) = Len(p) + Len(t)
      /\ \A i \in 1 .. Len(p) : z[i] = p[i]
      /\ \A i \in 1 .. Len(t) : z[Len(p) + i] = t[i]
  BY <1>4, <1>5, JoinElement
<1>7. \A j \in 1 .. Len(z) : j > Len(p) =>
        j - Len(p) \in 1 .. Len(t) /\ z[j] = t[j - Len(p)]
  <2> SUFFICES ASSUME NEW j \in 1 .. Len(z), j > Len(p)
               PROVE j - Len(p) \in 1 .. Len(t) /\ z[j] = t[j - Len(p)]
    OBVIOUS
  <2>0. j - Len(p) \in 1 .. Len(t) /\ Len(p) + (j - Len(p)) = j
    <3>1. Len(p) \in Nat /\ Len(t) \in Nat /\ Len(z) = Len(p) + Len(t)
      BY <1>6
    <3>2. QED
      BY <3>1
  <2>1. PICK k \in 1 .. Len(t) : k = j - Len(p) /\ Len(p) + k = j
    BY <2>0
  <2>2. z[Len(p) + k] = t[k]
    BY <1>6, Zenon
  <2>3. QED
    BY <2>1, <2>2
<1>8. \A k \in 1 .. Len(t) : t[k] \in C
  OBVIOUS
<1>9. AllApart(s, z)
  <2> SUFFICES ASSUME NEW i \in 1 .. Len(z), NEW j \in 1 .. Len(z), i < j
               PROVE Apart(s, z[i], z[j])
    BY DEF AllApart
  <2>1. CASE j <= Len(p)
    <3>1. i \in 1 .. Len(p) /\ j \in 1 .. Len(p)
      BY <1>6, <2>1
    <3>2. QED
      BY <1>4, <1>6, <3>1 DEF AllApart
  <2>2. CASE i <= Len(p) /\ j > Len(p)
    <3>1. i \in 1 .. Len(p) /\ j - Len(p) \in 1 .. Len(t) /\ z[j] = t[j - Len(p)] /\ z[i] = p[i]
      BY <1>6, <1>7, <2>2
    <3>2. Apart(s, c, z[j]) /\ z[j] \in C
      BY <1>3, <1>8, <3>1 DEF ApartFrom
    <3>3. QED
      BY <1>4, <3>1, <3>2
  <2>3. CASE i > Len(p)
    <3>1. j > Len(p) /\ i - Len(p) < j - Len(p)
      BY <1>6, <2>3
    <3>2. /\ i - Len(p) \in 1 .. Len(t) /\ z[i] = t[i - Len(p)]
          /\ j - Len(p) \in 1 .. Len(t) /\ z[j] = t[j - Len(p)]
      BY <1>7, <2>3, <3>1
    <3>3. QED
      BY <1>3, <3>1, <3>2 DEF AllApart
  <2>4. QED
    BY <1>6, <2>1, <2>2, <2>3
<1>10. ASSUME NEW d \in C, d.op = "bitmap", ApartFrom(s, d, q)
       PROVE  ApartFrom(s, d, z)
  <2>1. Apart(s, d, c) /\ ApartFrom(s, d, t)
    <3>1. /\ Head(q) = q[1] /\ Len(q) \in Nat /\ Len(q) >= 1
          /\ Len(Tail(q)) = Len(q) - 1 /\ \A i \in 1 .. (Len(q) - 1) : Tail(q)[i] = q[i + 1]
      BY TailElement
    <3>2. Apart(s, d, q[1])
      BY <1>10, <3>1 DEF ApartFrom
    <3>3. \A i \in 1 .. Len(t) : t[i] = q[i + 1] /\ i + 1 \in 1 .. Len(q)
      BY <1>2, <3>1
    <3>4. QED
      BY <1>2, <1>10, <3>1, <3>2, <3>3 DEF ApartFrom
  <2> SUFFICES ASSUME NEW j \in 1 .. Len(z)
               PROVE Apart(s, d, z[j])
    BY DEF ApartFrom
  <2>2. CASE j <= Len(p)
    <3>1. j \in 1 .. Len(p)
      BY <1>6, <2>2
    <3>2. QED
      BY <1>4, <1>6, <1>10, <2>1, <3>1
  <2>3. CASE j > Len(p)
    BY <1>7, <2>1, <2>3 DEF ApartFrom
  <2>4. QED
    BY <1>6, <2>2, <2>3
<1>11. QED
  BY <1>1, <1>2, <1>5, <1>6, <1>9, <1>10

-----------------------------------------------------------------------------
(* A node's calls take its place. *)

\* What a partition sends right, and the calls that follow it.
RightLen(s, w, r) == Len(Keep(Below(s, w, r), Above(s[r].param)))
LeftChild(s, w, c) ==
  NodeCall(c.rec + 1, c.at, c.n - RightLen(s, w, c.rec), ChildTmp(c.tmp, RightLen(s, w, c.rec)))
RightChild(s, w, c) ==
  NodeCall(RightOf(s, c.rec), c.tmp, RightLen(s, w, c.rec),
           ChildTmp(c.tmp, RightLen(s, w, c.rec)))
Children(s, w, c) ==
  IF s[c.rec].kind = "BOTH_LEAVES" THEN <<>>
  ELSE IF s[c.rec].kind = "LEAF_LEFT" THEN <<RightChild(s, w, c)>>
  ELSE IF EncodeRightFirst(RightLen(s, w, c.rec), c.n - RightLen(s, w, c.rec))
       THEN <<RightChild(s, w, c)>> \o <<LeftChild(s, w, c)>>
       ELSE <<LeftChild(s, w, c)>> \o <<RightChild(s, w, c)>>
OwnBitmap(s, w, c) == BitmapCall(c.rec, BitsOf(s, w, c.rec))
Pushed(s, w, k, c) ==
  IF c.n < k THEN <<OwnBitmap(s, w, c)>> \o Children(s, w, c)
  ELSE Children(s, w, c) \o <<OwnBitmap(s, w, c)>>

\* The calls that may stand for call c, and those that may stand beside its bitmap.
StandIns(s, w, c) ==
  {x \in EncodeCalls(s, w) :
     \A d \in EncodeCalls(s, w) :
       /\ Apart(s, c, d) => Apart(s, x, d)
       /\ d.op = "bitmap" /\ Apart(s, d, c) => Apart(s, d, x)}
Beside(s, w, c) ==
  {x \in StandIns(s, w, c) : Apart(s, OwnBitmap(s, w, c), x) /\ Apart(s, x, OwnBitmap(s, w, c))}

\* A schedule has depths.
LEMMA DepthFacts ==
  ASSUME NEW s, SchedOK(s)
  PROVE  DepthOf(s) \in [DOMAIN s -> 0 .. MaxLen] /\ DepthOK(s, DepthOf(s))
<1>1. \E depth \in [DOMAIN s -> 0 .. MaxLen] : DepthOK(s, depth)
  BY DEF SchedOK, Shallow
<1>2. QED
  BY <1>1, Zenon DEF DepthOf

\* A child fits where its parent puts it.
LEMMA ChildFits ==
  ASSUME NEW a \in Nat, NEW d \in Nat, NEW tmp \in Nat, NEW nr \in Nat,
         tmp <= a + a * d, nr <= a
  PROVE  tmp + nr <= a + a * (d + 1)
<1>1. a * (d + 1) = a * d + a
  OBVIOUS
<1>2. PICK m \in Int : m = a * d
  OBVIOUS
<1>3. QED
  BY <1>1, <1>2

\* What the type of a node's call says of it.
LEMMA NodeFacts ==
  ASSUME NEW s, SchedOK(s), NEW w \in Seq(Ranks), NEW c \in NodeCalls(s, w)
  PROVE  /\ c.op = "node" /\ c.rec \in DOMAIN s /\ c.at \in Nat /\ c.n \in Nat /\ c.tmp \in Nat
         /\ c.n = Len(Below(s, w, c.rec)) /\ c.at + c.n <= c.tmp /\ c.n <= Len(w)
         /\ c.tmp <= Len(w) + Len(w) * DepthOf(s)[c.rec]
         /\ RightLen(s, w, c.rec) \in 0 .. c.n
<1>1. /\ c.op = "node" /\ c.rec \in DOMAIN s /\ c.at \in Nat /\ c.n \in Nat /\ c.tmp \in Nat
      /\ c.n = Len(Below(s, w, c.rec)) /\ c.at + c.n <= c.tmp
      /\ c.tmp <= Len(w) + Len(w) * DepthOf(s)[c.rec]
  BY DEF NodeCalls
<1>2. c.n \in 0 .. Len(w)
  BY <1>1, BelowType
<1>3. c.n <= Len(w)
  BY <1>2
<1>4. RightLen(s, w, c.rec) \in 0 .. c.n
  <2>1. PICK q \in Seq(Ranks) : q = Below(s, w, c.rec)
    BY BelowType
  <2>2. Len(Keep(q, Above(s[c.rec].param))) \in 0 .. Len(q)
    BY KeepType
  <2>3. QED
    BY <1>1, <2>1, <2>2 DEF RightLen
<1>5. QED
  BY <1>1, <1>3, <1>4

\* The right child's call fits: its ranks are where its parent's tmp began.
LEMMA RightChildIs ==
  ASSUME NEW s, SchedOK(s), NEW w \in Seq(Ranks), NEW c \in NodeCalls(s, w), Inner(s[c.rec]),
         NEW x, x = RightChild(s, w, c)
  PROVE  /\ x \in NodeCalls(s, w)
         /\ x.rec = RightOf(s, c.rec) /\ x.at = c.tmp
         /\ x.n = RightLen(s, w, c.rec) /\ x.tmp = c.tmp + x.n
<1>1. PICK nr \in 0 .. c.n : nr = RightLen(s, w, c.rec)
  BY NodeFacts
<1>2. x = [op |-> "node", rec |-> RightOf(s, c.rec), at |-> c.tmp, n |-> nr, tmp |-> c.tmp + nr]
  BY <1>1 DEF RightChild, NodeCall, ChildTmp
<1>3. /\ c.rec \in DOMAIN s /\ c.tmp \in Nat /\ c.n \in Nat /\ nr \in Nat /\ c.n <= Len(w)
      /\ c.tmp <= Len(w) + Len(w) * DepthOf(s)[c.rec] /\ Len(w) \in Nat
  BY NodeFacts
<1>4. RightOf(s, c.rec) \in DOMAIN s
  BY <1>3, RanksOfLeafLeft, RanksOfFull DEF Inner
<1>5. nr = Len(Below(s, w, RightOf(s, c.rec)))
  BY <1>1, <1>3, PartitionRight DEF RightLen
<1>6. PICK d \in Nat : d = DepthOf(s)[c.rec] /\ DepthOf(s)[RightOf(s, c.rec)] = d + 1
  <2>1. DepthOf(s)[c.rec] \in 0 .. MaxLen
    BY <1>3, DepthFacts
  <2>2. DepthOf(s)[RightOf(s, c.rec)] = DepthOf(s)[c.rec] + 1
    BY <1>3, DepthFacts DEF DepthOK
  <2>3. QED
    BY <2>1, <2>2
<1>7. c.tmp + nr <= Len(w) + Len(w) * DepthOf(s)[RightOf(s, c.rec)]
  <2>1. nr <= Len(w)
    BY <1>3
  <2>2. QED
    BY <1>3, <1>6, <2>1, ChildFits
<1>8. c.tmp + nr \in Nat /\ c.tmp + nr <= c.tmp + nr
  BY <1>3
<1>9. x \in [op : {"node"}, rec : DOMAIN s, at : Nat, n : Nat, tmp : Nat]
  BY <1>2, <1>3, <1>4, <1>8
<1>10. x \in NodeCalls(s, w)
  BY <1>2, <1>5, <1>7, <1>8, <1>9 DEF NodeCalls
<1>11. QED
  BY <1>1, <1>2, <1>10

\* The left child's call fits: its ranks are where its parent's were.
LEMMA LeftChildIs ==
  ASSUME NEW s, SchedOK(s), NEW w \in Seq(Ranks), NEW c \in NodeCalls(s, w),
         s[c.rec].kind = "FULL", NEW x, x = LeftChild(s, w, c)
  PROVE  /\ x \in NodeCalls(s, w)
         /\ x.rec = c.rec + 1 /\ x.at = c.at
         /\ x.n = c.n - RightLen(s, w, c.rec) /\ x.tmp = c.tmp + RightLen(s, w, c.rec)
<1>1. PICK nr \in 0 .. c.n : nr = RightLen(s, w, c.rec)
  BY NodeFacts
<1>2. x = [op |-> "node", rec |-> c.rec + 1, at |-> c.at, n |-> c.n - nr, tmp |-> c.tmp + nr]
  BY <1>1 DEF LeftChild, NodeCall, ChildTmp
<1>3. /\ c.rec \in DOMAIN s /\ c.at \in Nat /\ c.tmp \in Nat /\ c.n \in Nat /\ nr \in Nat
      /\ c.n <= Len(w) /\ c.at + c.n <= c.tmp /\ c.n - nr \in Nat
      /\ c.tmp <= Len(w) + Len(w) * DepthOf(s)[c.rec] /\ Len(w) \in Nat
      /\ c.n = Len(Below(s, w, c.rec))
  BY NodeFacts
<1>4. c.rec + 1 \in DOMAIN s /\ Inner(s[c.rec])
  BY <1>3, RanksOfFull DEF Inner
<1>5. c.n - nr = Len(Below(s, w, c.rec + 1))
  <2>1. nr = Len(Below(s, w, RightOf(s, c.rec)))
    BY <1>1, <1>3, <1>4, PartitionRight DEF RightLen
  <2>2. QED
    BY <1>3, <2>1, FullSizes
<1>6. PICK d \in Nat : d = DepthOf(s)[c.rec] /\ DepthOf(s)[c.rec + 1] = d + 1
  <2>1. DepthOf(s)[c.rec] \in 0 .. MaxLen
    BY <1>3, DepthFacts
  <2>2. DepthOf(s)[c.rec + 1] = DepthOf(s)[c.rec] + 1
    BY <1>3, DepthFacts DEF DepthOK
  <2>3. QED
    BY <2>1, <2>2
<1>7. c.tmp + nr <= Len(w) + Len(w) * DepthOf(s)[c.rec + 1]
  <2>1. nr <= Len(w)
    BY <1>3
  <2>2. QED
    BY <1>3, <1>6, <2>1, ChildFits
<1>8. c.tmp + nr \in Nat /\ c.at + (c.n - nr) <= c.tmp + nr
  BY <1>3
<1>9. x \in [op : {"node"}, rec : DOMAIN s, at : Nat, n : Nat, tmp : Nat]
  BY <1>2, <1>3, <1>4, <1>8
<1>10. x \in NodeCalls(s, w)
  BY <1>2, <1>5, <1>7, <1>8, <1>9 DEF NodeCalls
<1>11. QED
  BY <1>1, <1>2, <1>10

\* A call inside another's ranks and cells may stand in for it beside its bitmap.
LEMMA ChildBeside ==
  ASSUME NEW s, SchedOK(s), NEW w \in Seq(Ranks), NEW c \in NodeCalls(s, w),
         NEW x \in NodeCalls(s, w),
         RanksOf(s)[x.rec] \subseteq RanksOf(s)[c.rec],
         ~(RanksOf(s)[c.rec] \subseteq RanksOf(s)[x.rec]),
         (c.at <= x.at /\ x.at + x.n <= c.at + c.n) \/ x.at = c.tmp,
         c.tmp <= x.tmp
  PROVE  x \in Beside(s, w, c)
<1>1. /\ c.op = "node" /\ c.at \in Nat /\ c.n \in Nat /\ c.tmp \in Nat
      /\ x.op = "node" /\ x.at \in Nat /\ x.n \in Nat /\ x.tmp \in Nat
      /\ x \in EncodeCalls(s, w)
  BY NodeFacts DEF EncodeCalls
<1>2. ASSUME NEW d \in EncodeCalls(s, w), Apart(s, c, d)
      PROVE  Apart(s, x, d)
  <2>1. CASE d.op = "node"
    <3>1. d \in NodeCalls(s, w)
      BY <2>1, CallOps
    <3>2. d.at \in Nat /\ d.n \in Nat
      BY <3>1, NodeFacts
    <3>3. /\ c.at + c.n <= d.at \/ d.at + d.n <= c.at
          /\ d.at + d.n <= c.tmp
          /\ RanksOf(s)[c.rec] \cap RanksOf(s)[d.rec] = {}
      BY <1>1, <1>2, <2>1 DEF Apart
    <3>4. RanksOf(s)[x.rec] \cap RanksOf(s)[d.rec] = {}
      BY <3>3
    <3>5. d.at + d.n <= x.tmp
      BY <1>1, <3>2, <3>3
    <3>6. x.at + x.n <= d.at \/ d.at + d.n <= x.at
      BY <1>1, <3>2, <3>3
    <3>7. QED
      BY <1>1, <2>1, <3>4, <3>5, <3>6 DEF Apart
  <2>2. CASE d.op = "bitmap"
    <3>1. ~(RanksOf(s)[d.rec] \subseteq RanksOf(s)[c.rec])
      BY <1>1, <1>2, <2>2 DEF Apart
    <3>2. ~(RanksOf(s)[d.rec] \subseteq RanksOf(s)[x.rec])
      BY <3>1
    <3>3. QED
      BY <1>1, <2>2, <3>2 DEF Apart
  <2>3. QED
    BY <2>1, <2>2, CallOps
<1>3. ASSUME NEW d \in EncodeCalls(s, w), d.op = "bitmap", Apart(s, d, c)
      PROVE  Apart(s, d, x)
  <2>1. ~(RanksOf(s)[d.rec] \subseteq RanksOf(s)[c.rec])
    BY <1>1, <1>3 DEF Apart
  <2>2. ~(RanksOf(s)[d.rec] \subseteq RanksOf(s)[x.rec])
    BY <2>1
  <2>3. QED
    BY <1>1, <1>3, <2>2 DEF Apart
<1>4. OwnBitmap(s, w, c).op = "bitmap" /\ OwnBitmap(s, w, c).rec = c.rec
  BY DEF OwnBitmap, BitmapCall
<1>5. Apart(s, OwnBitmap(s, w, c), x) /\ Apart(s, x, OwnBitmap(s, w, c))
  BY <1>1, <1>4 DEF Apart
<1>6. x \in StandIns(s, w, c)
  BY <1>1, <1>2, <1>3 DEF StandIns
<1>7. QED
  BY <1>5, <1>6 DEF Beside

\* A node's bitmap may stand in for the node.
LEMMA BitmapStandsIn ==
  ASSUME NEW s, SchedOK(s), NEW w \in Seq(Ranks), NEW c \in NodeCalls(s, w),
         s[c.rec].kind # "FLAT", c.n > 0
  PROVE  OwnBitmap(s, w, c) \in StandIns(s, w, c)
<1>1. PICK b : b = OwnBitmap(s, w, c)
  OBVIOUS
<1>2. b.op = "bitmap" /\ b.rec = c.rec /\ c.op = "node" /\ c.rec \in DOMAIN s
  BY <1>1, NodeFacts DEF OwnBitmap, BitmapCall
<1>3. b \in EncodeCalls(s, w)
  <2>1. Len(Below(s, w, c.rec)) > 0
    BY NodeFacts
  <2>2. b \in BitmapCalls(s, w)
    BY <1>1, <1>2, <2>1 DEF BitmapCalls, OwnBitmap
  <2>3. QED
    BY <2>2 DEF EncodeCalls
<1>4. RanksOf(s)[c.rec] # {}
  BY <1>2 DEF SchedOK, Ordered
<1>5. ASSUME NEW d \in EncodeCalls(s, w), Apart(s, c, d)
      PROVE  Apart(s, b, d)
  <2>1. CASE d.op = "node"
    <3>1. RanksOf(s)[c.rec] \cap RanksOf(s)[d.rec] = {}
      BY <1>2, <1>5, <2>1 DEF Apart
    <3>2. ~(RanksOf(s)[c.rec] \subseteq RanksOf(s)[d.rec])
      BY <1>4, <3>1
    <3>3. QED
      BY <1>2, <2>1, <3>2 DEF Apart
  <2>2. CASE d.op = "bitmap"
    <3>1. ~(RanksOf(s)[d.rec] \subseteq RanksOf(s)[c.rec])
      BY <1>2, <1>5, <2>2 DEF Apart
    <3>2. d.rec # c.rec
      BY <3>1
    <3>3. QED
      BY <1>2, <2>2, <3>2 DEF Apart
  <2>3. QED
    BY <2>1, <2>2, CallOps
<1>6. ASSUME NEW d \in EncodeCalls(s, w), d.op = "bitmap", Apart(s, d, c)
      PROVE  Apart(s, d, b)
  <2>1. ~(RanksOf(s)[d.rec] \subseteq RanksOf(s)[c.rec])
    BY <1>2, <1>6 DEF Apart
  <2>2. d.rec # c.rec
    BY <2>1
  <2>3. QED
    BY <1>2, <1>6, <2>2 DEF Apart
<1>7. QED
  BY <1>1, <1>3, <1>5, <1>6 DEF StandIns

\* So may the right child.
LEMMA RightBeside ==
  ASSUME NEW s, SchedOK(s), NEW w \in Seq(Ranks), NEW c \in NodeCalls(s, w), Inner(s[c.rec])
  PROVE  RightChild(s, w, c) \in Beside(s, w, c)
<1>1. PICK x : x = RightChild(s, w, c)
  OBVIOUS
<1>2. /\ x \in NodeCalls(s, w) /\ x.rec = RightOf(s, c.rec) /\ x.at = c.tmp
      /\ x.n = RightLen(s, w, c.rec) /\ x.tmp = c.tmp + x.n
  BY <1>1, RightChildIs
<1>3. c.rec \in DOMAIN s /\ c.tmp \in Nat /\ x.n \in Nat
  BY <1>2, NodeFacts
<1>4. CASE s[c.rec].kind = "LEAF_LEFT"
  <2>1. /\ RanksOf(s)[c.rec] = {s[c.rec].param} \cup RanksOf(s)[x.rec]
        /\ RanksOf(s)[c.rec] \cap Above(s[c.rec].param) = RanksOf(s)[x.rec]
    BY <1>2, <1>3, <1>4, RanksOfLeafLeft
  <2>2. s[c.rec].param \notin Above(s[c.rec].param)
    <3>1. s[c.rec].param \in Ranks
      BY <1>3 DEF SchedOK, Preorder
    <3>2. PICK p \in Ranks : p = s[c.rec].param
      BY <3>1
    <3>3. ~(p > p)
      BY DEF Ranks
    <3>4. QED
      BY <3>2, <3>3 DEF Above
  <2>3. ~(RanksOf(s)[c.rec] \subseteq RanksOf(s)[x.rec])
    BY <2>1, <2>2
  <2>4. RanksOf(s)[x.rec] \subseteq RanksOf(s)[c.rec]
    BY <2>1
  <2>5. c.tmp <= x.tmp
    BY <1>2, <1>3
  <2>6. QED
    BY <1>1, <1>2, <2>3, <2>4, <2>5, ChildBeside
<1>5. CASE s[c.rec].kind = "FULL"
  <2>1. /\ RanksOf(s)[c.rec] = RanksOf(s)[c.rec + 1] \cup RanksOf(s)[x.rec]
        /\ RanksOf(s)[c.rec + 1] \cap RanksOf(s)[x.rec] = {} /\ c.rec + 1 \in DOMAIN s
    BY <1>2, <1>3, <1>5, RanksOfFull
  <2>2. RanksOf(s)[c.rec + 1] # {}
    BY <2>1 DEF SchedOK, Ordered
  <2>3. ~(RanksOf(s)[c.rec] \subseteq RanksOf(s)[x.rec])
    BY <2>1, <2>2
  <2>4. RanksOf(s)[x.rec] \subseteq RanksOf(s)[c.rec]
    BY <2>1
  <2>5. c.tmp <= x.tmp
    BY <1>2, <1>3
  <2>6. QED
    BY <1>1, <1>2, <2>3, <2>4, <2>5, ChildBeside
<1>6. QED
  BY <1>4, <1>5 DEF Inner

\* So may the left child.
LEMMA LeftBeside ==
  ASSUME NEW s, SchedOK(s), NEW w \in Seq(Ranks), NEW c \in NodeCalls(s, w),
         s[c.rec].kind = "FULL"
  PROVE  LeftChild(s, w, c) \in Beside(s, w, c)
<1>1. PICK x : x = LeftChild(s, w, c)
  OBVIOUS
<1>2. /\ x \in NodeCalls(s, w) /\ x.rec = c.rec + 1 /\ x.at = c.at
      /\ x.n = c.n - RightLen(s, w, c.rec) /\ x.tmp = c.tmp + RightLen(s, w, c.rec)
  BY <1>1, LeftChildIs
<1>3. /\ c.rec \in DOMAIN s /\ c.at \in Nat /\ c.tmp \in Nat /\ c.n \in Nat
      /\ RightLen(s, w, c.rec) \in 0 .. c.n
  BY NodeFacts
<1>4. /\ RanksOf(s)[c.rec] = RanksOf(s)[x.rec] \cup RanksOf(s)[RightOf(s, c.rec)]
      /\ RanksOf(s)[x.rec] \cap RanksOf(s)[RightOf(s, c.rec)] = {}
      /\ RightOf(s, c.rec) \in DOMAIN s
  BY <1>2, <1>3, RanksOfFull
<1>5. RanksOf(s)[RightOf(s, c.rec)] # {}
  BY <1>4 DEF SchedOK, Ordered
<1>6. ~(RanksOf(s)[c.rec] \subseteq RanksOf(s)[x.rec])
  BY <1>4, <1>5
<1>7. RanksOf(s)[x.rec] \subseteq RanksOf(s)[c.rec]
  BY <1>4
<1>8. c.tmp <= x.tmp /\ c.at <= x.at /\ x.at + x.n <= c.at + c.n
  BY <1>2, <1>3
<1>9. QED
  BY <1>1, <1>2, <1>6, <1>7, <1>8, ChildBeside

\* The two children share the tmp above both.
LEMMA ChildrenApart ==
  ASSUME NEW s, SchedOK(s), NEW w \in Seq(Ranks), NEW c \in NodeCalls(s, w),
         s[c.rec].kind = "FULL"
  PROVE  /\ Apart(s, LeftChild(s, w, c), RightChild(s, w, c))
         /\ Apart(s, RightChild(s, w, c), LeftChild(s, w, c))
<1>1. PICK x : x = LeftChild(s, w, c)
  OBVIOUS
<1>2. PICK y : y = RightChild(s, w, c)
  OBVIOUS
<1>3. PICK nr \in 0 .. c.n : nr = RightLen(s, w, c.rec)
  BY NodeFacts
<1>4. /\ x.op = "node" /\ x.rec = c.rec + 1 /\ x.at = c.at
      /\ x.n = c.n - nr /\ x.tmp = c.tmp + nr
  BY <1>1, <1>3, LeftChildIs, NodeFacts
<1>5. /\ y.op = "node" /\ y.rec = RightOf(s, c.rec) /\ y.at = c.tmp
      /\ y.n = nr /\ y.tmp = c.tmp + nr
  BY <1>2, <1>3, RightChildIs, NodeFacts DEF Inner
<1>6. /\ c.rec \in DOMAIN s /\ c.at \in Nat /\ c.tmp \in Nat /\ c.n \in Nat /\ c.at + c.n <= c.tmp
  BY NodeFacts
<1>7. RanksOf(s)[x.rec] \cap RanksOf(s)[y.rec] = {} /\ RanksOf(s)[y.rec] \cap RanksOf(s)[x.rec] = {}
  BY <1>4, <1>5, <1>6, RanksOfFull
<1>8. /\ x.at + x.n <= y.at /\ y.at + y.n <= x.tmp /\ x.at + x.n <= y.tmp
  BY <1>4, <1>5, <1>6
<1>9. QED
  BY <1>1, <1>2, <1>4, <1>5, <1>7, <1>8 DEF Apart

\* One element as a sequence.
LEMMA SingleIs ==
  ASSUME NEW C, NEW x \in C
  PROVE  <<x>> \in Seq(C) /\ Len(<<x>>) = 1 /\ <<x>>[1] = x /\ <<x>> # <<>>
  OBVIOUS

\* One call is apart from the others.
LEMMA OneApart ==
  ASSUME NEW s, NEW x
  PROVE  AllApart(s, <<x>>)
  BY DEF AllApart

\* Two stacks apart from each other, one on top of the other.
LEMMA JoinApart ==
  ASSUME NEW s, NEW C, NEW p \in Seq(C), NEW q \in Seq(C), AllApart(s, p), AllApart(s, q),
         \A i \in 1 .. Len(p) : ApartFrom(s, p[i], q)
  PROVE  AllApart(s, p \o q)
<1>1. PICK z : z = p \o q
  OBVIOUS
<1>2. /\ Len(p) \in Nat /\ Len(q) \in Nat /\ Len(z) = Len(p) + Len(q)
      /\ \A i \in 1 .. Len(p) : z[i] = p[i]
      /\ \A i \in 1 .. Len(q) : z[Len(p) + i] = q[i]
  BY <1>1, JoinElement
<1>3. \A j \in 1 .. Len(z) : j > Len(p) =>
        j - Len(p) \in 1 .. Len(q) /\ z[j] = q[j - Len(p)]
  <2> SUFFICES ASSUME NEW j \in 1 .. Len(z), j > Len(p)
               PROVE j - Len(p) \in 1 .. Len(q) /\ z[j] = q[j - Len(p)]
    OBVIOUS
  <2>1. j - Len(p) \in 1 .. Len(q) /\ Len(p) + (j - Len(p)) = j
    <3>1. Len(p) \in Nat /\ Len(q) \in Nat /\ Len(z) = Len(p) + Len(q)
      BY <1>2
    <3>2. QED
      BY <3>1
  <2>2. PICK k \in 1 .. Len(q) : k = j - Len(p) /\ Len(p) + k = j
    BY <2>1
  <2>3. z[Len(p) + k] = q[k]
    BY <1>2, Zenon
  <2>4. QED
    BY <2>2, <2>3
<1>4. AllApart(s, z)
  <2> SUFFICES ASSUME NEW i \in 1 .. Len(z), NEW j \in 1 .. Len(z), i < j
               PROVE Apart(s, z[i], z[j])
    BY DEF AllApart
  <2>1. CASE j <= Len(p)
    <3>1. i \in 1 .. Len(p) /\ j \in 1 .. Len(p)
      BY <1>2, <2>1
    <3>2. QED
      BY <1>2, <3>1 DEF AllApart
  <2>2. CASE i <= Len(p) /\ j > Len(p)
    <3>1. i \in 1 .. Len(p) /\ j - Len(p) \in 1 .. Len(q) /\ z[j] = q[j - Len(p)] /\ z[i] = p[i]
      BY <1>2, <1>3, <2>2
    <3>2. QED
      BY <3>1 DEF ApartFrom
  <2>3. CASE i > Len(p)
    <3>1. j > Len(p) /\ i - Len(p) < j - Len(p)
      BY <1>2, <2>3
    <3>2. /\ i - Len(p) \in 1 .. Len(q) /\ z[i] = q[i - Len(p)]
          /\ j - Len(p) \in 1 .. Len(q) /\ z[j] = q[j - Len(p)]
      BY <1>3, <2>3, <3>1
    <3>3. QED
      BY <3>1, <3>2 DEF AllApart
  <2>4. QED
    BY <1>2, <2>1, <2>2, <2>3
<1>5. QED
  BY <1>1, <1>4

\* Two calls that are apart.
LEMMA PairApart ==
  ASSUME NEW s, NEW C, NEW x \in C, NEW y \in C, Apart(s, x, y)
  PROVE  AllApart(s, <<x>> \o <<y>>) /\ <<x>> \o <<y>> \in Seq(C)
<1>1. PICK p \in Seq(C), q \in Seq(C) : p = <<x>> /\ q = <<y>>
  <2>1. <<x>> \in Seq(C) /\ <<y>> \in Seq(C)
    BY SingleIs
  <2>2. QED
    BY <2>1, Zenon
<1>2. Len(p) = 1 /\ p[1] = x /\ Len(q) = 1 /\ q[1] = y
  BY <1>1
<1>3. \A i \in 1 .. Len(p) : ApartFrom(s, p[i], q)
  BY <1>2 DEF ApartFrom
<1>4. AllApart(s, p \o q)
  BY <1>1, <1>3, OneApart, JoinApart
<1>5. QED
  BY <1>1, <1>4, JoinElement

\* The children of a node may stand in for it, beside its bitmap and each other.
LEMMA ChildrenFit ==
  ASSUME NEW s, SchedOK(s), NEW w \in Seq(Ranks), NEW c \in NodeCalls(s, w),
         s[c.rec].kind # "FLAT"
  PROVE  Children(s, w, c) \in Seq(Beside(s, w, c)) /\ AllApart(s, Children(s, w, c))
<1>1. s[c.rec].kind \in {"FLAT", "BOTH_LEAVES", "LEAF_LEFT", "FULL"}
  BY NodeFacts DEF SchedOK, Preorder
<1>2. CASE s[c.rec].kind = "BOTH_LEAVES"
  <2>1. Children(s, w, c) = <<>>
    BY <1>2 DEF Children
  <2>2. AllApart(s, <<>>) /\ <<>> \in Seq(Beside(s, w, c))
    BY DEF AllApart
  <2>3. QED
    BY <2>1, <2>2
<1>3. CASE s[c.rec].kind = "LEAF_LEFT"
  <2>1. Children(s, w, c) = <<RightChild(s, w, c)>>
    BY <1>3 DEF Children
  <2>2. RightChild(s, w, c) \in Beside(s, w, c)
    BY <1>3, RightBeside DEF Inner
  <2>3. QED
    BY <2>1, <2>2, OneApart, SingleIs
<1>4. CASE s[c.rec].kind = "FULL"
  <2>1. \/ Children(s, w, c) = <<RightChild(s, w, c)>> \o <<LeftChild(s, w, c)>>
        \/ Children(s, w, c) = <<LeftChild(s, w, c)>> \o <<RightChild(s, w, c)>>
    BY <1>4 DEF Children
  <2>2. RightChild(s, w, c) \in Beside(s, w, c) /\ LeftChild(s, w, c) \in Beside(s, w, c)
    BY <1>4, RightBeside, LeftBeside DEF Inner
  <2>3. /\ Apart(s, LeftChild(s, w, c), RightChild(s, w, c))
        /\ Apart(s, RightChild(s, w, c), LeftChild(s, w, c))
    BY <1>4, ChildrenApart
  <2>4. QED
    BY <2>1, <2>2, <2>3, PairApart
<1>5. QED
  BY <1>1, <1>2, <1>3, <1>4

\* The bitmap and the children of a node may take its place.
LEMMA NodeReplaced ==
  ASSUME NEW s, SchedOK(s), NEW w \in Seq(Ranks), NEW c \in NodeCalls(s, w), NEW k,
         s[c.rec].kind # "FLAT", c.n > 0
  PROVE  Replaces(s, w, c, Pushed(s, w, k, c))
<1>1. PICK B, D : B = Beside(s, w, c) /\ D = StandIns(s, w, c)
  OBVIOUS
<1>2. PICK b \in D : b = OwnBitmap(s, w, c)
  BY <1>1, BitmapStandsIn
<1>3. PICK kids \in Seq(B) : kids = Children(s, w, c) /\ AllApart(s, kids)
  BY <1>1, ChildrenFit
<1>4. B \subseteq D /\ \A x \in B : Apart(s, b, x) /\ Apart(s, x, b)
  BY <1>1, <1>2 DEF Beside
<1>5. kids \in Seq(D) /\ \A i \in 1 .. Len(kids) : kids[i] \in B
  BY <1>4
<1>6. PICK one \in Seq(D) : one = <<b>> /\ Len(one) = 1 /\ one[1] = b
  BY SingleIs
<1>7. AllApart(s, one)
  BY <1>6, OneApart
<1>8. AllApart(s, one \o kids)
  <2>1. \A i \in 1 .. Len(one) : ApartFrom(s, one[i], kids)
    BY <1>4, <1>5, <1>6 DEF ApartFrom
  <2>2. QED
    BY <1>3, <1>5, <1>7, <2>1, JoinApart
<1>9. AllApart(s, kids \o one)
  <2>1. \A i \in 1 .. Len(kids) : ApartFrom(s, kids[i], one)
    BY <1>4, <1>5, <1>6 DEF ApartFrom
  <2>2. QED
    BY <1>3, <1>5, <1>7, <2>1, JoinApart
<1>10. PICK p : p = Pushed(s, w, k, c)
  OBVIOUS
<1>11. p \in Seq(D) /\ AllApart(s, p)
  <2>1. p = one \o kids \/ p = kids \o one
    BY <1>2, <1>3, <1>6, <1>10 DEF Pushed
  <2>2. QED
    BY <1>5, <1>8, <1>9, <2>1, JoinElement, ZenonT(40)
<1>12. D \subseteq EncodeCalls(s, w)
  BY <1>1 DEF StandIns
<1>13. p \in Seq(EncodeCalls(s, w))
  BY <1>11, <1>12
<1>14. \A i \in 1 .. Len(p) : p[i] \in D
  BY <1>11
<1>15. QED
  BY <1>1, <1>10, <1>11, <1>13, <1>14 DEF Replaces, StandIns

-----------------------------------------------------------------------------
(* The two buffers. *)

\* A pending call finds the ranks of its record in its cells.
Ready(m, s, w, c) ==
  c.op = "node" => \A k \in 1 .. c.n : m[c.at + k - 1] = Below(s, w, c.rec)[k]
AllReady(m, s, w, q) == \A i \in 1 .. Len(q) : Ready(m, s, w, q[i])

\* The two buffers after the partition of call c.
Partitioned(m, s, w, c) ==
  IF s[c.rec].kind = "BOTH_LEAVES" THEN m
  ELSE IF s[c.rec].kind = "LEAF_LEFT" THEN Put(Below(s, w, RightOf(s, c.rec)), c.tmp, m)
  ELSE Put(Below(s, w, c.rec + 1), c.at, Put(Below(s, w, RightOf(s, c.rec)), c.tmp, m))

\* A smaller block at a smaller depth needs less room.
LEMMA RoomGrows ==
  ASSUME NEW a \in Nat, NEW A \in Nat, NEW d \in Nat, NEW D \in Nat, a <= A, d <= D
  PROVE  a + a * d <= A + A * D
<1>1. PICK e \in Nat : D = d + e
  <2>1. D - d \in Nat /\ D = d + (D - d)
    OBVIOUS
  <2>2. QED
    BY <2>1
<1>2. PICK b \in Nat : A = a + b
  <2>1. A - a \in Nat /\ A = a + (A - a)
    OBVIOUS
  <2>2. QED
    BY <2>1
<1>3. A * D = a * d + a * e + b * d + b * e
  BY <1>1, <1>2
<1>4. a * d \in Nat /\ a * e \in Nat /\ b * d \in Nat /\ b * e \in Nat
  OBVIOUS
<1>5. PICK w \in Nat, x \in Nat, y \in Nat, z \in Nat :
        w = a * d /\ x = a * e /\ y = b * d /\ z = b * e
  BY <1>4
<1>6. A * D = w + x + y + z
  BY <1>3, <1>5
<1>7. a + w <= A + (w + x + y + z)
  BY <1>5
<1>8. QED
  BY <1>5, <1>6, <1>7

\* A node's ranks and its tmp are cells of the arena.
LEMMA NodeInRoom ==
  ASSUME NEW s, SchedOK(s), NEW w \in Seq(Ranks), Len(w) <= MaxN, NEW c \in NodeCalls(s, w)
  PROVE  /\ c.tmp <= MaxN + MaxN * MaxLen
         /\ \A k \in 1 .. c.n : c.at + k - 1 \in Cells
<1>1. /\ c.rec \in DOMAIN s /\ c.at \in Nat /\ c.n \in Nat /\ c.tmp \in Nat
      /\ c.at + c.n <= c.tmp /\ c.tmp <= Len(w) + Len(w) * DepthOf(s)[c.rec]
  BY NodeFacts
<1>2. PICK d \in 0 .. MaxLen : d = DepthOf(s)[c.rec]
  BY <1>1, DepthFacts
<1>3. MaxN \in Nat /\ MaxLen \in Nat /\ Len(w) \in Nat
  BY NumbersAssumption
<1>4. Len(w) + Len(w) * d <= MaxN + MaxN * MaxLen
  BY <1>3, RoomGrows
<1>5. PICK x \in Nat : x = Len(w) + Len(w) * d
  BY <1>2, <1>3
<1>6. PICK y \in Nat : y = MaxN + MaxN * MaxLen
  BY <1>3
<1>7. c.tmp <= y
  BY <1>1, <1>2, <1>4, <1>5, <1>6
<1>8. \A k \in 1 .. c.n : c.at + k - 1 \in 0 .. (y - 1)
  BY <1>1, <1>7
<1>9. Cells = 0 .. (y - 1)
  <2>1. PICK z \in Nat : z = MaxN * MaxLen
    BY <1>3
  <2>2. y - 1 = MaxN + (z - 1)
    BY <1>3, <1>6, <2>1
  <2>3. QED
    BY <2>1, <2>2, Zenon DEF Cells
<1>10. c.tmp <= MaxN + MaxN * MaxLen
  BY <1>6, <1>7
<1>11. QED
  BY <1>8, <1>9, <1>10

\* A cell that was written.
LEMMA PutIn ==
  ASSUME NEW seq, NEW at \in Nat, NEW m, NEW k \in 1 .. Len(seq), Len(seq) \in Nat,
         at + k - 1 \in Cells
  PROVE  Put(seq, at, m)[at + k - 1] = seq[k]
<1>1. PICK x \in Cells : x = at + k - 1
  OBVIOUS
<1>2. x \in at .. (at + Len(seq) - 1) /\ x - at + 1 = k
  BY <1>1
<1>3. QED
  BY <1>1, <1>2 DEF Put

\* A cell that was not written.
LEMMA PutOut ==
  ASSUME NEW seq, NEW at, NEW m, NEW x \in Cells, x \notin at .. (at + Len(seq) - 1)
  PROVE  Put(seq, at, m)[x] = m[x]
  BY DEF Put

\* Neither half of a partition reaches a call it is apart from.
LEMMA OthersReady ==
  ASSUME NEW s, SchedOK(s), NEW w \in Seq(Ranks), Len(w) <= MaxN, NEW c \in NodeCalls(s, w),
         NEW m, NEW d \in EncodeCalls(s, w), Apart(s, c, d), Ready(m, s, w, d),
         s[c.rec].kind \in {"BOTH_LEAVES", "LEAF_LEFT", "FULL"}
  PROVE  Ready(Partitioned(m, s, w, c), s, w, d)
<1> SUFFICES ASSUME d.op = "node", NEW k \in 1 .. d.n
             PROVE Partitioned(m, s, w, c)[d.at + k - 1] = Below(s, w, d.rec)[k]
  BY DEF Ready
<1>1. d \in NodeCalls(s, w)
  BY CallOps
<1>2. d.at \in Nat /\ d.n \in Nat
  BY <1>1, NodeFacts
<1>3. PICK x \in Cells : x = d.at + k - 1
  BY <1>1, NodeInRoom
<1>4. m[x] = Below(s, w, d.rec)[k]
  BY <1>3 DEF Ready
<1>5. /\ c.op = "node" /\ c.rec \in DOMAIN s /\ c.at \in Nat /\ c.n \in Nat /\ c.tmp \in Nat
      /\ c.n = Len(Below(s, w, c.rec))
  BY NodeFacts
<1>6. (c.at + c.n <= d.at \/ d.at + d.n <= c.at) /\ d.at + d.n <= c.tmp
  BY <1>5 DEF Apart
<1>7. PICK R : R = Below(s, w, RightOf(s, c.rec))
  OBVIOUS
<1>8. x \notin c.tmp .. (c.tmp + Len(R) - 1)
  BY <1>2, <1>3, <1>5, <1>6
<1>9. Put(R, c.tmp, m)[x] = m[x]
  BY <1>8, PutOut
<1>10. CASE s[c.rec].kind = "BOTH_LEAVES"
  BY <1>3, <1>4, <1>10 DEF Partitioned
<1>11. CASE s[c.rec].kind = "LEAF_LEFT"
  BY <1>3, <1>4, <1>7, <1>9, <1>11 DEF Partitioned
<1>12. CASE s[c.rec].kind = "FULL"
  <2>1. PICK L : L = Below(s, w, c.rec + 1)
    OBVIOUS
  <2>2. PICK nl \in Nat, nr \in Nat : nl = Len(L) /\ nr + nl = c.n
    <3>1. /\ Len(R) \in Nat /\ Len(L) \in Nat /\ c.n - Len(R) = Len(L)
      BY <1>5, <1>7, <1>12, <2>1, FullSizes
    <3>2. Len(R) + Len(L) = c.n
      BY <1>5, <3>1
    <3>3. QED
      BY <3>1, <3>2
  <2>3. x \notin c.at .. (c.at + nl - 1)
    BY <1>2, <1>3, <1>5, <1>6, <2>2, SMTT(30)
  <2>4. PICK m1 : m1 = Put(R, c.tmp, m)
    OBVIOUS
  <2>5. Put(L, c.at, m1)[x] = m1[x]
    BY <2>2, <2>3, PutOut
  <2>6. Partitioned(m, s, w, c) = Put(L, c.at, m1)
    BY <1>7, <1>12, <2>1, <2>4 DEF Partitioned
  <2>7. QED
    BY <1>3, <1>4, <1>9, <2>4, <2>5, <2>6
<1>13. QED
  BY <1>10, <1>11, <1>12

\* After the partition the right child finds its ranks in tmp.
LEMMA RightReady ==
  ASSUME NEW s, SchedOK(s), NEW w \in Seq(Ranks), Len(w) <= MaxN, NEW c \in NodeCalls(s, w),
         NEW m, Inner(s[c.rec])
  PROVE  Ready(Partitioned(m, s, w, c), s, w, RightChild(s, w, c))
<1>1. PICK x \in NodeCalls(s, w) :
        /\ x = RightChild(s, w, c) /\ x.rec = RightOf(s, c.rec) /\ x.at = c.tmp
  BY RightChildIs
<1>2. PICK R : R = Below(s, w, x.rec)
  OBVIOUS
<1>3. x.n = Len(R) /\ x.n \in Nat /\ x.at \in Nat
  BY <1>2, NodeFacts
<1>4. PICK m1 : m1 = Put(R, c.tmp, m)
  OBVIOUS
<1>5. ASSUME NEW k \in 1 .. x.n
      PROVE  m1[x.at + k - 1] = R[k] /\ x.at + k - 1 \in Cells
  <2>1. x.at + k - 1 \in Cells
    BY NodeInRoom
  <2>2. QED
    BY <1>1, <1>3, <1>4, <2>1, PutIn
<1>6. CASE s[c.rec].kind = "LEAF_LEFT"
  <2>1. Partitioned(m, s, w, c) = m1
    BY <1>1, <1>2, <1>4, <1>6 DEF Partitioned
  <2>2. QED
    BY <1>1, <1>2, <1>5, <2>1 DEF Ready
<1>7. CASE s[c.rec].kind = "FULL"
  <2>1. PICK L : L = Below(s, w, c.rec + 1)
    OBVIOUS
  <2>2. Partitioned(m, s, w, c) = Put(L, c.at, m1)
    BY <1>1, <1>2, <1>4, <1>7, <2>1 DEF Partitioned
  <2>3. /\ c.rec \in DOMAIN s /\ c.at \in Nat /\ c.n \in Nat /\ c.tmp \in Nat
        /\ c.at + c.n <= c.tmp /\ c.n = Len(Below(s, w, c.rec))
    BY NodeFacts
  <2>4. PICK nl \in Nat : nl = Len(L) /\ nl <= c.n
    <3>1. Len(R) \in Nat /\ Len(L) \in Nat /\ c.n - Len(R) = Len(L)
      BY <1>1, <1>2, <1>7, <2>1, <2>3, FullSizes
    <3>2. Len(L) <= c.n
      BY <2>3, <3>1
    <3>3. QED
      BY <3>1, <3>2
  <2>5. ASSUME NEW k \in 1 .. x.n
        PROVE  Put(L, c.at, m1)[x.at + k - 1] = R[k]
    <3>1. PICK y \in Cells : y = x.at + k - 1
      BY <1>5
    <3>2. y \notin c.at .. (c.at + Len(L) - 1)
      BY <1>1, <1>3, <2>3, <2>4, <3>1
    <3>3. QED
      BY <1>5, <3>1, <3>2, PutOut
  <2>6. QED
    BY <1>1, <1>2, <2>2, <2>5 DEF Ready
<1>8. QED
  BY <1>6, <1>7 DEF Inner

\* After the partition the left child finds its ranks in place.
LEMMA LeftReady ==
  ASSUME NEW s, SchedOK(s), NEW w \in Seq(Ranks), Len(w) <= MaxN, NEW c \in NodeCalls(s, w),
         NEW m, s[c.rec].kind = "FULL"
  PROVE  Ready(Partitioned(m, s, w, c), s, w, LeftChild(s, w, c))
<1>1. PICK x \in NodeCalls(s, w) :
        /\ x = LeftChild(s, w, c) /\ x.rec = c.rec + 1 /\ x.at = c.at
  BY LeftChildIs
<1>2. PICK L : L = Below(s, w, x.rec)
  OBVIOUS
<1>3. x.n = Len(L) /\ x.n \in Nat /\ x.at \in Nat
  BY <1>2, NodeFacts
<1>4. PICK m1 : m1 = Put(Below(s, w, RightOf(s, c.rec)), c.tmp, m)
  OBVIOUS
<1>5. Partitioned(m, s, w, c) = Put(L, c.at, m1)
  BY <1>1, <1>2, <1>4 DEF Partitioned
<1>6. ASSUME NEW k \in 1 .. x.n
      PROVE  Put(L, c.at, m1)[x.at + k - 1] = L[k]
  <2>1. x.at + k - 1 \in Cells
    BY NodeInRoom
  <2>2. QED
    BY <1>1, <1>3, <2>1, PutIn
<1>7. QED
  BY <1>1, <1>2, <1>5, <1>6 DEF Ready

\* After a node's partition every pending call is ready: its children in their
\* halves, the other calls as before.
LEMMA NodeReady ==
  ASSUME NEW s, SchedOK(s), NEW w \in Seq(Ranks), Len(w) <= MaxN,
         NEW q \in Seq(EncodeCalls(s, w)), q # <<>>, AllApart(s, q),
         NEW m, AllReady(m, s, w, q), NEW k,
         NEW c \in NodeCalls(s, w), c = Head(q), s[c.rec].kind # "FLAT", c.n > 0
  PROVE  AllReady(Partitioned(m, s, w, c), s, w, Pushed(s, w, k, c) \o Tail(q))
<1>1. PICK m2 : m2 = Partitioned(m, s, w, c)
  OBVIOUS
<1>2. s[c.rec].kind \in {"BOTH_LEAVES", "LEAF_LEFT", "FULL"}
  BY NodeFacts DEF SchedOK, Preorder
<1>3. PICK C : C = {x \in EncodeCalls(s, w) : Ready(m2, s, w, x)}
  OBVIOUS
<1>4. Tail(q) \in Seq(C)
  <2>1. /\ Tail(q) \in Seq(EncodeCalls(s, w)) /\ Len(q) \in Nat /\ ApartFrom(s, c, Tail(q))
        /\ Len(Tail(q)) = Len(q) - 1 /\ \A i \in 1 .. (Len(q) - 1) : Tail(q)[i] = q[i + 1]
    BY TailElement, PopApart
  <2>2. PICK t \in Seq(EncodeCalls(s, w)) : t = Tail(q)
    BY <2>1
  <2>3. ASSUME NEW i \in 1 .. Len(t)
        PROVE  t[i] \in C
    <3>1. t[i] \in EncodeCalls(s, w) /\ Apart(s, c, t[i])
      BY <2>1, <2>2 DEF ApartFrom
    <3>2. Ready(m, s, w, t[i])
      <4>1. t[i] = q[i + 1] /\ i + 1 \in 1 .. Len(q)
        BY <2>1, <2>2
      <4>2. QED
        BY <4>1 DEF AllReady
    <3>3. Ready(m2, s, w, t[i])
      BY <1>1, <1>2, <3>1, <3>2, OthersReady
    <3>4. QED
      BY <1>3, <3>1, <3>3
  <2>4. t = [i \in 1 .. Len(t) |-> t[i]] /\ Len(t) \in Nat
    OBVIOUS
  <2>5. t \in Seq(C)
    BY <2>3, <2>4
  <2>6. QED
    BY <2>2, <2>5
<1>5. OwnBitmap(s, w, c) \in C
  <2>1. OwnBitmap(s, w, c) \in EncodeCalls(s, w)
    BY BitmapStandsIn DEF StandIns
  <2>2. Ready(m2, s, w, OwnBitmap(s, w, c))
    BY DEF Ready, OwnBitmap, BitmapCall
  <2>3. QED
    BY <1>3, <2>1, <2>2
<1>6. Children(s, w, c) \in Seq(C)
  <2>1. NodeCalls(s, w) \subseteq EncodeCalls(s, w)
    BY DEF EncodeCalls
  <2>2. Inner(s[c.rec]) => RightChild(s, w, c) \in C
    BY <1>1, <1>3, <2>1, RightReady, RightChildIs
  <2>3. s[c.rec].kind = "FULL" => LeftChild(s, w, c) \in C
    BY <1>1, <1>3, <2>1, LeftReady, LeftChildIs
  <2>4. CASE s[c.rec].kind = "BOTH_LEAVES"
    BY <2>4 DEF Children
  <2>5. CASE s[c.rec].kind = "LEAF_LEFT"
    <3>1. Children(s, w, c) = <<RightChild(s, w, c)>>
      BY <2>5 DEF Children
    <3>2. RightChild(s, w, c) \in C
      BY <2>2, <2>5 DEF Inner
    <3>3. <<RightChild(s, w, c)>> \in Seq(C)
      BY <3>2, SingleIs
    <3>4. QED
      BY <3>1, <3>3
  <2>6. CASE s[c.rec].kind = "FULL"
    <3>1. \/ Children(s, w, c) = <<RightChild(s, w, c)>> \o <<LeftChild(s, w, c)>>
          \/ Children(s, w, c) = <<LeftChild(s, w, c)>> \o <<RightChild(s, w, c)>>
      BY <2>6 DEF Children
    <3>2. <<RightChild(s, w, c)>> \in Seq(C) /\ <<LeftChild(s, w, c)>> \in Seq(C)
      <4>1. RightChild(s, w, c) \in C /\ LeftChild(s, w, c) \in C
        BY <2>2, <2>3, <2>6 DEF Inner
      <4>2. QED
        BY <4>1, SingleIs
    <3>3. \A p, t \in Seq(C) : p \o t \in Seq(C)
      BY JoinElement
    <3>4. QED
      BY <3>1, <3>2, <3>3, Zenon
  <2>7. QED
    BY <1>2, <2>4, <2>5, <2>6
<1>7. PICK p \in Seq(C) : p = Pushed(s, w, k, c)
  <2>1. <<OwnBitmap(s, w, c)>> \in Seq(C)
    BY <1>5, SingleIs
  <2>2. Pushed(s, w, k, c) \in Seq(C)
    BY <1>6, <2>1, JoinElement DEF Pushed
  <2>3. QED
    BY <2>2
<1>8. PICK z \in Seq(C) : z = p \o Tail(q)
  BY <1>4, JoinElement
<1>9. \A i \in 1 .. Len(z) : z[i] \in C
  OBVIOUS
<1>10. QED
  BY <1>1, <1>3, <1>7, <1>8, <1>9 DEF AllReady

-----------------------------------------------------------------------------
(* The order of the records. *)

\* The order of the records of a block: which record of the stream belongs to which
\* node.  Tags stand for the stream's records, given those of the children.
Tag(g, r) == [tag |-> g, rec |-> r]
Tags(s)   == [tag : {"bitmap", "K_right", "flat"}, rec : DOMAIN s]
Body(f, s, w, r) ==
  IF s[r].kind = "BOTH_LEAVES" THEN <<>>
  ELSE IF s[r].kind = "LEAF_LEFT" THEN f[RightOf(s, r)]
  ELSE IF EncodeRightFirst(RightLen(s, w, r), Len(Below(s, w, r)) - RightLen(s, w, r))
       THEN f[RightOf(s, r)] \o f[r + 1]
       ELSE f[r + 1] \o f[RightOf(s, r)]
Around(s, w, k, r, body) ==
  IF s[r].kind = "BOTH_LEAVES" THEN <<Tag("bitmap", r)>>
  ELSE IF Len(Below(s, w, r)) < k THEN <<Tag("bitmap", r)>> \o body
  ELSE <<Tag("K_right", r)>> \o (body \o <<Tag("bitmap", r)>>)
TagsOf(f, s, w, k, r) ==
  IF Len(Below(s, w, r)) = 0 THEN <<>>
  ELSE IF s[r].kind = "FLAT" THEN <<Tag("flat", r)>>
  ELSE Around(s, w, k, r, Body(f, s, w, r))

IsOrder(f, s, w, k) ==
  f \in [DOMAIN s -> Seq(Tags(s))] /\ \A r \in DOMAIN s : f[r] = TagsOf(f, s, w, k, r)
OrderOf(s, w, k) == CHOOSE f : IsOrder(f, s, w, k)

SameFrom(f, g, lo, last) == \A q \in lo .. last : f[q] = g[q]

\* The tags of a record.
LEMMA TagIs ==
  ASSUME NEW s, NEW r \in DOMAIN s, NEW g \in {"bitmap", "K_right", "flat"}
  PROVE  Tag(g, r) \in Tags(s) /\ <<Tag(g, r)>> \in Seq(Tags(s))
<1>1. Tag(g, r) \in Tags(s)
  BY DEF Tag, Tags
<1>2. QED
  BY <1>1, SingleIs

\* Children come later in a preorder.
LEMMA Later ==
  ASSUME NEW s, NEW last \in Ranks, Preorder(s), DOMAIN s = 0 .. last, NEW r \in 0 .. last
  PROVE  /\ Inner(s[r]) => RightOf(s, r) \in (r + 1) .. last
         /\ s[r].kind = "FULL" => r + 1 \in (r + 1) .. last
<1>1. last \in Nat /\ r \in Nat
  BY RanksAreNat
<1>2. ASSUME Inner(s[r])
      PROVE  r + 1 \in (r + 1) .. last
  <2>1. r + 1 \in 0 .. last
    BY <1>2 DEF Preorder
  <2>2. QED
    BY <1>1, <2>1
<1>3. ASSUME s[r].kind = "FULL"
      PROVE  r + s[r].right \in (r + 1) .. last
  <2>1. s[r].right \in Nat /\ s[r].right # 0 /\ r + s[r].right \in 0 .. last
    BY <1>3, RanksAreNat DEF Preorder
  <2>2. PICK d \in Nat : d = s[r].right
    BY <2>1
  <2>3. QED
    BY <1>1, <2>1, <2>2
<1>4. CASE s[r].kind = "FULL"
  BY <1>2, <1>3, <1>4 DEF RightOf, Inner
<1>5. CASE s[r].kind # "FULL"
  BY <1>2, <1>5 DEF RightOf, Inner
<1>6. QED
  BY <1>4, <1>5

\* The type of a record's part of the order.
LEMMA TagsOfType ==
  ASSUME NEW s, NEW last \in Ranks, Preorder(s), DOMAIN s = 0 .. last, NEW r \in 0 .. last,
         NEW w, NEW k, NEW f, \A q \in (r + 1) .. last : f[q] \in Seq(Tags(s))
  PROVE  TagsOf(f, s, w, k, r) \in Seq(Tags(s)) /\
         (s[r].kind # "FLAT" => Body(f, s, w, r) \in Seq(Tags(s)))
<1>1. PICK C : C = Tags(s)
  OBVIOUS
<1>2. \A a, b \in Seq(C) : a \o b \in Seq(C)
  BY JoinElement
<1>3. <<Tag("flat", r)>> \in Seq(C) /\ <<Tag("bitmap", r)>> \in Seq(C) /\ <<Tag("K_right", r)>> \in Seq(C)
  BY <1>1, TagIs
<1>4. <<>> \in Seq(C)
  OBVIOUS
<1>5. ASSUME s[r].kind # "FLAT"
      PROVE  Body(f, s, w, r) \in Seq(C)
  <2>1. s[r].kind \in {"BOTH_LEAVES", "LEAF_LEFT", "FULL"}
    BY <1>5 DEF Preorder
  <2>2. CASE s[r].kind = "BOTH_LEAVES"
    BY <1>4, <2>2 DEF Body
  <2>3. CASE s[r].kind = "LEAF_LEFT"
    <3>1. f[RightOf(s, r)] \in Seq(C)
      BY <1>1, <2>3, Later DEF Inner
    <3>2. QED
      BY <2>3, <3>1 DEF Body
  <2>4. CASE s[r].kind = "FULL"
    <3>1. f[RightOf(s, r)] \in Seq(C) /\ f[r + 1] \in Seq(C)
      BY <1>1, <2>4, Later DEF Inner
    <3>2. PICK a \in Seq(C), b \in Seq(C) : a = f[RightOf(s, r)] /\ b = f[r + 1]
      BY <3>1
    <3>3. a \o b \in Seq(C) /\ b \o a \in Seq(C)
      BY <1>2
    <3>4. QED
      BY <2>4, <3>2, <3>3, Zenon DEF Body
  <2>5. QED
    BY <2>1, <2>2, <2>3, <2>4
<1>6. ASSUME s[r].kind # "FLAT"
      PROVE  Around(s, w, k, r, Body(f, s, w, r)) \in Seq(C)
  <2>1. PICK a \in Seq(C), b \in Seq(C), d \in Seq(C) :
          a = Body(f, s, w, r) /\ b = <<Tag("bitmap", r)>> /\ d = <<Tag("K_right", r)>>
    BY <1>3, <1>5, <1>6
  <2>2. b \in Seq(C) /\ b \o a \in Seq(C) /\ d \o (a \o b) \in Seq(C)
    BY <1>2
  <2>3. QED
    BY <2>1, <2>2, Zenon DEF Around
<1>7. TagsOf(f, s, w, k, r) \in Seq(C)
  BY <1>3, <1>4, <1>6, Zenon DEF TagsOf
<1>8. QED
  BY <1>1, <1>5, <1>7

\* A record's part of the order depends on those of later records only.
LEMMA TagsOfAgrees ==
  ASSUME NEW s, NEW last \in Ranks, Preorder(s), DOMAIN s = 0 .. last, NEW r \in 0 .. last,
         NEW w, NEW k, NEW f, NEW g, SameFrom(f, g, r + 1, last)
  PROVE  TagsOf(f, s, w, k, r) = TagsOf(g, s, w, k, r)
<1>1. s[r].kind \in {"FLAT", "BOTH_LEAVES", "LEAF_LEFT", "FULL"}
  BY DEF Preorder
<1>2. Inner(s[r]) => f[RightOf(s, r)] = g[RightOf(s, r)]
  BY Later DEF SameFrom
<1>3. s[r].kind = "FULL" => f[r + 1] = g[r + 1]
  BY Later DEF SameFrom
<1>4. CASE s[r].kind = "FLAT"
  BY <1>4 DEF TagsOf
<1>5. CASE s[r].kind # "FLAT"
  <2>1. Body(f, s, w, r) = Body(g, s, w, r)
    BY <1>1, <1>2, <1>3, <1>5 DEF Body, Inner
  <2>2. QED
    BY <1>5, <2>1 DEF TagsOf
<1>6. QED
  BY <1>4, <1>5

\* There is an order of the whole block.
LEMMA OrderExists ==
  ASSUME NEW s, Preorder(s), NEW w, NEW k
  PROVE  \E f : IsOrder(f, s, w, k)
<1>1. PICK last \in Ranks : DOMAIN s = 0 .. last
  BY DEF Preorder
<1>2. PICK Q : Q = Seq(Tags(s))
  OBVIOUS
<1> DEFINE From(f, lo) ==
             /\ f \in [0 .. last -> Q]
             /\ \A r \in lo .. last : f[r] = TagsOf(f, s, w, k, r)
           U == {d \in 0 .. (last + 1) : \E f : From(f, last + 1 - d)}
<1>3. last \in Nat /\ last + 1 \in Nat
  BY RanksAreNat
<1>4. 0 \in U
  <2>1. PICK lo \in Nat : lo = last + 1 - 0 /\ lo > last
    BY <1>3
  <2>2. lo .. last = {}
    BY <1>3, <2>1
  <2>3. <<>> \in Q
    BY <1>2
  <2>4. [r \in 0 .. last |-> <<>>] \in [0 .. last -> Q]
    BY <2>3
  <2>5. \E f : From(f, lo)
    BY <2>2, <2>4
  <2>6. QED
    BY <1>3, <2>1, <2>5
<1>5. ASSUME NEW d \in 0 .. (last + 1 - 1), d \in U
      PROVE  d + 1 \in U
  <2>1. PICK lo \in 1 .. (last + 1) : lo = last + 1 - d
    BY <1>3
  <2>2. PICK f : From(f, lo)
    BY <1>5, <2>1
  <2>3. PICK m \in 0 .. last : m = lo - 1 /\ lo = m + 1
    BY <1>3
  <2>4. PICK v \in Q : v = TagsOf(f, s, w, k, m)
    <3>1. \A q \in (m + 1) .. last : f[q] \in Seq(Tags(s))
      BY <1>2, <1>3, <2>2, <2>3
    <3>2. TagsOf(f, s, w, k, m) \in Seq(Tags(s))
      BY <1>1, <2>3, <3>1, TagsOfType
    <3>3. QED
      BY <1>2, <3>2
  <2>5. PICK g \in [0 .. last -> Q] : g = [f EXCEPT ![m] = v]
    BY <2>2
  <2>6. g[m] = v /\ \A r \in lo .. last : g[r] = f[r]
    BY <1>3, <2>2, <2>3, <2>5
  <2>7. ASSUME NEW r \in m .. last
        PROVE  g[r] = TagsOf(g, s, w, k, r)
    <3>1. r \in 0 .. last
      BY <2>3
    <3>2. SameFrom(f, g, r + 1, last)
      BY <1>3, <2>3, <2>6 DEF SameFrom
    <3>3. TagsOf(f, s, w, k, r) = TagsOf(g, s, w, k, r)
      BY <1>1, <3>1, <3>2, TagsOfAgrees
    <3>4. CASE r = m
      BY <2>4, <2>6, <3>3, <3>4
    <3>5. CASE r # m
      <4>1. r \in lo .. last
        BY <2>3, <3>5
      <4>2. f[r] = TagsOf(f, s, w, k, r)
        BY <2>2, <4>1
      <4>3. QED
        BY <2>6, <3>3, <4>1, <4>2
    <3>6. QED
      BY <3>4, <3>5
  <2>8. m = last + 1 - (d + 1) /\ d + 1 \in 0 .. (last + 1)
    BY <1>3, <2>1, <2>3
  <2>9. From(g, last + 1 - (d + 1))
    BY <2>7, <2>8
  <2>10. QED
    BY <2>8, <2>9
<1>6. 0 .. (last + 1) \subseteq U
  <2> HIDE DEF U
  <2>1. QED
    BY <1>3, <1>4, <1>5, BoundedInduction
<1>7. last + 1 \in 0 .. (last + 1) /\ last + 1 - (last + 1) = 0
  BY <1>3
<1>8. PICK f : From(f, 0)
  BY <1>6, <1>7
<1>9. QED
  BY <1>1, <1>2, <1>8 DEF IsOrder

\* The order of a record's part of the stream.
LEMMA OrderUnfolds ==
  ASSUME NEW s, Preorder(s), NEW w, NEW k
  PROVE  /\ OrderOf(s, w, k) \in [DOMAIN s -> Seq(Tags(s))]
         /\ \A r \in DOMAIN s : OrderOf(s, w, k)[r] = TagsOf(OrderOf(s, w, k), s, w, k, r)
         /\ \A r \in DOMAIN s : s[r].kind # "FLAT" => Body(OrderOf(s, w, k), s, w, r) \in Seq(Tags(s))
<1>1. PICK f : f = OrderOf(s, w, k)
  OBVIOUS
<1>2. IsOrder(f, s, w, k)
  BY <1>1, OrderExists, Zenon DEF OrderOf
<1>3. PICK last \in Ranks : DOMAIN s = 0 .. last
  BY DEF Preorder
<1>4. ASSUME NEW r \in DOMAIN s, s[r].kind # "FLAT"
      PROVE  Body(f, s, w, r) \in Seq(Tags(s))
  <2>1. r \in Nat /\ last \in Nat
    BY <1>3, RanksAreNat
  <2>2. \A q \in (r + 1) .. last : f[q] \in Seq(Tags(s))
    BY <1>2, <1>3, <2>1 DEF IsOrder
  <2>3. QED
    BY <1>3, <1>4, <2>2, TagsOfType
<1>5. QED
  BY <1>1, <1>2, <1>4 DEF IsOrder

-----------------------------------------------------------------------------
(* What pending calls still do. *)

\* A walk between two of its calls: the records still to come and the buffers decoded.
States(s) == [tags : Seq(Tags(s)), vals : Seq(Seq(Ranks))]

\* What a merge takes: the children's parts, the one decoded last on top.
Operands(s, w, c) ==
  IF s[c.rec].kind = "LEAF_LEFT" THEN <<Below(s, w, RightOf(s, c.rec))>>
  ELSE IF c.rightFirst
       THEN <<Below(s, w, c.rec + 1)>> \o <<Below(s, w, RightOf(s, c.rec))>>
       ELSE <<Below(s, w, RightOf(s, c.rec))>> \o <<Below(s, w, c.rec + 1)>>

\* What a pending call does to the walk, from its start to its end.
NodeLink(s, w, k, c, x, y) ==
  x.tags = OrderOf(s, w, k)[c.rec] \o y.tags /\ y.vals = x.vals
BitmapLink(s, c, x, y) ==
  x.tags = <<Tag("bitmap", c.rec)>> \o y.tags /\ y.vals = x.vals
SubtreeLink(s, w, k, c, x, y) ==
  x.tags = OrderOf(s, w, k)[c.rec] \o y.tags /\ y.vals = <<Below(s, w, c.rec)>> \o x.vals
MergeLink(s, w, c, x, y) ==
  /\ x.tags = (IF c.early # <<>> THEN <<>> ELSE <<Tag("bitmap", c.rec)>>) \o y.tags
  /\ \E rest \in Seq(Seq(Ranks)) :
       x.vals = Operands(s, w, c) \o rest /\ y.vals = <<Below(s, w, c.rec)>> \o rest
Link(s, w, k, c, x, y) ==
  /\ c.op = "node"    => NodeLink(s, w, k, c, x, y)
  /\ c.op = "bitmap"  => BitmapLink(s, c, x, y)
  /\ c.op = "subtree" => SubtreeLink(s, w, k, c, x, y)
  /\ c.op = "merge"   => MergeLink(s, w, c, x, y)

\* The pending calls of q, one after the other, lead from x to z.
Passes(s, w, k, q, Z) == \A i \in 1 .. Len(q) : Link(s, w, k, q[i], Z[i], Z[i + 1])
Leads(s, w, k, q, x, z) ==
  \E Z \in [1 .. (Len(q) + 1) -> States(s)] :
    Z[1] = x /\ Z[Len(q) + 1] = z /\ Passes(s, w, k, q, Z)

\* No call leads nowhere else.
LEMMA LeadsEmpty ==
  ASSUME NEW s, NEW w, NEW k, NEW x \in States(s), NEW z
  PROVE  Leads(s, w, k, <<>>, x, z) <=> x = z
<1>1. Len(<<>>) = 0
  OBVIOUS
<1>2. ASSUME x = z
      PROVE  Leads(s, w, k, <<>>, x, z)
  <2>1. PICK Z \in [1 .. 1 -> States(s)] : Z = [i \in 1 .. 1 |-> x]
    OBVIOUS
  <2>2. Z[1] = x /\ Passes(s, w, k, <<>>, Z)
    BY <2>1 DEF Passes
  <2>3. QED
    BY <1>1, <1>2, <2>2 DEF Leads
<1>3. QED
  BY <1>1, <1>2 DEF Leads

\* A single call.
LEMMA LeadsOne ==
  ASSUME NEW s, NEW w, NEW k, NEW c, NEW x \in States(s), NEW y \in States(s),
         Link(s, w, k, c, x, y)
  PROVE  Leads(s, w, k, <<c>>, x, y)
<1>1. Len(<<c>>) = 1 /\ <<c>>[1] = c
  OBVIOUS
<1>2. PICK Z \in [1 .. 2 -> States(s)] : Z = [i \in 1 .. 2 |-> IF i = 1 THEN x ELSE y]
  OBVIOUS
<1>3. Z[1] = x /\ Z[2] = y
  BY <1>2
<1>4. Passes(s, w, k, <<c>>, Z)
  BY <1>1, <1>3 DEF Passes
<1>5. Len(<<c>>) + 1 = 2
  BY <1>1
<1>6. QED
  BY <1>3, <1>4, <1>5, Zenon DEF Leads

\* The first call, and the calls after it.
LEMMA LeadsTail ==
  ASSUME NEW s, NEW w, NEW k, NEW C, NEW q \in Seq(C), q # <<>>, NEW x, NEW z,
         Leads(s, w, k, q, x, z)
  PROVE  \E y \in States(s) : Link(s, w, k, Head(q), x, y) /\ Leads(s, w, k, Tail(q), y, z)
<1>1. /\ Head(q) = q[1] /\ Len(q) \in Nat /\ Len(q) >= 1
      /\ Len(Tail(q)) = Len(q) - 1 /\ \A i \in 1 .. (Len(q) - 1) : Tail(q)[i] = q[i + 1]
  BY TailElement
<1>2. PICK n \in Nat : Len(q) = n + 1
  <2>1. Len(q) - 1 \in Nat /\ Len(q) = (Len(q) - 1) + 1
    BY <1>1
  <2>2. QED
    BY <2>1
<1>3. PICK Z \in [1 .. (n + 1 + 1) -> States(s)] :
        Z[1] = x /\ Z[n + 1 + 1] = z /\ Passes(s, w, k, q, Z)
  BY <1>2, Zenon DEF Leads
<1>4. PICK t : t = Tail(q)
  OBVIOUS
<1>5. Len(t) = n /\ \A i \in 1 .. n : t[i] = q[i + 1]
  BY <1>1, <1>2, <1>4
<1>6. PICK Y \in [1 .. (n + 1) -> States(s)] : Y = [i \in 1 .. (n + 1) |-> Z[i + 1]]
  <2>1. \A i \in 1 .. (n + 1) : Z[i + 1] \in States(s)
    OBVIOUS
  <2>2. QED
    BY <2>1, Zenon
<1>7. Y[1] = Z[2] /\ Y[n + 1] = z
  BY <1>3, <1>6
<1>8. Passes(s, w, k, t, Y)
  <2> SUFFICES ASSUME NEW i \in 1 .. n
               PROVE Link(s, w, k, t[i], Y[i], Y[i + 1])
    BY <1>5 DEF Passes
  <2>1. i + 1 \in 1 .. Len(q)
    BY <1>2
  <2>2. Link(s, w, k, q[i + 1], Z[i + 1], Z[i + 1 + 1])
    BY <1>3, <2>1 DEF Passes
  <2>3. Y[i] = Z[i + 1] /\ Y[i + 1] = Z[i + 1 + 1]
    BY <1>6
  <2>4. QED
    BY <1>5, <2>2, <2>3
<1>9. Leads(s, w, k, t, Y[1], z)
  BY <1>5, <1>7, <1>8 DEF Leads
<1>10. Link(s, w, k, q[1], Z[1], Z[2])
  <2>1. 1 \in 1 .. Len(q) /\ 1 + 1 = 2
    BY <1>2
  <2>2. QED
    BY <1>3, <2>1 DEF Passes
<1>11. Y[1] \in States(s)
  BY <1>6
<1>12. Link(s, w, k, Head(q), x, Y[1]) /\ Leads(s, w, k, Tail(q), Y[1], z)
  BY <1>1, <1>3, <1>4, <1>7, <1>9, <1>10, Zenon
<1>13. QED
  BY <1>11, <1>12, Zenon

\* Calls, and calls after them.
LEMMA LeadsJoin ==
  ASSUME NEW s, NEW w, NEW k, NEW C, NEW p \in Seq(C), NEW q \in Seq(C),
         NEW x, NEW y, NEW z, Leads(s, w, k, p, x, y), Leads(s, w, k, q, y, z)
  PROVE  Leads(s, w, k, p \o q, x, z)
<1>0. PICK r : r = p \o q
  OBVIOUS
<1>1. PICK m \in Nat, n \in Nat :
        m = Len(p) /\ n = Len(q) /\ r = p \o q /\ Len(r) = m + n
          /\ (\A i \in 1 .. m : r[i] = p[i]) /\ \A i \in 1 .. n : r[m + i] = q[i]
  <2>1. /\ Len(p) \in Nat /\ Len(q) \in Nat /\ Len(r) = Len(p) + Len(q)
        /\ \A i \in 1 .. Len(p) : r[i] = p[i]
        /\ \A i \in 1 .. Len(q) : r[Len(p) + i] = q[i]
    BY <1>0, JoinElement
  <2>2. QED
    BY <1>0, <2>1, Zenon
<1>2. PICK X \in [1 .. (m + 1) -> States(s)] : X[1] = x /\ X[m + 1] = y /\ Passes(s, w, k, p, X)
  BY <1>1 DEF Leads
<1>3. PICK Y \in [1 .. (n + 1) -> States(s)] : Y[1] = y /\ Y[n + 1] = z /\ Passes(s, w, k, q, Y)
  BY <1>1 DEF Leads
<1>4. PICK Z : Z = [i \in 1 .. (m + n + 1) |-> IF i <= m THEN X[i] ELSE Y[i - m]]
  OBVIOUS
<1>5. Z \in [1 .. (m + n + 1) -> States(s)]
  <2>1. ASSUME NEW i \in 1 .. (m + n + 1)
        PROVE  (IF i <= m THEN X[i] ELSE Y[i - m]) \in States(s)
    <3>1. CASE i <= m
      <4>1. i \in 1 .. (m + 1)
        BY <3>1
      <4>2. QED
        BY <3>1, <4>1
    <3>2. CASE ~(i <= m)
      <4>1. i - m \in 1 .. (n + 1)
        BY <3>2
      <4>2. QED
        BY <3>2, <4>1
    <3>3. QED
      BY <3>1, <3>2
  <2>2. QED
    BY <1>4, <2>1
<1>6. Z[1] = x
  <2>1. CASE m = 0
    BY <1>2, <1>3, <1>4, <2>1
  <2>2. CASE m # 0
    BY <1>2, <1>4, <2>2
  <2>3. QED
    BY <2>1, <2>2
<1>7. Z[m + n + 1] = z
  BY <1>3, <1>4
<1>8. \A j \in 1 .. (n + 1) : Z[m + j] = Y[j]
  <2> TAKE j \in 1 .. (n + 1)
  <2>1. m + j \in 1 .. (m + n + 1) /\ ~(m + j <= m) /\ (m + j) - m = j
    OBVIOUS
  <2>2. QED
    BY <1>4, <2>1
<1>9. Passes(s, w, k, r, Z)
  <2> SUFFICES ASSUME NEW i \in 1 .. (m + n)
               PROVE Link(s, w, k, r[i], Z[i], Z[i + 1])
    BY <1>1 DEF Passes
  <2>1. CASE i <= m
    <3>1. i \in 1 .. m
      BY <2>1
    <3>2. Link(s, w, k, p[i], X[i], X[i + 1])
      BY <1>1, <1>2, <3>1 DEF Passes
    <3>3. Z[i] = X[i]
      BY <1>4, <2>1
    <3>4. Z[i + 1] = X[i + 1]
      <4>1. CASE i + 1 <= m
        BY <1>4, <4>1
      <4>2. CASE i = m
        <5>1. Z[m + 1] = Y[1]
          BY <1>8
        <5>2. QED
          BY <1>2, <1>3, <4>2, <5>1
      <4>3. QED
        BY <2>1, <4>1, <4>2
    <3>5. QED
      BY <1>1, <3>1, <3>2, <3>3, <3>4
  <2>2. CASE ~(i <= m)
    <3>1. PICK j \in 1 .. n : i = m + j
      <4>1. i - m \in 1 .. n /\ i = m + (i - m)
        BY <2>2
      <4>2. QED
        BY <4>1
    <3>2. Link(s, w, k, q[j], Y[j], Y[j + 1])
      BY <1>1, <1>3 DEF Passes
    <3>3. r[i] = q[j]
      BY <1>1, <3>1
    <3>4. j \in 1 .. (n + 1) /\ j + 1 \in 1 .. (n + 1) /\ i + 1 = m + (j + 1)
      BY <3>1
    <3>5. Z[i] = Y[j] /\ Z[i + 1] = Y[j + 1]
      BY <1>8, <3>1, <3>4
    <3>6. QED
      BY <3>2, <3>3, <3>5
  <2>3. QED
    BY <2>1, <2>2
<1>10. QED
  BY <1>1, <1>5, <1>6, <1>7, <1>9 DEF Leads

-----------------------------------------------------------------------------
(* The calls of the encode walk. *)

State(u, v) == [tags |-> u, vals |-> v]

\* A state has its parts.
LEMMA StateIs ==
  ASSUME NEW s, NEW u \in Seq(Tags(s)), NEW v \in Seq(Seq(Ranks))
  PROVE  State(u, v) \in States(s) /\ State(u, v).tags = u /\ State(u, v).vals = v
  BY DEF State, States

\* A state is its parts.
LEMMA StateParts ==
  ASSUME NEW s, NEW x \in States(s)
  PROVE  x.tags \in Seq(Tags(s)) /\ x.vals \in Seq(Seq(Ranks)) /\ x = State(x.tags, x.vals)
  BY DEF State, States

\* Joining sequences is associative.
LEMMA Regroup ==
  ASSUME NEW C, NEW a \in Seq(C), NEW b \in Seq(C), NEW d \in Seq(C)
  PROVE  (a \o b) \o d = a \o (b \o d)
  OBVIOUS

SameJoin(p, q, r) == (p \o q) \o r = p \o (q \o r)

\* The same, closed, with the equation under a name.
LEMMA RegroupAll ==
  ASSUME NEW C
  PROVE  \A p, q, r \in Seq(C) : SameJoin(p, q, r)
  BY DEF SameJoin

\* Joining nothing.
LEMMA EmptyJoin ==
  ASSUME NEW C, NEW a \in Seq(C)
  PROVE  <<>> \o a = a /\ a \o <<>> = a
  OBVIOUS

\* A node's call takes the node's part off the order.
LEMMA NodeLinks ==
  ASSUME NEW s, SchedOK(s), NEW w, NEW k, NEW c, c.op = "node", c.rec \in DOMAIN s,
         NEW u \in Seq(Tags(s)), NEW v \in Seq(Seq(Ranks)),
         NEW f, f = OrderOf(s, w, k)
  PROVE  /\ f[c.rec] \in Seq(Tags(s)) /\ f[c.rec] \o u \in Seq(Tags(s))
         /\ Leads(s, w, k, <<c>>, State(f[c.rec] \o u, v), State(u, v))
<1>1. f[c.rec] \in Seq(Tags(s))
  BY OrderUnfolds DEF SchedOK
<1>2. PICK g \in Seq(Tags(s)) : g = f[c.rec] \o u
  BY <1>1, JoinElement
<1>3. /\ State(g, v) \in States(s) /\ State(g, v).tags = g /\ State(g, v).vals = v
      /\ State(u, v) \in States(s) /\ State(u, v).tags = u /\ State(u, v).vals = v
  BY StateIs
<1>4. PICK x, y : x = State(g, v) /\ y = State(u, v)
  OBVIOUS
<1>5. NodeLink(s, w, k, c, x, y)
  BY <1>2, <1>3, <1>4 DEF NodeLink
<1>6. Link(s, w, k, c, x, y)
  BY <1>5 DEF Link
<1>7. Leads(s, w, k, <<c>>, x, y)
  BY <1>3, <1>4, <1>6, LeadsOne
<1>8. QED
  BY <1>1, <1>2, <1>4, <1>7

\* The children of a node take what is between its own records off the order.
LEMMA ChildrenLead ==
  ASSUME NEW s, SchedOK(s), NEW w \in Seq(Ranks), NEW k, NEW c \in NodeCalls(s, w),
         s[c.rec].kind # "FLAT", NEW u \in Seq(Tags(s)), NEW v \in Seq(Seq(Ranks))
  PROVE  /\ Body(OrderOf(s, w, k), s, w, c.rec) \o u \in Seq(Tags(s))
         /\ Leads(s, w, k, Children(s, w, c),
                  State(Body(OrderOf(s, w, k), s, w, c.rec) \o u, v), State(u, v))
<1>1. PICK f : f = OrderOf(s, w, k)
  OBVIOUS
<1>2. PICK B : B = Body(f, s, w, c.rec)
  OBVIOUS
<1>3. /\ c.rec \in DOMAIN s /\ c.n = Len(Below(s, w, c.rec))
      /\ s[c.rec].kind \in {"BOTH_LEAVES", "LEAF_LEFT", "FULL"}
  BY NodeFacts DEF SchedOK, Preorder
<1>4. B \in Seq(Tags(s)) /\ B \o u \in Seq(Tags(s))
  <2>1. B \in Seq(Tags(s))
    BY <1>1, <1>2, <1>3, OrderUnfolds DEF SchedOK
  <2>2. QED
    BY <2>1, JoinElement
<1>5. CASE s[c.rec].kind = "BOTH_LEAVES"
  <2>1. B = <<>> /\ Children(s, w, c) = <<>>
    BY <1>2, <1>5 DEF Body, Children
  <2>2. B \o u = u
    BY <2>1, EmptyJoin
  <2>3. State(u, v) \in States(s)
    BY StateIs
  <2>4. Leads(s, w, k, <<>>, State(u, v), State(u, v))
    BY <2>3, LeadsEmpty
  <2>5. QED
    BY <1>1, <1>2, <1>4, <2>1, <2>2, <2>4
<1>6. Inner(s[c.rec]) =>
        /\ RightChild(s, w, c) \in NodeCalls(s, w) /\ RightChild(s, w, c).op = "node"
        /\ RightChild(s, w, c).rec = RightOf(s, c.rec) /\ RightOf(s, c.rec) \in DOMAIN s
  BY RightChildIs, NodeFacts
<1>7. CASE s[c.rec].kind = "LEAF_LEFT"
  <2>1. PICK R : R = RightChild(s, w, c)
    OBVIOUS
  <2>2. R.op = "node" /\ R.rec = RightOf(s, c.rec) /\ R.rec \in DOMAIN s
    BY <1>6, <1>7, <2>1 DEF Inner
  <2>3. B = f[R.rec] /\ Children(s, w, c) = <<R>>
    BY <1>2, <1>7, <2>1, <2>2 DEF Body, Children
  <2>4. Leads(s, w, k, <<R>>, State(f[R.rec] \o u, v), State(u, v))
    BY <1>1, <2>2, NodeLinks
  <2>5. QED
    BY <1>1, <1>2, <1>4, <2>3, <2>4
<1>8. CASE s[c.rec].kind = "FULL"
  <2>1. PICK R \in NodeCalls(s, w) : R = RightChild(s, w, c)
    BY <1>6, <1>8 DEF Inner
  <2>2. R.op = "node" /\ R.rec = RightOf(s, c.rec) /\ R.rec \in DOMAIN s
    BY <1>6, <1>8, <2>1 DEF Inner
  <2>3. PICK L \in NodeCalls(s, w) : L = LeftChild(s, w, c)
    BY <1>8, LeftChildIs
  <2>4. L.op = "node" /\ L.rec = c.rec + 1 /\ L.rec \in DOMAIN s
    BY <1>8, <2>3, LeftChildIs, NodeFacts
  <2>5. PICK g \in Seq(Tags(s)), h \in Seq(Tags(s)) : g = f[R.rec] /\ h = f[L.rec]
    BY <1>1, <2>2, <2>4, OrderUnfolds DEF SchedOK
  <2>6. <<R>> \in Seq(NodeCalls(s, w)) /\ <<L>> \in Seq(NodeCalls(s, w))
    BY <2>1, <2>3, SingleIs
  <2>7. g \o u \in Seq(Tags(s)) /\ h \o u \in Seq(Tags(s))
    BY JoinElement
  <2>8. /\ Leads(s, w, k, <<R>>, State(g \o u, v), State(u, v))
        /\ Leads(s, w, k, <<R>>, State(g \o (h \o u), v), State(h \o u, v))
    BY <1>1, <2>2, <2>5, <2>7, NodeLinks
  <2>9. /\ Leads(s, w, k, <<L>>, State(h \o u, v), State(u, v))
        /\ Leads(s, w, k, <<L>>, State(h \o (g \o u), v), State(g \o u, v))
    BY <1>1, <2>4, <2>5, <2>7, NodeLinks
  <2>10. CASE EncodeRightFirst(RightLen(s, w, c.rec), c.n - RightLen(s, w, c.rec))
    <3>1. B = g \o h /\ Children(s, w, c) = <<R>> \o <<L>>
      BY <1>2, <1>3, <1>8, <2>1, <2>2, <2>3, <2>4, <2>5, <2>10 DEF Body, Children
    <3>2. B \o u = g \o (h \o u)
      BY <3>1, Regroup
    <3>3. Leads(s, w, k, <<R>> \o <<L>>, State(g \o (h \o u), v), State(u, v))
      BY <2>6, <2>8, <2>9, LeadsJoin
    <3>4. QED
      BY <1>1, <1>2, <1>4, <3>1, <3>2, <3>3
  <2>11. CASE ~EncodeRightFirst(RightLen(s, w, c.rec), c.n - RightLen(s, w, c.rec))
    <3>1. B = h \o g /\ Children(s, w, c) = <<L>> \o <<R>>
      BY <1>2, <1>3, <1>8, <2>1, <2>2, <2>3, <2>4, <2>5, <2>11 DEF Body, Children
    <3>2. B \o u = h \o (g \o u)
      BY <3>1, Regroup
    <3>3. Leads(s, w, k, <<L>> \o <<R>>, State(h \o (g \o u), v), State(u, v))
      BY <2>6, <2>8, <2>9, LeadsJoin
    <3>4. QED
      BY <1>1, <1>2, <1>4, <3>1, <3>2, <3>3
  <2>12. QED
    BY <2>10, <2>11
<1>9. QED
  BY <1>3, <1>5, <1>7, <1>8

\* The node's K_right header goes at once, unless its bitmap goes first.
Header(s, k, c) == ~(c.n < k) /\ s[c.rec].kind # "BOTH_LEAVES"

\* A node's calls take the place of the node, less the header.
LEMMA BitmapLinks ==
  ASSUME NEW s, NEW w, NEW k, NEW c, c.op = "bitmap", c.rec \in DOMAIN s,
         NEW u \in Seq(Tags(s)), NEW v \in Seq(Seq(Ranks))
  PROVE  /\ <<Tag("bitmap", c.rec)>> \o u \in Seq(Tags(s))
         /\ Leads(s, w, k, <<c>>, State(<<Tag("bitmap", c.rec)>> \o u, v), State(u, v))
<1>1. <<Tag("bitmap", c.rec)>> \in Seq(Tags(s))
  BY TagIs
<1>2. PICK g \in Seq(Tags(s)) : g = <<Tag("bitmap", c.rec)>> \o u
  BY <1>1, JoinElement
<1>3. /\ State(g, v) \in States(s) /\ State(g, v).tags = g /\ State(g, v).vals = v
      /\ State(u, v) \in States(s) /\ State(u, v).tags = u /\ State(u, v).vals = v
  BY StateIs
<1>4. PICK x, y : x = State(g, v) /\ y = State(u, v)
  OBVIOUS
<1>5. BitmapLink(s, c, x, y)
  BY <1>2, <1>3, <1>4 DEF BitmapLink
<1>6. Link(s, w, k, c, x, y)
  BY <1>5 DEF Link
<1>7. Leads(s, w, k, <<c>>, x, y)
  BY <1>3, <1>4, <1>6, LeadsOne
<1>8. QED
  BY <1>2, <1>4, <1>7

\* A node's calls take the place of the node, less the header.
LEMMA PushedLead ==
  ASSUME NEW s, SchedOK(s), NEW w \in Seq(Ranks), NEW k, NEW c \in NodeCalls(s, w),
         s[c.rec].kind # "FLAT", c.n > 0, NEW x \in States(s), NEW y \in States(s),
         NodeLink(s, w, k, c, x, y)
  PROVE  \E u \in Seq(Tags(s)) :
           /\ x.tags = (IF Header(s, k, c) THEN <<Tag("K_right", c.rec)>> ELSE <<>>) \o u
           /\ Leads(s, w, k, Pushed(s, w, k, c), State(u, x.vals), y)
<1>1. PICK C : C = Tags(s)
  OBVIOUS
<1>0. \A p, q, r \in Seq(C) : SameJoin(p, q, r)
  BY RegroupAll, Zenon
<1>2. PICK f : f = OrderOf(s, w, k)
  OBVIOUS
<1>3. PICK g \in Seq(C) : g = y.tags
  BY <1>1, StateParts
<1>4. PICK v \in Seq(Seq(Ranks)) : v = y.vals
  BY StateParts
<1>5. PICK own \in EncodeCalls(s, w) : own = OwnBitmap(s, w, c)
  BY BitmapStandsIn DEF StandIns
<1>6. own.op = "bitmap" /\ own.rec = c.rec
  BY <1>5 DEF OwnBitmap, BitmapCall
<1>7. PICK kids \in Seq(EncodeCalls(s, w)) : kids = Children(s, w, c)
  <2>1. PICK B : B = Beside(s, w, c)
    OBVIOUS
  <2>2. PICK p \in Seq(B) : p = Children(s, w, c)
    BY <2>1, ChildrenFit
  <2>3. B \subseteq EncodeCalls(s, w)
    BY <2>1 DEF Beside, StandIns
  <2>4. p \in Seq(EncodeCalls(s, w))
    BY <2>3
  <2>5. QED
    BY <2>2, <2>4
<1>8. /\ c.rec \in DOMAIN s /\ c.n = Len(Below(s, w, c.rec)) /\ c.n \in Nat
      /\ s[c.rec].kind \in {"BOTH_LEAVES", "LEAF_LEFT", "FULL"}
  BY NodeFacts DEF SchedOK, Preorder
<1>9. PICK B \in Seq(C) : B = Body(f, s, w, c.rec)
  BY <1>1, <1>2, <1>8, OrderUnfolds DEF SchedOK
<1>10. PICK h \in Seq(C), d \in Seq(C) :
         h = <<Tag("bitmap", c.rec)>> /\ d = <<Tag("K_right", c.rec)>>
  <2>1. <<Tag("bitmap", c.rec)>> \in Seq(C) /\ <<Tag("K_right", c.rec)>> \in Seq(C)
    BY <1>1, <1>8, TagIs
  <2>2. QED
    BY <2>1
<1>11. f[c.rec] = Around(s, w, k, c.rec, B)
  <2>1. f[c.rec] = TagsOf(f, s, w, k, c.rec)
    BY <1>2, <1>8, OrderUnfolds DEF SchedOK
  <2>2. Len(Below(s, w, c.rec)) # 0
    BY <1>8
  <2>3. QED
    BY <1>9, <2>1, <2>2 DEF TagsOf
<1>12. x.tags = f[c.rec] \o g /\ x.vals = v /\ x = State(x.tags, v) /\ y = State(g, v)
  BY <1>2, <1>3, <1>4, StateParts DEF NodeLink
<1>13. ASSUME NEW t \in Seq(C)
       PROVE  /\ h \o t \in Seq(C) /\ B \o t \in Seq(C)
              /\ Leads(s, w, k, <<own>>, State(h \o t, v), State(t, v))
              /\ Leads(s, w, k, kids, State(B \o t, v), State(t, v))
  BY <1>1, <1>2, <1>6, <1>7, <1>8, <1>9, <1>10, BitmapLinks, ChildrenLead
<1>14. <<own>> \in Seq(EncodeCalls(s, w))
  BY SingleIs
<1>15. CASE s[c.rec].kind = "BOTH_LEAVES"
  <2>1. f[c.rec] = h /\ kids = <<>> /\ ~Header(s, k, c)
    BY <1>7, <1>10, <1>11, <1>15 DEF Around, Children, Header
  <2>2. Pushed(s, w, k, c) = <<own>>
    <3>1. Pushed(s, w, k, c) = <<own>> \o kids \/ Pushed(s, w, k, c) = kids \o <<own>>
      BY <1>5, <1>7 DEF Pushed
    <3>2. <<own>> \o <<>> = <<own>> /\ <<>> \o <<own>> = <<own>>
      BY <1>14, EmptyJoin
    <3>3. QED
      BY <2>1, <3>1, <3>2
  <2>3. <<>> \o (h \o g) = h \o g /\ h \o g \in Seq(C)
    BY <1>13, EmptyJoin
  <2>4. QED
    BY <1>1, <1>12, <1>13, <2>1, <2>2, <2>3
<1>16. CASE s[c.rec].kind # "BOTH_LEAVES" /\ c.n < k
  <2>1. f[c.rec] = h \o B /\ ~Header(s, k, c)
    BY <1>8, <1>10, <1>11, <1>16 DEF Around, Header
  <2>2. PICK t \in Seq(C) : t = B \o g
    BY <1>13
  <2>3. x.tags = h \o t
    <3>0. SameJoin(h, B, g)
      BY <1>0, Zenon
    <3>1. (h \o B) \o g = h \o (B \o g)
      BY <3>0, Zenon DEF SameJoin
    <3>2. QED
      BY <1>12, <2>1, <2>2, <3>1
  <2>4. Pushed(s, w, k, c) = <<own>> \o kids
    BY <1>5, <1>7, <1>16 DEF Pushed
  <2>5. Leads(s, w, k, <<own>> \o kids, State(h \o t, v), State(g, v))
    BY <1>13, <1>14, <2>2, LeadsJoin
  <2>6. <<>> \o (h \o t) = h \o t /\ h \o t \in Seq(C)
    BY <1>13, EmptyJoin
  <2>7. QED
    BY <1>1, <1>12, <2>1, <2>3, <2>4, <2>5, <2>6
<1>17. CASE s[c.rec].kind # "BOTH_LEAVES" /\ ~(c.n < k)
  <2>1. f[c.rec] = d \o (B \o h) /\ Header(s, k, c)
    BY <1>8, <1>10, <1>11, <1>17 DEF Around, Header
  <2>2. PICK t \in Seq(C) : t = h \o g
    BY <1>13
  <2>3. x.tags = d \o (B \o t) /\ B \o t \in Seq(C)
    <3>1. PICK e \in Seq(C) : e = B \o h
      BY <1>13
    <3>2. (d \o e) \o g = d \o (e \o g)
      <4>1. SameJoin(d, e, g)
        BY <1>0, Zenon
      <4>2. QED
        BY <4>1, Zenon DEF SameJoin
    <3>3. e \o g = B \o t
      <4>1. (B \o h) \o g = B \o (h \o g)
        <5>1. SameJoin(B, h, g)
          BY <1>0, Zenon
        <5>2. QED
          BY <5>1, Zenon DEF SameJoin
      <4>2. QED
        BY <2>2, <3>1, <4>1
    <3>4. QED
      BY <1>12, <1>13, <2>1, <3>1, <3>2, <3>3
  <2>4. Pushed(s, w, k, c) = kids \o <<own>>
    BY <1>5, <1>7, <1>17 DEF Pushed
  <2>5. Leads(s, w, k, kids \o <<own>>, State(B \o t, v), State(g, v))
    BY <1>13, <1>14, <2>2, LeadsJoin
  <2>6. QED
    BY <1>1, <1>10, <1>12, <2>1, <2>3, <2>4, <2>5
<1>18. QED
  BY <1>15, <1>16, <1>17

-----------------------------------------------------------------------------
(* The calls of the decode walk. *)

\* The pending calls a decode walk of a block can have.
SubtreeCalls(s, w) ==
  {c \in [op : {"subtree"}, rec : DOMAIN s, K : Nat] : c.K = Len(Below(s, w, c.rec))}
EarlyBits(s, w, k, r) == IF Len(Below(s, w, r)) < k THEN BitsOf(s, w, r) ELSE <<>>
MergeCalls(s, w, k) ==
  {c \in [op : {"merge"}, rec : DOMAIN s, K : Nat, early : Seq(BOOLEAN), rightFirst : BOOLEAN] :
     /\ Inner(s[c.rec]) /\ c.K = Len(Below(s, w, c.rec)) /\ c.K > 0
     /\ c.early = EarlyBits(s, w, k, c.rec)}
DecodeCalls(s, w, k) == SubtreeCalls(s, w) \cup MergeCalls(s, w, k)

\* What DecodeInner puts in the place of a record.
RightFirst(s, w, r) ==
  s[r].kind = "LEAF_LEFT"
    \/ DecodeRightFirst(RightLen(s, w, r), Len(Below(s, w, r)) - RightLen(s, w, r))
OwnMerge(s, w, k, r) ==
  [op |-> "merge", rec |-> r, K |-> Len(Below(s, w, r)), early |-> EarlyBits(s, w, k, r),
   rightFirst |-> RightFirst(s, w, r)]
RightPart(s, w, r) == SubtreeCall(RightOf(s, r), RightLen(s, w, r))
LeftPart(s, w, r)  == SubtreeCall(r + 1, Len(Below(s, w, r)) - RightLen(s, w, r))
Parts(s, w, r) ==
  IF s[r].kind = "LEAF_LEFT" THEN <<RightPart(s, w, r)>>
  ELSE IF RightFirst(s, w, r) THEN <<RightPart(s, w, r)>> \o <<LeftPart(s, w, r)>>
  ELSE <<LeftPart(s, w, r)>> \o <<RightPart(s, w, r)>>
Opened(s, w, k, r) == Parts(s, w, r) \o <<OwnMerge(s, w, k, r)>>

\* The calls DecodeInner pushes are calls of the block.
LEMMA PartsFit ==
  ASSUME NEW s, SchedOK(s), NEW w \in Seq(Ranks), NEW k, NEW r \in DOMAIN s,
         Inner(s[r]), Len(Below(s, w, r)) > 0
  PROVE  /\ RightPart(s, w, r) \in SubtreeCalls(s, w)
         /\ s[r].kind = "FULL" => LeftPart(s, w, r) \in SubtreeCalls(s, w)
         /\ OwnMerge(s, w, k, r) \in MergeCalls(s, w, k)
<1>1. s[r].param \in Ranks /\ RightOf(s, r) \in DOMAIN s
  BY RanksOfLeafLeft, RanksOfFull DEF Inner, SchedOK, Preorder
<1>2. RightLen(s, w, r) = Len(Below(s, w, RightOf(s, r)))
  BY PartitionRight DEF RightLen
<1>3. \A q : Len(Below(s, w, q)) \in Nat
  <2> TAKE q
  <2>1. Len(Below(s, w, q)) \in 0 .. Len(w)
    BY BelowType
  <2>2. QED
    BY <2>1
<1>4. RightPart(s, w, r) \in SubtreeCalls(s, w)
  BY <1>1, <1>2, <1>3 DEF RightPart, SubtreeCall, SubtreeCalls
<1>5. ASSUME s[r].kind = "FULL"
      PROVE  LeftPart(s, w, r) \in SubtreeCalls(s, w)
  <2>1. r + 1 \in DOMAIN s
    BY <1>5, RanksOfFull
  <2>2. Len(Below(s, w, r)) - RightLen(s, w, r) = Len(Below(s, w, r + 1))
    BY <1>2, <1>5, FullSizes
  <2>3. QED
    BY <1>3, <2>1, <2>2 DEF LeftPart, SubtreeCall, SubtreeCalls
<1>6. EarlyBits(s, w, k, r) \in Seq(BOOLEAN)
  <2>1. BitsOf(s, w, r) \in Seq(BOOLEAN)
    BY <1>1, BitsType
  <2>2. <<>> \in Seq(BOOLEAN)
    OBVIOUS
  <2>3. QED
    BY <2>1, <2>2, Zenon DEF EarlyBits
<1>7. RightFirst(s, w, r) \in BOOLEAN
  BY DEF RightFirst, DecodeRightFirst
<1>8. OwnMerge(s, w, k, r) \in MergeCalls(s, w, k)
  BY <1>3, <1>6, <1>7 DEF OwnMerge, MergeCalls
<1>9. QED
  BY <1>4, <1>5, <1>8

\* A subtree's call takes its part off the order and adds its symbols.
LEMMA SubtreeLinks ==
  ASSUME NEW s, SchedOK(s), NEW w \in Seq(Ranks), NEW k, NEW c, c.op = "subtree",
         c.rec \in DOMAIN s,
         NEW u \in Seq(Tags(s)), NEW v \in Seq(Seq(Ranks)),
         NEW f, f = OrderOf(s, w, k)
  PROVE  /\ f[c.rec] \in Seq(Tags(s)) /\ f[c.rec] \o u \in Seq(Tags(s))
         /\ <<Below(s, w, c.rec)>> \in Seq(Seq(Ranks))
         /\ <<Below(s, w, c.rec)>> \o v \in Seq(Seq(Ranks))
         /\ Leads(s, w, k, <<c>>, State(f[c.rec] \o u, v),
                  State(u, <<Below(s, w, c.rec)>> \o v))
<1>1. f[c.rec] \in Seq(Tags(s))
  BY OrderUnfolds DEF SchedOK
<1>2. PICK g \in Seq(Tags(s)) : g = f[c.rec] \o u
  BY <1>1, JoinElement
<1>3. <<Below(s, w, c.rec)>> \in Seq(Seq(Ranks))
  BY BelowType, SingleIs
<1>4. PICK z \in Seq(Seq(Ranks)) : z = <<Below(s, w, c.rec)>> \o v
  BY <1>3, JoinElement
<1>5. /\ State(g, v) \in States(s) /\ State(g, v).tags = g /\ State(g, v).vals = v
      /\ State(u, z) \in States(s) /\ State(u, z).tags = u /\ State(u, z).vals = z
  BY StateIs
<1>6. PICK x, y : x = State(g, v) /\ y = State(u, z)
  OBVIOUS
<1>7. SubtreeLink(s, w, k, c, x, y)
  BY <1>2, <1>4, <1>5, <1>6 DEF SubtreeLink
<1>8. Link(s, w, k, c, x, y)
  BY <1>7 DEF Link
<1>9. Leads(s, w, k, <<c>>, x, y)
  BY <1>5, <1>6, <1>8, LeadsOne
<1>10. QED
  BY <1>1, <1>2, <1>3, <1>4, <1>6, <1>9

\* A merge puts the symbols of its node in the place of its children's.
LEMMA MergeLinks ==
  ASSUME NEW s, NEW w \in Seq(Ranks), NEW k, NEW c, c.op = "merge",
         c.rec \in DOMAIN s,
         NEW u \in Seq(Tags(s)), NEW t \in Seq(Tags(s)), NEW v \in Seq(Seq(Ranks)),
         NEW z \in Seq(Seq(Ranks)),
         t = (IF c.early # <<>> THEN <<>> ELSE <<Tag("bitmap", c.rec)>>) \o u,
         z = Operands(s, w, c) \o v
  PROVE  Leads(s, w, k, <<c>>, State(t, z), State(u, <<Below(s, w, c.rec)>> \o v))
<1>1. <<Below(s, w, c.rec)>> \in Seq(Seq(Ranks))
  BY BelowType, SingleIs
<1>2. PICK d \in Seq(Seq(Ranks)) : d = <<Below(s, w, c.rec)>> \o v
  BY <1>1, JoinElement
<1>3. /\ State(t, z) \in States(s) /\ State(t, z).tags = t /\ State(t, z).vals = z
      /\ State(u, d) \in States(s) /\ State(u, d).tags = u /\ State(u, d).vals = d
  <2>1. State(t, z) \in States(s) /\ State(t, z).tags = t /\ State(t, z).vals = z
    BY Zenon DEF State, States
  <2>2. State(u, d) \in States(s) /\ State(u, d).tags = u /\ State(u, d).vals = d
    BY StateIs
  <2>3. QED
    BY <2>1, <2>2
<1>4. PICK x, y : x = State(t, z) /\ y = State(u, d)
  OBVIOUS
<1>5. x.tags = t /\ y.tags = u /\ x.vals = z /\ y.vals = d
  BY <1>3, <1>4
<1>6. \E rest \in Seq(Seq(Ranks)) :
        x.vals = Operands(s, w, c) \o rest /\ y.vals = <<Below(s, w, c.rec)>> \o rest
  BY <1>2, <1>5, Zenon
<1>7. MergeLink(s, w, c, x, y)
  BY <1>5, <1>6 DEF MergeLink
<1>8. Link(s, w, k, c, x, y)
  BY <1>7 DEF Link
<1>9. Leads(s, w, k, <<c>>, x, y)
  BY <1>3, <1>4, <1>8, LeadsOne
<1>10. QED
  BY <1>2, <1>4, <1>9

\* What the parts of a record decode to, and in what order.
LEMMA PartsLead ==
  ASSUME NEW s, SchedOK(s), NEW w \in Seq(Ranks), NEW k, NEW r \in DOMAIN s,
         Inner(s[r]), Len(Below(s, w, r)) > 0,
         NEW u \in Seq(Tags(s)), NEW v \in Seq(Seq(Ranks)),
         NEW c, c = OwnMerge(s, w, k, r)
  PROVE  /\ Body(OrderOf(s, w, k), s, w, r) \o u \in Seq(Tags(s))
         /\ Operands(s, w, c) \o v \in Seq(Seq(Ranks))
         /\ Parts(s, w, r) \in Seq(DecodeCalls(s, w, k))
         /\ Leads(s, w, k, Parts(s, w, r), State(Body(OrderOf(s, w, k), s, w, r) \o u, v),
                  State(u, Operands(s, w, c) \o v))
<1>1. PICK C : C = Tags(s)
  OBVIOUS
<1>2. PICK V : V = Seq(Ranks)
  OBVIOUS
<1>3. \A p, q, t \in Seq(C) : SameJoin(p, q, t)
  BY RegroupAll, Zenon
<1>4. \A p, q, t \in Seq(V) : SameJoin(p, q, t)
  BY RegroupAll, Zenon
<1>5. PICK f : f = OrderOf(s, w, k)
  OBVIOUS
<1>6. PICK D : D = DecodeCalls(s, w, k)
  OBVIOUS
<1>7. PICK R \in D : R = RightPart(s, w, r)
  BY <1>6, PartsFit DEF DecodeCalls
<1>8. R.op = "subtree" /\ R.rec = RightOf(s, r) /\ RightOf(s, r) \in DOMAIN s
  <2>1. R.op = "subtree" /\ R.rec = RightOf(s, r)
    BY <1>7 DEF RightPart, SubtreeCall
  <2>2. R \in SubtreeCalls(s, w)
    BY <1>7, PartsFit
  <2>3. QED
    BY <2>1, <2>2 DEF SubtreeCalls
<1>9. PICK g \in Seq(C) : g = f[R.rec]
  BY <1>1, <1>5, <1>8, OrderUnfolds DEF SchedOK
<1>10. PICK BR \in V : BR = Below(s, w, R.rec)
  BY <1>2, BelowType
<1>11. ASSUME NEW t \in Seq(C), NEW z \in Seq(V)
       PROVE  /\ g \o t \in Seq(C) /\ <<BR>> \o z \in Seq(V)
              /\ Leads(s, w, k, <<R>>, State(g \o t, z), State(t, <<BR>> \o z))
  BY <1>1, <1>2, <1>5, <1>8, <1>9, <1>10, SubtreeLinks
<1>12. <<R>> \in Seq(D) /\ <<BR>> \in Seq(V)
  BY SingleIs
<1>13. c.rec = r /\ c.rightFirst = RightFirst(s, w, r)
  BY DEF OwnMerge
<1>14. PICK B : B = Body(f, s, w, r)
  OBVIOUS
<1>15. CASE s[r].kind = "LEAF_LEFT"
  <2>1. B = g
    BY <1>8, <1>9, <1>14, <1>15 DEF Body
  <2>2. Operands(s, w, c) = <<BR>>
    BY <1>8, <1>10, <1>13, <1>15 DEF Operands
  <2>3. Parts(s, w, r) = <<R>>
    BY <1>7, <1>15 DEF Parts
  <2>4. g \o u \in Seq(C) /\ <<BR>> \o v \in Seq(V)
    BY <1>1, <1>2, <1>11
  <2>5. Leads(s, w, k, <<R>>, State(g \o u, v), State(u, <<BR>> \o v))
    BY <1>1, <1>2, <1>11
  <2>6. QED
    BY <1>1, <1>2, <1>5, <1>6, <1>12, <1>14, <2>1, <2>2, <2>3, <2>4, <2>5
<1>16. CASE s[r].kind = "FULL"
  <2>1. PICK L \in D : L = LeftPart(s, w, r)
    BY <1>6, <1>16, PartsFit DEF DecodeCalls
  <2>2. L.op = "subtree" /\ L.rec = r + 1 /\ r + 1 \in DOMAIN s
    <3>1. L.op = "subtree" /\ L.rec = r + 1
      BY <2>1 DEF LeftPart, SubtreeCall
    <3>2. QED
      BY <1>16, <3>1, RanksOfFull
  <2>3. PICK h \in Seq(C) : h = f[L.rec]
    BY <1>1, <1>5, <2>2, OrderUnfolds DEF SchedOK
  <2>4. PICK BL \in V : BL = Below(s, w, L.rec)
    BY <1>2, BelowType
  <2>5. ASSUME NEW t \in Seq(C), NEW z \in Seq(V)
        PROVE  /\ h \o t \in Seq(C) /\ <<BL>> \o z \in Seq(V)
               /\ Leads(s, w, k, <<L>>, State(h \o t, z), State(t, <<BL>> \o z))
    BY <1>1, <1>2, <1>5, <2>2, <2>3, <2>4, SubtreeLinks
  <2>6. <<L>> \in Seq(D) /\ <<BL>> \in Seq(V)
    BY SingleIs
  <2>7. PICK hu \in Seq(C), gu \in Seq(C), vl \in Seq(V), vr \in Seq(V) :
          hu = h \o u /\ gu = g \o u /\ vl = <<BL>> \o v /\ vr = <<BR>> \o v
    BY <1>1, <1>2, <1>11, <2>5
  <2>8. CASE RightFirst(s, w, r)
    <3>1. EncodeRightFirst(RightLen(s, w, r), Len(Below(s, w, r)) - RightLen(s, w, r))
      BY <1>16, <2>8 DEF RightFirst, DecodeRightFirst, EncodeRightFirst
    <3>2. B = g \o h
      BY <1>8, <1>9, <1>14, <1>16, <2>2, <2>3, <3>1 DEF Body
    <3>3. Operands(s, w, c) = <<BL>> \o <<BR>>
      BY <1>8, <1>10, <1>13, <1>16, <2>2, <2>4, <2>8 DEF Operands
    <3>4. Parts(s, w, r) = <<R>> \o <<L>>
      BY <1>7, <1>16, <2>1, <2>8 DEF Parts
    <3>5. SameJoin(g, h, u) /\ SameJoin(<<BL>>, <<BR>>, v)
      BY <1>1, <1>2, <1>3, <1>4, <1>12, <2>6, Zenon
    <3>6. B \o u = g \o hu /\ Operands(s, w, c) \o v = <<BL>> \o vr
      BY <2>7, <3>2, <3>3, <3>5 DEF SameJoin
    <3>7. Leads(s, w, k, <<R>>, State(g \o hu, v), State(hu, vr))
      BY <1>2, <1>11, <2>7
    <3>8. Leads(s, w, k, <<L>>, State(hu, vr), State(u, <<BL>> \o vr))
      BY <1>1, <2>5, <2>7
    <3>9. Leads(s, w, k, <<R>> \o <<L>>, State(g \o hu, v), State(u, <<BL>> \o vr))
      BY <1>12, <2>6, <3>7, <3>8, LeadsJoin
    <3>10. g \o hu \in Seq(C) /\ <<BL>> \o vr \in Seq(V) /\ <<R>> \o <<L>> \in Seq(D)
      <4>1. g \o hu \in Seq(C)
        BY <1>2, <1>11
      <4>2. <<BL>> \o vr \in Seq(V)
        BY <1>1, <2>5
      <4>3. <<R>> \o <<L>> \in Seq(D)
        BY <1>12, <2>6, JoinElement
      <4>4. QED
        BY <4>1, <4>2, <4>3
    <3>11. QED
      BY <1>1, <1>2, <1>5, <1>6, <1>14, <3>4, <3>6, <3>9, <3>10
  <2>9. CASE ~RightFirst(s, w, r)
    <3>1. ~EncodeRightFirst(RightLen(s, w, r), Len(Below(s, w, r)) - RightLen(s, w, r))
      BY <1>16, <2>9 DEF RightFirst, DecodeRightFirst, EncodeRightFirst
    <3>2. B = h \o g
      BY <1>8, <1>9, <1>14, <1>16, <2>2, <2>3, <3>1 DEF Body
    <3>3. Operands(s, w, c) = <<BR>> \o <<BL>>
      BY <1>8, <1>10, <1>13, <1>16, <2>2, <2>4, <2>9 DEF Operands
    <3>4. Parts(s, w, r) = <<L>> \o <<R>>
      BY <1>7, <1>16, <2>1, <2>9 DEF Parts
    <3>5. SameJoin(h, g, u) /\ SameJoin(<<BR>>, <<BL>>, v)
      BY <1>1, <1>2, <1>3, <1>4, <1>12, <2>6, Zenon
    <3>6. B \o u = h \o gu /\ Operands(s, w, c) \o v = <<BR>> \o vl
      BY <2>7, <3>2, <3>3, <3>5 DEF SameJoin
    <3>7. Leads(s, w, k, <<L>>, State(h \o gu, v), State(gu, vl))
      BY <1>2, <2>5, <2>7
    <3>8. Leads(s, w, k, <<R>>, State(gu, vl), State(u, <<BR>> \o vl))
      BY <1>1, <1>11, <2>7
    <3>9. Leads(s, w, k, <<L>> \o <<R>>, State(h \o gu, v), State(u, <<BR>> \o vl))
      BY <1>12, <2>6, <3>7, <3>8, LeadsJoin
    <3>10. h \o gu \in Seq(C) /\ <<BR>> \o vl \in Seq(V) /\ <<L>> \o <<R>> \in Seq(D)
      <4>1. h \o gu \in Seq(C)
        BY <1>2, <2>5
      <4>2. <<BR>> \o vl \in Seq(V)
        BY <1>1, <1>11
      <4>3. <<L>> \o <<R>> \in Seq(D)
        BY <1>12, <2>6, JoinElement
      <4>4. QED
        BY <4>1, <4>2, <4>3
    <3>11. QED
      BY <1>1, <1>2, <1>5, <1>6, <1>14, <3>4, <3>6, <3>9, <3>10
  <2>10. QED
    BY <2>8, <2>9
<1>17. QED
  BY <1>15, <1>16 DEF Inner

FirstTag(s, w, k, r) == Tag(IF Len(Below(s, w, r)) < k THEN "bitmap" ELSE "K_right", r)

\* The calls of an inner record take its place, less the record read first.
LEMMA OpenedLead ==
  ASSUME NEW s, SchedOK(s), NEW w \in Seq(Ranks), NEW k, NEW r \in DOMAIN s,
         Inner(s[r]), Len(Below(s, w, r)) > 0,
         NEW c, c.op = "subtree", c.rec = r,
         NEW x \in States(s), NEW y \in States(s), SubtreeLink(s, w, k, c, x, y)
  PROVE  /\ Opened(s, w, k, r) \in Seq(DecodeCalls(s, w, k))
         /\ \E u \in Seq(Tags(s)) :
              /\ x.tags = <<FirstTag(s, w, k, r)>> \o u
              /\ Leads(s, w, k, Opened(s, w, k, r), State(u, x.vals), y)
<1>1. PICK C : C = Tags(s)
  OBVIOUS
<1>2. \A p, q, t \in Seq(C) : SameJoin(p, q, t)
  BY RegroupAll, Zenon
<1>3. PICK f : f = OrderOf(s, w, k)
  OBVIOUS
<1>4. PICK g \in Seq(C) : g = y.tags
  BY <1>1, StateParts
<1>5. PICK v \in Seq(Seq(Ranks)) : v = x.vals
  BY StateParts
<1>6. PICK n \in Nat : n = Len(Below(s, w, r)) /\ n > 0
  <2>1. Len(Below(s, w, r)) \in 0 .. Len(w)
    BY BelowType
  <2>2. QED
    BY <2>1
<1>7. s[r].kind # "FLAT" /\ s[r].kind # "BOTH_LEAVES" /\ s[r].param \in Ranks
  BY DEF Inner, SchedOK, Preorder
<1>8. PICK B \in Seq(C) : B = Body(f, s, w, r)
  BY <1>1, <1>3, <1>7, OrderUnfolds DEF SchedOK
<1>9. PICK h \in Seq(C), d \in Seq(C) : h = <<Tag("bitmap", r)>> /\ d = <<Tag("K_right", r)>>
  <2>1. <<Tag("bitmap", r)>> \in Seq(C) /\ <<Tag("K_right", r)>> \in Seq(C)
    BY <1>1, TagIs
  <2>2. QED
    BY <2>1
<1>10. f[r] = Around(s, w, k, r, B)
  <2>1. f[r] = TagsOf(f, s, w, k, r)
    BY <1>3, OrderUnfolds DEF SchedOK
  <2>2. QED
    BY <1>6, <1>7, <1>8, <2>1 DEF TagsOf
<1>11. PICK m \in MergeCalls(s, w, k) : m = OwnMerge(s, w, k, r)
  BY PartsFit
<1>12. m.op = "merge" /\ m.rec = r /\ m.early = EarlyBits(s, w, k, r)
  BY <1>11 DEF OwnMerge
<1>13. /\ x.tags = f[r] \o g /\ y = State(g, <<Below(s, w, r)>> \o v)
       /\ x = State(x.tags, v)
  BY <1>3, <1>4, <1>5, StateParts DEF SubtreeLink
<1>14. PICK p \in Seq(DecodeCalls(s, w, k)) : p = Parts(s, w, r)
  BY <1>4, <1>1, PartsLead
<1>15. <<m>> \in Seq(DecodeCalls(s, w, k)) /\ Opened(s, w, k, r) = p \o <<m>>
  BY <1>11, <1>14, SingleIs DEF Opened, DecodeCalls
<1>16. PICK z \in Seq(Seq(Ranks)) : z = Operands(s, w, m) \o v
  BY <1>1, <1>4, <1>11, PartsLead
<1>17. ASSUME NEW u \in Seq(C)
       PROVE  /\ B \o u \in Seq(C) /\ h \o u \in Seq(C)
              /\ Leads(s, w, k, p, State(B \o u, v), State(u, z))
  BY <1>1, <1>3, <1>8, <1>9, <1>11, <1>14, <1>16, PartsLead, JoinElement
<1>18. p \o <<m>> \in Seq(DecodeCalls(s, w, k))
  BY <1>15, JoinElement
<1>19. CASE n < k
  <2>1. f[r] = h \o B /\ FirstTag(s, w, k, r) = Tag("bitmap", r)
    BY <1>6, <1>7, <1>9, <1>10, <1>19 DEF Around, FirstTag
  <2>2. PICK t \in Seq(C) : t = B \o g
    BY <1>17
  <2>3. x.tags = h \o t
    <3>1. SameJoin(h, B, g)
      BY <1>2, Zenon
    <3>2. QED
      BY <1>13, <2>1, <2>2, <3>1 DEF SameJoin
  <2>4. m.early # <<>>
    <3>1. m.early = BitsOf(s, w, r)
      BY <1>6, <1>12, <1>19 DEF EarlyBits
    <3>2. Len(m.early) > 0
      BY <1>6, <1>7, <3>1, BitsType
    <3>3. Len(<<>>) = 0
      OBVIOUS
    <3>4. QED
      BY <3>2, <3>3
  <2>5. g = (IF m.early # <<>> THEN <<>> ELSE <<Tag("bitmap", m.rec)>>) \o g
    <3>1. <<>> \o g = g
      BY EmptyJoin
    <3>2. QED
      BY <2>4, <3>1
  <2>6. Leads(s, w, k, <<m>>, State(g, z), State(g, <<Below(s, w, m.rec)>> \o v))
    BY <1>1, <1>12, <1>16, <2>5, MergeLinks
  <2>7. Leads(s, w, k, p \o <<m>>, State(t, v), y)
    BY <1>12, <1>13, <1>15, <1>17, <2>2, <2>6, LeadsJoin
  <2>8. QED
    BY <1>1, <1>5, <1>9, <1>15, <1>18, <2>1, <2>3, <2>7
<1>20. CASE ~(n < k)
  <2>1. f[r] = d \o (B \o h) /\ FirstTag(s, w, k, r) = Tag("K_right", r)
    BY <1>6, <1>7, <1>9, <1>10, <1>20 DEF Around, FirstTag
  <2>2. PICK t \in Seq(C) : t = h \o g
    BY <1>17
  <2>3. x.tags = d \o (B \o t) /\ B \o t \in Seq(C)
    <3>1. PICK e \in Seq(C) : e = B \o h
      BY <1>17
    <3>2. SameJoin(d, e, g) /\ SameJoin(B, h, g)
      BY <1>2, Zenon
    <3>3. QED
      BY <1>13, <1>17, <2>1, <2>2, <3>1, <3>2 DEF SameJoin
  <2>4. t = (IF m.early # <<>> THEN <<>> ELSE <<Tag("bitmap", m.rec)>>) \o g
    <3>1. m.early = <<>>
      BY <1>6, <1>12, <1>20 DEF EarlyBits
    <3>2. QED
      BY <1>9, <1>12, <2>2, <3>1
  <2>5. Leads(s, w, k, <<m>>, State(t, z), State(g, <<Below(s, w, m.rec)>> \o v))
    BY <1>1, <1>12, <1>16, <2>4, MergeLinks
  <2>6. Leads(s, w, k, p \o <<m>>, State(B \o t, v), y)
    BY <1>12, <1>13, <1>15, <1>17, <2>5, LeadsJoin
  <2>7. QED
    BY <1>1, <1>5, <1>9, <1>15, <1>18, <2>1, <2>3, <2>6
<1>21. QED
  BY <1>19, <1>20

\* The first element of a sequence.
LEMMA HeadJoin ==
  ASSUME NEW C, NEW a \in C, NEW u \in Seq(C), NEW z, z = <<a>> \o u
  PROVE  z \in Seq(C) /\ z # <<>> /\ Head(z) = a /\ Tail(z) = u /\ Len(z) = Len(u) + 1
<1>1. <<a>> \in Seq(C) /\ Len(<<a>>) = 1 /\ <<a>>[1] = a
  BY SingleIs
<1>2. PICK q \in Seq(C) : q = z /\ Len(q) = 1 + Len(u) /\ q[1] = a
                           /\ \A i \in 1 .. Len(u) : q[1 + i] = u[i]
  <2>1. PICK b \in Seq(C) : b = <<a>> /\ Len(b) = 1 /\ b[1] = a
    BY <1>1
  <2>2. PICK q \in Seq(C) :
          /\ q = b \o u /\ Len(q) = Len(b) + Len(u)
          /\ \A i \in 1 .. Len(b) : q[i] = b[i]
          /\ \A i \in 1 .. Len(u) : q[Len(b) + i] = u[i]
    <3>1. /\ b \o u \in Seq(C) /\ Len(b \o u) = Len(b) + Len(u)
          /\ \A i \in 1 .. Len(b) : (b \o u)[i] = b[i]
          /\ \A i \in 1 .. Len(u) : (b \o u)[Len(b) + i] = u[i]
      BY JoinElement
    <3>2. QED
      BY <3>1, Zenon
  <2>3. q = z
    BY <2>1, <2>2, Zenon
  <2>4. 1 \in 1 .. 1
    OBVIOUS
  <2>5. q[1] = a
    BY <2>1, <2>2, <2>4, Zenon
  <2>6. QED
    BY <2>1, <2>2, <2>3, <2>5, Zenon
<1>3. PICK n \in Nat : n = Len(u)
  OBVIOUS
<1>4. q # <<>>
  <2>1. Len(<<>>) = 0
    OBVIOUS
  <2>2. QED
    BY <1>2, <1>3, <2>1
<1>5. /\ Head(q) = a /\ Tail(q) \in Seq(C) /\ Len(Tail(q)) = Len(q) - 1
      /\ \A i \in 1 .. (Len(q) - 1) : Tail(q)[i] = q[i + 1]
  BY <1>2, <1>4, TailElement
<1>6. PICK t \in Seq(C) : t = Tail(q)
  BY <1>5
<1>7. Len(t) = n /\ \A i \in 1 .. n : t[i] = u[i]
  BY <1>2, <1>3, <1>5, <1>6
<1>8. t = u
  BY <1>3, <1>7
<1>9. QED
  BY <1>2, <1>3, <1>4, <1>5, <1>6, <1>8

-----------------------------------------------------------------------------
(* The stream and its order. *)

\* The records of a block's regions, and the one a tag of the order stands for.
Records(t) ==
  [type : {"bitmap"}, coded : BOOLEAN, bits : Seq(BOOLEAN)] \cup [type : {"K_right"}, k : Nat]
    \cup [type : {"flat"}, coded : BOOLEAN, layout : {Natural, t.layout}, codes : Seq(Int)]
Codes(s, w, r) == [i \in 1 .. Len(Below(s, w, r)) |-> Below(s, w, r)[i] - s[r].param]
Region(t, w, r, coded) ==
  FlatRec(coded, IF coded THEN Natural ELSE t.layout, Codes(t.sched, w, r))
Written(t, w, mk, x, g) ==
  /\ g.tag = "bitmap"  => x = BitmapRec(mk[g.rec], BitsOf(t.sched, w, g.rec))
  /\ g.tag = "K_right" => x = KrRec(RightLen(t.sched, w, g.rec))
  /\ g.tag = "flat"    => \E coded \in BOOLEAN : x = Region(t, w, g.rec, coded)
Holds(t, w, mk, q, g) ==
  Len(q) = Len(g) /\ \A i \in 1 .. Len(g) : Written(t, w, mk, q[i], g[i])

\* An empty stream has an empty order.
LEMMA HoldsEmpty ==
  ASSUME NEW t, NEW w, NEW mk
  PROVE  Holds(t, w, mk, <<>>, <<>>)
  BY DEF Holds

\* The first record of a stream is the one its order begins with.
LEMMA HoldsHead ==
  ASSUME NEW t, NEW w, NEW mk, NEW C, NEW R, NEW q \in Seq(R),
         NEW a \in C, NEW u \in Seq(C), NEW g, g = <<a>> \o u, Holds(t, w, mk, q, g)
  PROVE  /\ q # <<>> /\ Head(q) \in R /\ Tail(q) \in Seq(R)
         /\ Written(t, w, mk, Head(q), a) /\ Holds(t, w, mk, Tail(q), u)
<1>1. PICK z \in Seq(C) : z = g /\ z # <<>> /\ Head(z) = a /\ Tail(z) = u /\ Len(z) = Len(u) + 1
  BY HeadJoin, Zenon
<1>2. PICK n \in Nat : n = Len(u)
  OBVIOUS
<1>3. Len(q) = n + 1 /\ \A i \in 1 .. (n + 1) : Written(t, w, mk, q[i], z[i])
  BY <1>1, <1>2, Zenon DEF Holds
<1>4. q # <<>>
  <2>1. Len(<<>>) = 0
    OBVIOUS
  <2>2. QED
    BY <1>2, <1>3, <2>1
<1>5. /\ Head(q) = q[1] /\ Head(q) \in R /\ Tail(q) \in Seq(R)
      /\ Len(Tail(q)) = Len(q) - 1 /\ \A i \in 1 .. (Len(q) - 1) : Tail(q)[i] = q[i + 1]
  BY <1>4, TailElement
<1>6. /\ Head(z) = z[1] /\ Len(Tail(z)) = Len(z) - 1
      /\ \A i \in 1 .. (Len(z) - 1) : Tail(z)[i] = z[i + 1]
  BY <1>1, TailElement
<1>7. Written(t, w, mk, q[1], z[1])
  BY <1>2, <1>3
<1>8. PICK p : p = Tail(q)
  OBVIOUS
<1>9. Len(p) = n /\ \A i \in 1 .. n : p[i] = q[i + 1]
  <2>1. (n + 1) - 1 = n
    OBVIOUS
  <2>2. QED
    BY <1>3, <1>5, <1>8, <2>1
<1>10. \A i \in 1 .. n : u[i] = z[i + 1]
  <2>1. Len(z) = n + 1 /\ (n + 1) - 1 = n
    BY <1>1, <1>2
  <2>2. QED
    BY <1>1, <1>6, <2>1
<1>11. ASSUME NEW i \in 1 .. n
       PROVE  Written(t, w, mk, p[i], u[i])
  <2>1. i + 1 \in 1 .. (n + 1)
    OBVIOUS
  <2>2. Written(t, w, mk, q[i + 1], z[i + 1])
    BY <1>3, <2>1
  <2>3. QED
    BY <1>9, <1>10, <2>2
<1>12. Holds(t, w, mk, p, u)
  BY <1>2, <1>9, <1>11 DEF Holds
<1>13. QED
  BY <1>1, <1>4, <1>5, <1>6, <1>7, <1>8, <1>12, Zenon

\* A record more, and its tag.
LEMMA HoldsAppend ==
  ASSUME NEW t, NEW w, NEW mk, NEW C, NEW R, NEW q \in Seq(R), NEW x \in R,
         NEW a \in C, NEW g \in Seq(C), Holds(t, w, mk, q, g), Written(t, w, mk, x, a)
  PROVE  /\ Append(q, x) \in Seq(R) /\ Append(g, a) \in Seq(C)
         /\ Holds(t, w, mk, Append(q, x), Append(g, a))
<1>1. PICK n \in Nat : n = Len(g)
  OBVIOUS
<1>2. PICK g2 : g2 = Append(g, a)
  OBVIOUS
<1>3. g2 \in Seq(C) /\ Len(g2) = n + 1 /\ g2[n + 1] = a /\ \A i \in 1 .. n : g2[i] = g[i]
  BY <1>1, <1>2
<1>4. n = Len(q)
  BY <1>1 DEF Holds
<1>5. PICK q2 : q2 = Append(q, x)
  OBVIOUS
<1>6. q2 \in Seq(R) /\ Len(q2) = n + 1 /\ q2[n + 1] = x /\ \A i \in 1 .. n : q2[i] = q[i]
  BY <1>4, <1>5
<1>7. ASSUME NEW i \in 1 .. (n + 1)
      PROVE  Written(t, w, mk, q2[i], g2[i])
  <2>1. CASE i = n + 1
    BY <1>3, <1>6, <2>1
  <2>2. CASE i # n + 1
    <3>1. i \in 1 .. n
      BY <2>2
    <3>2. Written(t, w, mk, q[i], g[i])
      BY <1>1, <3>1 DEF Holds
    <3>3. QED
      BY <1>3, <1>6, <3>1, <3>2
  <2>3. QED
    BY <2>1, <2>2
<1>8. Holds(t, w, mk, q2, g2)
  BY <1>3, <1>6, <1>7 DEF Holds
<1>9. QED
  BY <1>2, <1>3, <1>5, <1>6, <1>8

SameMarkers(g, mk, mk2) ==
  \A i \in 1 .. Len(g) : g[i].tag = "bitmap" => mk2[g[i].rec] = mk[g[i].rec]

\* Only the markers of the bitmaps in a stream matter to it.
LEMMA HoldsStill ==
  ASSUME NEW t, NEW w, NEW mk, NEW mk2, NEW q, NEW g, Holds(t, w, mk, q, g),
         SameMarkers(g, mk, mk2)
  PROVE  Holds(t, w, mk2, q, g)
  BY DEF Holds, Written, SameMarkers

\* A marker is raw exactly when its form is.
LEMMA MarkerIs ==
  ASSUME NEW m \in Markers
  PROVE  /\ m.xor \in BOOLEAN /\ (m.form # "raw" <=> m # Raw)
<1>1. /\ Raw.form = "raw" /\ Raw.xor = FALSE
      /\ Fitted.form = "fitted" /\ Fitted.xor = FALSE
  BY DEF Raw, Fitted
<1>2. /\ Skewed(0, 1).form = "skewed" /\ Skewed(0, 1).xor = (1 > 0)
      /\ Skewed(1, 0).form = "skewed" /\ Skewed(1, 0).xor = (0 > 1)
  BY DEF Skewed
<1>3. (1 > 0) \in BOOLEAN /\ (0 > 1) \in BOOLEAN
  OBVIOUS
<1>4. m \in {Raw, Fitted, Skewed(0, 1), Skewed(1, 0)}
  BY DEF Markers
<1>5. m.xor \in BOOLEAN
  BY <1>1, <1>2, <1>3, <1>4
<1>6. m.form # "raw" <=> m # Raw
  BY <1>1, <1>2, <1>4
<1>7. QED
  BY <1>5, <1>6

\* A bitmap that was inverted for its table is inverted back.
LEMMA FlipTwice ==
  ASSUME NEW n \in Nat, NEW bm \in [1 .. n -> BOOLEAN], NEW x \in BOOLEAN
  PROVE  /\ XorIf(x, XorIf(x, bm)) = bm
         /\ XorIf(x, bm) \in Seq(BOOLEAN) /\ Len(XorIf(x, bm)) = n
<1>1. PICK b : b = Flip(bm)
  OBVIOUS
<1>2. b = [i \in 1 .. n |-> ~bm[i]]
  BY <1>1 DEF Flip
<1>3. Flip(b) = [i \in 1 .. n |-> ~b[i]]
  BY <1>2, Zenon DEF Flip
<1>4. \A i \in 1 .. n : (~b[i]) = bm[i]
  BY <1>2
<1>5. bm = [i \in 1 .. n |-> bm[i]]
  OBVIOUS
<1>6. Flip(b) = bm
  BY <1>3, <1>4, <1>5, Zenon
<1>7. b \in [1 .. n -> BOOLEAN]
  BY <1>2
<1>8. bm \in Seq(BOOLEAN) /\ Len(bm) = n /\ b \in Seq(BOOLEAN) /\ Len(b) = n
  BY <1>7
<1>9. QED
  BY <1>1, <1>6, <1>8, Zenon DEF XorIf

\* What the decoder gets from a node's bitmap.
LEMMA BitmapRead ==
  ASSUME NEW t, NEW s, s = t.sched, SchedOK(s), NEW w \in Seq(Ranks), NEW mk,
         NEW r \in DOMAIN s, mk[r] \in Markers, s[r].kind # "FLAT",
         NEW x, Written(t, w, mk, x, Tag("bitmap", r))
  PROVE  /\ x \in Records(t)
         /\ x.type = "bitmap" /\ Len(x.bits) = Len(Below(s, w, r))
         /\ x.coded = (mk[r] # Raw) /\ XorIf(mk[r].xor, x.bits) = BitsOf(s, w, r)
<1>1. PICK b : b = BitsOf(s, w, r)
  OBVIOUS
<1>2. PICK n \in Nat : n = Len(Below(s, w, r)) /\ b \in [1 .. n -> BOOLEAN]
  <2>1. Len(Below(s, w, r)) \in 0 .. Len(w)
    BY BelowType
  <2>2. PICK n \in Nat : n = Len(Below(s, w, r))
    BY <2>1
  <2>3. \A v, p : (v > p) \in BOOLEAN
    OBVIOUS
  <2>4. b \in [1 .. n -> BOOLEAN]
    BY <1>1, <2>2 DEF BitsOf
  <2>5. QED
    BY <2>2, <2>4
<1>3. PICK m \in Markers : m = mk[r]
  OBVIOUS
<1>4. m.xor \in BOOLEAN /\ (m.form # "raw" <=> m # Raw)
  BY MarkerIs
<1>5. x = BitmapRec(m, b)
  BY <1>1, <1>3 DEF Written, Tag
<1>6. PICK y : y = XorIf(m.xor, b)
  OBVIOUS
<1>7. XorIf(m.xor, y) = b /\ y \in Seq(BOOLEAN) /\ Len(y) = n
  BY <1>2, <1>4, <1>6, FlipTwice, SMTT(30)
<1>8. x = [type |-> "bitmap", coded |-> m.form # "raw", bits |-> y]
  BY <1>5, <1>6 DEF BitmapRec
<1>9. x.type = "bitmap" /\ x.bits = y /\ x.coded = (m.form # "raw") /\ x \in Records(t)
  BY <1>7, <1>8 DEF Records
<1>10. x.coded = (m # Raw)
  BY <1>4, <1>9
<1>11. QED
  BY <1>1, <1>2, <1>3, <1>7, <1>9, <1>10

\* What the decoder gets from a K_right header.
LEMMA HeaderRead ==
  ASSUME NEW t, NEW s, s = t.sched, NEW w \in Seq(Ranks), NEW mk,
         NEW r \in DOMAIN s, NEW x, Written(t, w, mk, x, Tag("K_right", r))
  PROVE  /\ x \in Records(t) /\ x.type = "K_right"
         /\ x.k = RightLen(s, w, r) /\ x.k \in 0 .. Len(Below(s, w, r))
<1>1. x = [type |-> "K_right", k |-> RightLen(s, w, r)]
  BY DEF Written, Tag, KrRec
<1>2. RightLen(s, w, r) \in 0 .. Len(Below(s, w, r))
  <2>1. PICK q \in Seq(Ranks) : q = Below(s, w, r)
    BY BelowType
  <2>2. Len(Keep(q, Above(s[r].param))) \in 0 .. Len(q)
    BY KeepType
  <2>3. QED
    BY <2>1, <2>2 DEF RightLen
<1>3. RightLen(s, w, r) \in Nat
  BY <1>2
<1>4. QED
  BY <1>1, <1>2, <1>3 DEF Records

\* A flat region decodes in the layout its own marker stands for.
Unpacked(n, p, x) == [i \in 1 .. n |-> p + x.codes[i]]

\* What the decoder gets from a flat region.
LEMMA RegionRead ==
  ASSUME NEW t, NEW s, s = t.sched, NEW w \in Seq(Ranks), NEW mk,
         NEW r \in DOMAIN s, s[r].param \in Ranks,
         NEW x, Written(t, w, mk, x, Tag("flat", r))
  PROVE  /\ x \in Records(t) /\ x.type = "flat" /\ Len(x.codes) = Len(Below(s, w, r))
         /\ (IF x.coded THEN Natural ELSE t.layout) = x.layout
         /\ Unpacked(Len(Below(s, w, r)), s[r].param, x) = Below(s, w, r)
<1>1. PICK coded \in BOOLEAN : x = Region(t, w, r, coded)
  BY DEF Written, Tag
<1>2. PICK q \in Seq(Ranks) : q = Below(s, w, r)
  BY BelowType
<1>3. PICK n \in Nat : n = Len(q)
  OBVIOUS
<1>4. PICK p \in Nat : p = s[r].param
  BY RanksAreNat
<1>5. PICK d : d = Codes(s, w, r)
  OBVIOUS
<1>6. d = [i \in 1 .. n |-> q[i] - p]
  BY <1>2, <1>3, <1>4, <1>5 DEF Codes
<1>7. \A i \in 1 .. n : q[i] \in Nat
  <2>1. \A i \in 1 .. n : q[i] \in Ranks
    BY <1>3
  <2>2. QED
    BY <2>1, RanksAreNat
<1>8. d \in [1 .. n -> Int]
  BY <1>6, <1>7
<1>9. d \in Seq(Int) /\ Len(d) = n
  BY <1>8
<1>10. x = [type |-> "flat", coded |-> coded, layout |-> IF coded THEN Natural ELSE t.layout,
            codes |-> d]
  BY <1>1, <1>5 DEF Region, FlatRec
<1>11. /\ x.type = "flat" /\ x.coded = coded /\ x.codes = d
       /\ x.layout = IF coded THEN Natural ELSE t.layout
  BY <1>10
<1>12. x \in Records(t)
  BY <1>9, <1>10 DEF Records
<1>13. [i \in 1 .. n |-> p + d[i]] = q
  <2>1. \A i \in 1 .. n : p + d[i] = q[i]
    BY <1>6, <1>7
  <2>2. q = [i \in 1 .. n |-> q[i]]
    BY <1>3
  <2>3. QED
    BY <2>1, <2>2
<1>14. Unpacked(n, p, x) = q
  BY <1>11, <1>13 DEF Unpacked
<1>15. QED
  BY <1>2, <1>3, <1>4, <1>9, <1>11, <1>12, <1>14, Zenon

-----------------------------------------------------------------------------
(* Steps of the encode walk, as lemmas about constants. *)

\* No bitmap that was emitted is still to come.
Emitted(s, w, g, p) ==
  \A i \in 1 .. Len(g) : g[i].tag = "bitmap" =>
    /\ BitmapCall(g[i].rec, BitsOf(s, w, g[i].rec)) \in EncodeCalls(s, w)
    /\ ApartFrom(s, BitmapCall(g[i].rec, BitsOf(s, w, g[i].rec)), p)

\* The stream q and the pending calls p make up the order of the block.
Encoded(t, w, k, mk, q, p) ==
  \E g, u \in Seq(Tags(t.sched)) :
    /\ g \o u = OrderOf(t.sched, w, k)[0]
    /\ Holds(t, w, mk, q, g)
    /\ Leads(t.sched, w, k, p, State(u, <<>>), State(<<>>, <<>>))
    /\ Emitted(t.sched, w, g, p)

\* A record moves from the pending to the emitted ones.
LEMMA AppendJoin ==
  ASSUME NEW C, NEW g \in Seq(C), NEW a \in C, NEW u \in Seq(C)
  PROVE  Append(g, a) \o u = g \o (<<a>> \o u)
<1>1. Append(g, a) = g \o <<a>>
  OBVIOUS
<1>2. <<a>> \in Seq(C)
  BY SingleIs
<1>3. SameJoin(g, <<a>>, u)
  BY <1>2, RegroupAll, Zenon
<1>4. QED
  BY <1>1, <1>3, Zenon DEF SameJoin

\* A call apart from all of a stack is apart from its parts.
LEMMA ApartTail ==
  ASSUME NEW s, NEW d, NEW C, NEW q \in Seq(C), q # <<>>, ApartFrom(s, d, q)
  PROVE  Apart(s, d, Head(q)) /\ ApartFrom(s, d, Tail(q))
<1>1. /\ Head(q) = q[1] /\ Len(q) \in Nat /\ Len(q) >= 1
      /\ Len(Tail(q)) = Len(q) - 1 /\ \A i \in 1 .. (Len(q) - 1) : Tail(q)[i] = q[i + 1]
  BY TailElement
<1>2. PICK t : t = Tail(q)
  OBVIOUS
<1>3. Apart(s, d, q[1])
  BY <1>1 DEF ApartFrom
<1>4. \A i \in 1 .. Len(t) : t[i] = q[i + 1] /\ i + 1 \in 1 .. Len(q)
  BY <1>1, <1>2
<1>5. ApartFrom(s, d, t)
  BY <1>4 DEF ApartFrom
<1>6. QED
  BY <1>1, <1>2, <1>3, <1>5

\* What the next call of an encode walk does to the records still to come.
LEMMA NextLink ==
  ASSUME NEW s, NEW w, NEW k, NEW C, NEW p \in Seq(C), p # <<>>,
         NEW u \in Seq(Tags(s)), NEW z, Leads(s, w, k, p, State(u, <<>>), z)
  PROVE  \E h \in Seq(Tags(s)) :
           /\ Head(p).op = "node" => /\ NodeLink(s, w, k, Head(p), State(u, <<>>), State(h, <<>>))
                                     /\ u = OrderOf(s, w, k)[Head(p).rec] \o h
           /\ Head(p).op = "bitmap" => u = <<Tag("bitmap", Head(p).rec)>> \o h
           /\ Head(p).op \in {"node", "bitmap"} => Leads(s, w, k, Tail(p), State(h, <<>>), z)
<1>1. PICK x : x = State(u, <<>>)
  OBVIOUS
<1>2. x.tags = u /\ x.vals = <<>>
  BY <1>1 DEF State
<1>3. PICK y \in States(s) : Link(s, w, k, Head(p), x, y) /\ Leads(s, w, k, Tail(p), y, z)
  BY <1>1, LeadsTail
<1>4. PICK h \in Seq(Tags(s)) : h = y.tags
  BY StateParts
<1>5. y = State(h, y.vals)
  BY <1>4, StateParts
<1>6. CASE Head(p).op = "node"
  <2>1. NodeLink(s, w, k, Head(p), x, y)
    BY <1>3, <1>6 DEF Link
  <2>2. y.vals = <<>> /\ u = OrderOf(s, w, k)[Head(p).rec] \o h
    BY <1>2, <1>4, <2>1 DEF NodeLink
  <2>3. y = State(h, <<>>)
    BY <1>5, <2>2
  <2>4. QED
    BY <1>1, <1>3, <1>6, <2>1, <2>2, <2>3, Zenon
<1>7. CASE Head(p).op = "bitmap"
  <2>1. BitmapLink(s, Head(p), x, y)
    BY <1>3, <1>7 DEF Link
  <2>2. y.vals = <<>> /\ u = <<Tag("bitmap", Head(p).rec)>> \o h
    BY <1>2, <1>4, <2>1 DEF BitmapLink
  <2>3. y = State(h, <<>>)
    BY <1>5, <2>2
  <2>4. QED
    BY <1>3, <1>7, <2>2, <2>3, Zenon
<1>8. QED
  BY <1>4, <1>6, <1>7, Zenon

\* No emitted bitmap is pending when the first call is taken.
LEMMA EmittedTail ==
  ASSUME NEW s, NEW w, NEW g, NEW p \in Seq(EncodeCalls(s, w)), p # <<>>, Emitted(s, w, g, p)
  PROVE  Emitted(s, w, g, Tail(p))
  BY ApartTail DEF Emitted

\* The bitmap that is emitted is the call that was taken.
LEMMA EmittedAppend ==
  ASSUME NEW s, NEW w, NEW C, NEW g \in Seq(C), NEW a \in C, NEW p, Emitted(s, w, g, p),
         a.tag = "bitmap" =>
           /\ BitmapCall(a.rec, BitsOf(s, w, a.rec)) \in EncodeCalls(s, w)
           /\ ApartFrom(s, BitmapCall(a.rec, BitsOf(s, w, a.rec)), p)
  PROVE  Emitted(s, w, Append(g, a), p)
<1>1. PICK n \in Nat : n = Len(g)
  OBVIOUS
<1>2. PICK z : z = Append(g, a)
  OBVIOUS
<1>3. Len(z) = n + 1 /\ z[n + 1] = a /\ \A i \in 1 .. n : z[i] = g[i]
  BY <1>1, <1>2
<1>4. ASSUME NEW i \in 1 .. (n + 1), z[i].tag = "bitmap"
      PROVE  /\ BitmapCall(z[i].rec, BitsOf(s, w, z[i].rec)) \in EncodeCalls(s, w)
             /\ ApartFrom(s, BitmapCall(z[i].rec, BitsOf(s, w, z[i].rec)), p)
  <2>1. CASE i = n + 1
    <3>1. z[i] = a
      BY <1>3, <2>1
    <3>2. QED
      BY <1>4, <3>1
  <2>2. CASE i # n + 1
    <3>1. i \in 1 .. n
      BY <2>2
    <3>2. z[i] = g[i]
      BY <1>3, <3>1
    <3>3. QED
      BY <1>1, <1>4, <3>1, <3>2 DEF Emitted
  <2>3. QED
    BY <2>1, <2>2
<1>5. Emitted(s, w, z, p)
  BY <1>3, <1>4 DEF Emitted
<1>6. QED
  BY <1>2, <1>5

\* EncodeEmpty: no symbols, no records.
LEMMA EmptyEncoded ==
  ASSUME NEW t, NEW s, s = t.sched, SchedOK(s), NEW w \in Seq(Ranks), NEW k, NEW mk, NEW q,
         NEW p \in Seq(EncodeCalls(s, w)), p # <<>>, Encoded(t, w, k, mk, q, p),
         NEW c \in NodeCalls(s, w), c = Head(p), c.n = 0
  PROVE  Encoded(t, w, k, mk, q, Tail(p))
<1>1. PICK C : C = Tags(s)
  OBVIOUS
<1>2. PICK g \in Seq(C), u \in Seq(C) :
        /\ g \o u = OrderOf(s, w, k)[0] /\ Holds(t, w, mk, q, g)
        /\ Leads(s, w, k, p, State(u, <<>>), State(<<>>, <<>>)) /\ Emitted(s, w, g, p)
  BY <1>1 DEF Encoded
<1>3. c.op = "node" /\ c.rec \in DOMAIN s /\ c.n = Len(Below(s, w, c.rec))
  BY NodeFacts
<1>4. PICK h \in Seq(C) : /\ u = OrderOf(s, w, k)[c.rec] \o h
                          /\ Leads(s, w, k, Tail(p), State(h, <<>>), State(<<>>, <<>>))
  BY <1>1, <1>2, <1>3, NextLink
<1>5. OrderOf(s, w, k)[c.rec] = <<>>
  <2>1. OrderOf(s, w, k)[c.rec] = TagsOf(OrderOf(s, w, k), s, w, k, c.rec)
    BY <1>3, OrderUnfolds DEF SchedOK
  <2>2. QED
    BY <1>3, <2>1 DEF TagsOf
<1>6. u = h
  BY <1>4, <1>5, EmptyJoin
<1>7. Emitted(s, w, g, Tail(p))
  BY <1>2, EmittedTail
<1>8. QED
  BY <1>1, <1>2, <1>4, <1>6, <1>7 DEF Encoded

\* EncodeFlat: the region is the next record of the order.
LEMMA FlatEncoded ==
  ASSUME NEW t, NEW s, s = t.sched, SchedOK(s), NEW w \in Seq(Ranks), NEW k, NEW mk,
         NEW q \in Seq(Records(t)),
         NEW p \in Seq(EncodeCalls(s, w)), p # <<>>, Encoded(t, w, k, mk, q, p),
         NEW c \in NodeCalls(s, w), c = Head(p), c.n > 0, s[c.rec].kind = "FLAT",
         NEW coded \in BOOLEAN, NEW x, x = Region(t, w, c.rec, coded)
  PROVE  /\ Append(q, x) \in Seq(Records(t))
         /\ Encoded(t, w, k, mk, Append(q, x), Tail(p))
<1>1. PICK C : C = Tags(s)
  OBVIOUS
<1>2. PICK g \in Seq(C), u \in Seq(C) :
        /\ g \o u = OrderOf(s, w, k)[0] /\ Holds(t, w, mk, q, g)
        /\ Leads(s, w, k, p, State(u, <<>>), State(<<>>, <<>>)) /\ Emitted(s, w, g, p)
  BY <1>1 DEF Encoded
<1>3. c.op = "node" /\ c.rec \in DOMAIN s /\ c.n = Len(Below(s, w, c.rec))
  BY NodeFacts
<1>4. PICK h \in Seq(C) : /\ u = OrderOf(s, w, k)[c.rec] \o h
                          /\ Leads(s, w, k, Tail(p), State(h, <<>>), State(<<>>, <<>>))
  BY <1>1, <1>2, <1>3, NextLink
<1>5. PICK a \in C : a = Tag("flat", c.rec)
  BY <1>1, <1>3, TagIs
<1>6. u = <<a>> \o h
  <2>1. OrderOf(s, w, k)[c.rec] = TagsOf(OrderOf(s, w, k), s, w, k, c.rec)
    BY <1>3, OrderUnfolds DEF SchedOK
  <2>2. Len(Below(s, w, c.rec)) # 0
    BY <1>3
  <2>3. OrderOf(s, w, k)[c.rec] = <<a>>
    BY <1>5, <2>1, <2>2 DEF TagsOf
  <2>4. QED
    BY <1>4, <2>3
<1>7. a.tag = "flat" /\ a.rec = c.rec
  BY <1>5 DEF Tag
<1>8. Written(t, w, mk, x, a)
  BY <1>7, Zenon DEF Written
<1>9. x \in Records(t)
  <2>1. s[c.rec].param \in Ranks
    BY <1>3 DEF SchedOK, Preorder
  <2>2. QED
    BY <1>3, <1>5, <1>8, <2>1, RegionRead
<1>10. /\ Append(q, x) \in Seq(Records(t)) /\ Append(g, a) \in Seq(C)
       /\ Holds(t, w, mk, Append(q, x), Append(g, a))
  BY <1>2, <1>8, <1>9, HoldsAppend
<1>11. Append(g, a) \o h = g \o u
  BY <1>6, AppendJoin
<1>12. Emitted(s, w, Append(g, a), Tail(p))
  <2>1. Emitted(s, w, g, Tail(p))
    BY <1>2, EmittedTail
  <2>2. QED
    BY <1>7, <2>1, EmittedAppend
<1>13. QED
  BY <1>1, <1>2, <1>4, <1>10, <1>11, <1>12 DEF Encoded

HeaderRec(s, w, c) == KrRec(RightLen(s, w, c.rec))

\* EncodeNode: the header goes out, the rest of the node's records are pending.
LEMMA NodeEncoded ==
  ASSUME NEW t, NEW s, s = t.sched, SchedOK(s), NEW w \in Seq(Ranks), NEW k, NEW mk,
         NEW q \in Seq(Records(t)),
         NEW p \in Seq(EncodeCalls(s, w)), p # <<>>, AllApart(s, p), Encoded(t, w, k, mk, q, p),
         NEW c \in NodeCalls(s, w), c = Head(p), c.n > 0, s[c.rec].kind # "FLAT",
         NEW z, z = (IF Header(s, k, c) THEN Append(q, HeaderRec(s, w, c)) ELSE q)
  PROVE  /\ z \in Seq(Records(t))
         /\ Encoded(t, w, k, mk, z, Pushed(s, w, k, c) \o Tail(p))
<1>1. PICK C : C = Tags(s)
  OBVIOUS
<1>2. PICK g \in Seq(C), u \in Seq(C) :
        /\ g \o u = OrderOf(s, w, k)[0] /\ Holds(t, w, mk, q, g)
        /\ Leads(s, w, k, p, State(u, <<>>), State(<<>>, <<>>)) /\ Emitted(s, w, g, p)
  BY <1>1 DEF Encoded
<1>3. c.op = "node" /\ c.rec \in DOMAIN s /\ c.n = Len(Below(s, w, c.rec))
  BY NodeFacts
<1>4. PICK h \in Seq(C) : /\ NodeLink(s, w, k, c, State(u, <<>>), State(h, <<>>))
                          /\ Leads(s, w, k, Tail(p), State(h, <<>>), State(<<>>, <<>>))
  BY <1>1, <1>2, <1>3, NextLink
<1>5. PICK P : P = Pushed(s, w, k, c)
  OBVIOUS
<1>6. /\ State(u, <<>>) \in States(s) /\ State(u, <<>>).tags = u /\ State(u, <<>>).vals = <<>>
      /\ State(h, <<>>) \in States(s)
  <2>1. <<>> \in Seq(Seq(Ranks))
    OBVIOUS
  <2>2. QED
    BY <1>1, <2>1, StateIs, ZenonT(40)
<1>7. PICK b \in Seq(C) :
        /\ u = (IF Header(s, k, c) THEN <<Tag("K_right", c.rec)>> ELSE <<>>) \o b
        /\ Leads(s, w, k, P, State(b, <<>>), State(h, <<>>))
  <2>1. PICK x : x = State(u, <<>>)
    OBVIOUS
  <2>2. PICK y : y = State(h, <<>>)
    OBVIOUS
  <2>3. /\ x \in States(s) /\ y \in States(s) /\ x.tags = u /\ x.vals = <<>>
        /\ NodeLink(s, w, k, c, x, y)
    BY <1>4, <1>6, <2>1, <2>2
  <2>4. \E b \in Seq(Tags(s)) :
          /\ x.tags = (IF Header(s, k, c) THEN <<Tag("K_right", c.rec)>> ELSE <<>>) \o b
          /\ Leads(s, w, k, Pushed(s, w, k, c), State(b, x.vals), y)
    BY <2>3, PushedLead
  <2>5. QED
    BY <1>1, <1>5, <2>2, <2>3, <2>4
<1>8. /\ P \in Seq(EncodeCalls(s, w)) /\ Tail(p) \in Seq(EncodeCalls(s, w))
      /\ \A d \in EncodeCalls(s, w) :
           d.op = "bitmap" /\ ApartFrom(s, d, p) => ApartFrom(s, d, P \o Tail(p))
  <2>1. Replaces(s, w, c, P)
    BY <1>5, NodeReplaced
  <2>2. P \in Seq(EncodeCalls(s, w))
    BY <2>1 DEF Replaces
  <2>3. Tail(p) \in Seq(EncodeCalls(s, w))
    BY TailElement
  <2>4. QED
    BY <2>1, <2>2, <2>3, PushApart
<1>9. Leads(s, w, k, P \o Tail(p), State(b, <<>>), State(<<>>, <<>>))
  BY <1>4, <1>7, <1>8, LeadsJoin
<1>10. Emitted(s, w, g, P \o Tail(p))
  <2>1. \A r, x : BitmapCall(r, x).op = "bitmap"
    BY DEF BitmapCall
  <2>2. QED
    BY <1>2, <1>8, <2>1, Zenon DEF Emitted
<1>11. CASE Header(s, k, c)
  <2>1. PICK a \in C : a = Tag("K_right", c.rec)
    BY <1>1, <1>3, TagIs
  <2>2. PICK x : x = HeaderRec(s, w, c)
    OBVIOUS
  <2>3. a.tag = "K_right" /\ a.rec = c.rec
    BY <2>1 DEF Tag
  <2>4. Written(t, w, mk, x, a)
    BY <2>2, <2>3 DEF Written, HeaderRec
  <2>5. x \in Records(t)
    BY <1>3, <2>1, <2>4, HeaderRead
  <2>6. /\ Append(q, x) \in Seq(Records(t)) /\ Append(g, a) \in Seq(C)
        /\ Holds(t, w, mk, Append(q, x), Append(g, a))
    BY <1>2, <2>4, <2>5, HoldsAppend
  <2>7. u = <<a>> \o b
    BY <1>7, <1>11, <2>1
  <2>8. Append(g, a) \o b = g \o u
    BY <2>7, AppendJoin, SMTT(30)
  <2>9. Emitted(s, w, Append(g, a), P \o Tail(p))
    BY <1>10, <2>3, EmittedAppend
  <2>10. z = Append(q, x)
    BY <1>11, <2>2
  <2>11. QED
    BY <1>1, <1>2, <1>5, <1>9, <2>6, <2>8, <2>9, <2>10 DEF Encoded
<1>12. CASE ~Header(s, k, c)
  <2>1. u = b /\ z = q
    BY <1>7, <1>12, EmptyJoin
  <2>2. QED
    BY <1>1, <1>2, <1>5, <1>9, <1>10, <2>1 DEF Encoded
<1>13. QED
  BY <1>11, <1>12

Marked(s, mk) ==
  mk \in [DOMAIN s -> Markers] /\ \A r \in DOMAIN s : s[r].kind = "FLAT" => mk[r] = Raw
Remarked(mk, r, m) == [mk EXCEPT ![r] = m]

\* EmitBitmap: the bitmap is the next record, and no other one reads its marker.
LEMMA BitmapEncoded ==
  ASSUME NEW t, NEW s, s = t.sched, SchedOK(s), NEW w \in Seq(Ranks), NEW k,
         NEW mk, Marked(s, mk), NEW m \in Markers,
         NEW q \in Seq(Records(t)),
         NEW p \in Seq(EncodeCalls(s, w)), p # <<>>, AllApart(s, p), Encoded(t, w, k, mk, q, p),
         NEW c \in BitmapCalls(s, w), c = Head(p),
         NEW mk2, mk2 = Remarked(mk, c.rec, m), NEW x, x = BitmapRec(m, c.bm)
  PROVE  /\ Marked(s, mk2)
         /\ Append(q, x) \in Seq(Records(t))
         /\ Encoded(t, w, k, mk2, Append(q, x), Tail(p))
<1>1. PICK C : C = Tags(s)
  OBVIOUS
<1>2. PICK g \in Seq(C), u \in Seq(C) :
        /\ g \o u = OrderOf(s, w, k)[0] /\ Holds(t, w, mk, q, g)
        /\ Leads(s, w, k, p, State(u, <<>>), State(<<>>, <<>>)) /\ Emitted(s, w, g, p)
  BY <1>1 DEF Encoded
<1>3. /\ c.op = "bitmap" /\ c.rec \in DOMAIN s /\ s[c.rec].kind # "FLAT"
      /\ c.bm = BitsOf(s, w, c.rec) /\ c = BitmapCall(c.rec, BitsOf(s, w, c.rec))
  <2>1. PICK r \in DOMAIN s : s[r].kind # "FLAT" /\ c = BitmapCall(r, BitsOf(s, w, r))
    BY DEF BitmapCalls
  <2>2. c.rec = r /\ c.op = "bitmap" /\ c.bm = BitsOf(s, w, r)
    BY <2>1 DEF BitmapCall
  <2>3. QED
    BY <2>1, <2>2
<1>4. PICK h \in Seq(C) : /\ u = <<Tag("bitmap", c.rec)>> \o h
                          /\ Leads(s, w, k, Tail(p), State(h, <<>>), State(<<>>, <<>>))
  BY <1>1, <1>2, <1>3, NextLink
<1>5. mk2 \in [DOMAIN s -> Markers] /\ mk2[c.rec] = m /\ \A r \in DOMAIN s : r # c.rec => mk2[r] = mk[r]
  BY <1>3 DEF Remarked, Marked
<1>6. Holds(t, w, mk2, q, g)
  <2>1. ASSUME NEW i \in 1 .. Len(g), g[i].tag = "bitmap"
        PROVE  mk2[g[i].rec] = mk[g[i].rec]
    <3>1. g[i] \in C
      OBVIOUS
    <3>2. g[i].rec \in DOMAIN s
      BY <1>1, <3>1 DEF Tags
    <3>3. PICK d : d = BitmapCall(g[i].rec, BitsOf(s, w, g[i].rec))
      OBVIOUS
    <3>4. d.op = "bitmap" /\ d.rec = g[i].rec
      BY <3>3 DEF BitmapCall
    <3>5. ApartFrom(s, d, p)
      BY <1>2, <2>1, <3>3 DEF Emitted
    <3>6. Apart(s, d, c)
      BY <3>5, ApartTail
    <3>7. d.rec # c.rec
      BY <1>3, <3>4, <3>6 DEF Apart
    <3>8. QED
      BY <1>5, <3>2, <3>4, <3>7
  <2>2. SameMarkers(g, mk, mk2)
    BY <2>1 DEF SameMarkers
  <2>3. QED
    BY <1>2, <2>2, HoldsStill, Zenon
<1>7. PICK a \in C : a = Tag("bitmap", c.rec)
  BY <1>1, <1>3, TagIs
<1>8. a.tag = "bitmap" /\ a.rec = c.rec
  BY <1>7 DEF Tag
<1>9. Written(t, w, mk2, x, a)
  BY <1>3, <1>5, <1>8 DEF Written
<1>10. x \in Records(t)
  BY <1>3, <1>5, <1>7, <1>9, BitmapRead
<1>11. /\ Append(q, x) \in Seq(Records(t)) /\ Append(g, a) \in Seq(C)
       /\ Holds(t, w, mk2, Append(q, x), Append(g, a))
  BY <1>6, <1>9, <1>10, HoldsAppend
<1>12. Append(g, a) \o h = g \o u
  BY <1>4, <1>7, AppendJoin
<1>13. Emitted(s, w, Append(g, a), Tail(p))
  <2>1. Emitted(s, w, g, Tail(p))
    BY <1>2, EmittedTail
  <2>2. c \in EncodeCalls(s, w) /\ ApartFrom(s, c, Tail(p))
    BY PopApart DEF EncodeCalls
  <2>3. BitmapCall(a.rec, BitsOf(s, w, a.rec)) = c
    BY <1>3, <1>8
  <2>4. QED
    BY <2>1, <2>2, <2>3, EmittedAppend
<1>14. Marked(s, mk2)
  BY <1>3, <1>5 DEF Marked
<1>15. QED
  BY <1>1, <1>2, <1>14, <1>4, <1>5, <1>11, <1>12, <1>13 DEF Encoded

-----------------------------------------------------------------------------
(* Steps of the decode walk, as lemmas about constants. *)

\* The decoder's part of the block still to come: the records of q and the calls of p
\* turn the buffers v into the block.
Decoded(t, w, k, mk, q, p, v) ==
  \E u \in Seq(Tags(t.sched)) :
    /\ Holds(t, w, mk, q, u)
    /\ v \in Seq(Seq(Ranks))
    /\ Leads(t.sched, w, k, p, State(u, v), State(<<>>, <<w>>))

\* The next subtree's records and symbols.
LEMMA NextSubtree ==
  ASSUME NEW s, NEW w \in Seq(Ranks), NEW k, NEW C, NEW p \in Seq(C), p # <<>>,
         NEW c, c = Head(p), c.op = "subtree",
         NEW u \in Seq(Tags(s)), NEW v \in Seq(Seq(Ranks)), NEW z,
         Leads(s, w, k, p, State(u, v), z),
         NEW v2, v2 = <<Below(s, w, c.rec)>> \o v
  PROVE  \E h \in Seq(Tags(s)) :
           /\ u = OrderOf(s, w, k)[c.rec] \o h
           /\ v2 \in Seq(Seq(Ranks))
           /\ SubtreeLink(s, w, k, c, State(u, v), State(h, v2))
           /\ Leads(s, w, k, Tail(p), State(h, v2), z)
<1>1. PICK x : x = State(u, v)
  OBVIOUS
<1>2. x \in States(s) /\ x.tags = u /\ x.vals = v
  BY <1>1, StateIs
<1>3. PICK y \in States(s) : Link(s, w, k, c, x, y) /\ Leads(s, w, k, Tail(p), y, z)
  <2>1. Leads(s, w, k, p, x, z)
    BY <1>1
  <2>2. \E y \in States(s) : Link(s, w, k, Head(p), x, y) /\ Leads(s, w, k, Tail(p), y, z)
    BY <2>1, LeadsTail
  <2>3. QED
    BY <2>2
<1>4. SubtreeLink(s, w, k, c, x, y)
  BY <1>3 DEF Link
<1>5. y.vals = v2 /\ u = OrderOf(s, w, k)[c.rec] \o y.tags
  BY <1>2, <1>4 DEF SubtreeLink
<1>6. /\ y.tags \in Seq(Tags(s)) /\ y.vals \in Seq(Seq(Ranks))
      /\ y = State(y.tags, y.vals)
  BY StateParts
<1>7. QED
  BY <1>1, <1>3, <1>4, <1>5, <1>6, Zenon

\* DecodeEmpty: a subtree without symbols has no record.
LEMMA DecodedEmpty ==
  ASSUME NEW t, NEW s, s = t.sched, SchedOK(s), NEW w \in Seq(Ranks), NEW k, NEW mk, NEW q,
         NEW C, NEW p \in Seq(C), p # <<>>, NEW v, Decoded(t, w, k, mk, q, p, v),
         NEW c \in SubtreeCalls(s, w), c = Head(p), c.K = 0
  PROVE  Decoded(t, w, k, mk, q, Tail(p), <<(<<>>)>> \o v)
<1>1. c.op = "subtree" /\ c.rec \in DOMAIN s /\ Len(Below(s, w, c.rec)) = 0
  BY DEF SubtreeCalls
<1>2. Below(s, w, c.rec) = <<>>
  BY <1>1, BelowType
<1>3. PICK u \in Seq(Tags(s)) :
        /\ Holds(t, w, mk, q, u) /\ v \in Seq(Seq(Ranks))
        /\ Leads(s, w, k, p, State(u, v), State(<<>>, <<w>>))
  BY DEF Decoded
<1>4. PICK v2 : v2 = <<Below(s, w, c.rec)>> \o v
  OBVIOUS
<1>5. PICK h \in Seq(Tags(s)) :
           /\ u = OrderOf(s, w, k)[c.rec] \o h
           /\ v2 \in Seq(Seq(Ranks))
           /\ SubtreeLink(s, w, k, c, State(u, v), State(h, v2))
           /\ Leads(s, w, k, Tail(p), State(h, v2), State(<<>>, <<w>>))
  BY <1>1, <1>3, <1>4, NextSubtree, Zenon
<1>6. OrderOf(s, w, k)[c.rec] = <<>>
  <2>1. OrderOf(s, w, k)[c.rec] = TagsOf(OrderOf(s, w, k), s, w, k, c.rec)
    BY <1>1, OrderUnfolds DEF SchedOK
  <2>2. QED
    BY <1>1, <2>1 DEF TagsOf
<1>7. u = h
  BY <1>5, <1>6, EmptyJoin
<1>8. v2 = <<(<<>>)>> \o v
  BY <1>2, <1>4
<1>9. QED
  BY <1>3, <1>5, <1>7, <1>8 DEF Decoded

LeafTag(s, r) == IF s[r].kind = "FLAT" THEN "flat" ELSE "bitmap"

\* DecodeFlat and DecodeBothLeaves: the record of a subtree without calls of its own.
LEMMA DecodedLeaf ==
  ASSUME NEW t, NEW s, s = t.sched, SchedOK(s), NEW w \in Seq(Ranks), NEW k, NEW mk,
         NEW R, NEW q \in Seq(R),
         NEW p \in Seq(DecodeCalls(s, w, k)), p # <<>>, NEW v, Decoded(t, w, k, mk, q, p, v),
         NEW c \in SubtreeCalls(s, w), c = Head(p), c.K > 0, ~Inner(s[c.rec]),
         NEW g, g = LeafTag(s, c.rec)
  PROVE  /\ q # <<>>
         /\ Written(t, w, mk, Head(q), Tag(g, c.rec))
         /\ Decoded(t, w, k, mk, Tail(q), Tail(p), <<Below(s, w, c.rec)>> \o v)
<1>1. c.op = "subtree" /\ c.rec \in DOMAIN s /\ Len(Below(s, w, c.rec)) # 0
  BY DEF SubtreeCalls
<1>2. s[c.rec].kind \in {"FLAT", "BOTH_LEAVES"}
  BY <1>1 DEF SchedOK, Preorder, Inner
<1>3. PICK u \in Seq(Tags(s)) :
        /\ Holds(t, w, mk, q, u) /\ v \in Seq(Seq(Ranks))
        /\ Leads(s, w, k, p, State(u, v), State(<<>>, <<w>>))
  BY DEF Decoded
<1>4. PICK v2 : v2 = <<Below(s, w, c.rec)>> \o v
  OBVIOUS
<1>5. PICK h \in Seq(Tags(s)) :
           /\ u = OrderOf(s, w, k)[c.rec] \o h
           /\ v2 \in Seq(Seq(Ranks))
           /\ SubtreeLink(s, w, k, c, State(u, v), State(h, v2))
           /\ Leads(s, w, k, Tail(p), State(h, v2), State(<<>>, <<w>>))
  BY <1>1, <1>3, <1>4, NextSubtree, Zenon
<1>6. OrderOf(s, w, k)[c.rec] = <<Tag(g, c.rec)>>
  <2>1. OrderOf(s, w, k)[c.rec] = TagsOf(OrderOf(s, w, k), s, w, k, c.rec)
    BY <1>1, OrderUnfolds DEF SchedOK
  <2>2. QED
    BY <1>1, <1>2, <2>1 DEF TagsOf, Around, LeafTag
<1>7. PICK a \in Tags(s) : a = Tag(g, c.rec)
  <2>1. g \in {"bitmap", "K_right", "flat"}
    BY DEF LeafTag
  <2>2. QED
    BY <1>1, <2>1, TagIs
<1>8. /\ q # <<>> /\ Head(q) \in R /\ Tail(q) \in Seq(R)
      /\ Written(t, w, mk, Head(q), a) /\ Holds(t, w, mk, Tail(q), h)
  <2>1. u = <<a>> \o h
    BY <1>5, <1>6, <1>7
  <2>2. QED
    BY <1>3, <2>1, HoldsHead
<1>9. QED
  BY <1>4, <1>5, <1>7, <1>8 DEF Decoded

\* DecodeInner: the first record of an inner node, and its calls.
LEMMA DecodedInner ==
  ASSUME NEW t, NEW s, s = t.sched, SchedOK(s), NEW w \in Seq(Ranks), NEW k, NEW mk,
         NEW R, NEW q \in Seq(R),
         NEW p \in Seq(DecodeCalls(s, w, k)), p # <<>>,
         NEW v, Decoded(t, w, k, mk, q, p, v),
         NEW c \in SubtreeCalls(s, w), c = Head(p), c.K > 0, Inner(s[c.rec])
  PROVE  /\ q # <<>> /\ Head(q) \in R /\ Tail(q) \in Seq(R)
         /\ Written(t, w, mk, Head(q), FirstTag(s, w, k, c.rec))
         /\ Opened(s, w, k, c.rec) \o Tail(p) \in Seq(DecodeCalls(s, w, k))
         /\ Decoded(t, w, k, mk, Tail(q), Opened(s, w, k, c.rec) \o Tail(p), v)
<1>1. c.op = "subtree" /\ c.rec \in DOMAIN s /\ Len(Below(s, w, c.rec)) > 0
  BY DEF SubtreeCalls
<1>2. PICK D : D = DecodeCalls(s, w, k)
  OBVIOUS
<1>3. PICK u \in Seq(Tags(s)) :
        /\ Holds(t, w, mk, q, u) /\ v \in Seq(Seq(Ranks))
        /\ Leads(s, w, k, p, State(u, v), State(<<>>, <<w>>))
  BY DEF Decoded
<1>4. PICK v2 : v2 = <<Below(s, w, c.rec)>> \o v
  OBVIOUS
<1>5. PICK h \in Seq(Tags(s)) :
           /\ v2 \in Seq(Seq(Ranks))
           /\ SubtreeLink(s, w, k, c, State(u, v), State(h, v2))
           /\ Leads(s, w, k, Tail(p), State(h, v2), State(<<>>, <<w>>))
  BY <1>1, <1>3, <1>4, NextSubtree
<1>6. PICK x \in States(s), y \in States(s) :
        x = State(u, v) /\ y = State(h, v2) /\ x.tags = u /\ x.vals = v
  BY <1>3, <1>5, StateIs
<1>7. /\ Opened(s, w, k, c.rec) \in Seq(DecodeCalls(s, w, k))
      /\ \E b \in Seq(Tags(s)) :
              /\ x.tags = <<FirstTag(s, w, k, c.rec)>> \o b
              /\ Leads(s, w, k, Opened(s, w, k, c.rec), State(b, x.vals), y)
  <2>1. SubtreeLink(s, w, k, c, x, y)
    BY <1>5, <1>6
  <2>2. QED
    BY <1>1, <2>1, OpenedLead
<1>8. PICK P \in Seq(D) : P = Opened(s, w, k, c.rec)
  BY <1>2, <1>7
<1>9. PICK b \in Seq(Tags(s)) :
              /\ u = <<FirstTag(s, w, k, c.rec)>> \o b
              /\ Leads(s, w, k, P, State(b, v), y)
  BY <1>6, <1>7, <1>8
<1>10. Tail(p) \in Seq(D)
  BY <1>2, TailElement
<1>11. Leads(s, w, k, P \o Tail(p), State(b, v), State(<<>>, <<w>>))
  <2>1. Leads(s, w, k, Tail(p), y, State(<<>>, <<w>>))
    BY <1>5, <1>6
  <2>2. QED
    BY <1>9, <1>10, <2>1, LeadsJoin
<1>12. PICK a \in Tags(s) : a = FirstTag(s, w, k, c.rec)
  <2>1. FirstTag(s, w, k, c.rec) \in Tags(s)
    BY <1>1, TagIs DEF FirstTag
  <2>2. QED
    BY <2>1
<1>13. /\ q # <<>> /\ Head(q) \in R /\ Tail(q) \in Seq(R)
       /\ Written(t, w, mk, Head(q), a) /\ Holds(t, w, mk, Tail(q), b)
  <2>1. u = <<a>> \o b
    BY <1>9, <1>12
  <2>2. QED
    BY <1>3, <2>1, HoldsHead
<1>14. P \o Tail(p) \in Seq(D)
  BY <1>8, <1>10, JoinElement
<1>15. QED
  BY <1>2, <1>3, <1>8, <1>11, <1>12, <1>13, <1>14 DEF Decoded

MergeTakes(t, s, w, k, mk, q, p, v, c, rest) ==
  /\ v = Operands(s, w, c) \o rest
  /\ c.early # <<>> => Decoded(t, w, k, mk, q, Tail(p), <<Below(s, w, c.rec)>> \o rest)
  /\ c.early = <<>> =>
       /\ q # <<>> /\ Written(t, w, mk, Head(q), Tag("bitmap", c.rec))
       /\ Decoded(t, w, k, mk, Tail(q), Tail(p), <<Below(s, w, c.rec)>> \o rest)

\* MergeChildren: its operands are on top of the decoded buffers.
LEMMA DecodedMerge ==
  ASSUME NEW t, NEW s, s = t.sched, SchedOK(s), NEW w \in Seq(Ranks), NEW k, NEW mk,
         NEW R, NEW q \in Seq(R),
         NEW p \in Seq(DecodeCalls(s, w, k)), p # <<>>,
         NEW v, Decoded(t, w, k, mk, q, p, v),
         NEW c \in MergeCalls(s, w, k), c = Head(p)
  PROVE  \E rest \in Seq(Seq(Ranks)) : MergeTakes(t, s, w, k, mk, q, p, v, c, rest)
<1>1. c.op = "merge" /\ c.rec \in DOMAIN s
  BY DEF MergeCalls
<1>2. PICK u \in Seq(Tags(s)) :
        /\ Holds(t, w, mk, q, u) /\ v \in Seq(Seq(Ranks))
        /\ Leads(s, w, k, p, State(u, v), State(<<>>, <<w>>))
  BY DEF Decoded
<1>3. PICK x \in States(s) : x = State(u, v) /\ x.tags = u /\ x.vals = v
  BY <1>2, StateIs
<1>4. PICK y \in States(s) :
        Link(s, w, k, c, x, y) /\ Leads(s, w, k, Tail(p), y, State(<<>>, <<w>>))
  <2>1. Leads(s, w, k, p, x, State(<<>>, <<w>>))
    BY <1>2, <1>3
  <2>2. \E y \in States(s) :
          Link(s, w, k, Head(p), x, y) /\ Leads(s, w, k, Tail(p), y, State(<<>>, <<w>>))
    BY <2>1, LeadsTail
  <2>3. QED
    BY <2>2
<1>5. MergeLink(s, w, c, x, y)
  BY <1>1, <1>4 DEF Link
<1>6. PICK h \in Seq(Tags(s)), z \in Seq(Seq(Ranks)) :
        h = y.tags /\ z = y.vals /\ y = State(h, z)
  BY StateParts
<1>7. PICK rest \in Seq(Seq(Ranks)) :
        v = Operands(s, w, c) \o rest /\ z = <<Below(s, w, c.rec)>> \o rest
  BY <1>3, <1>5, <1>6 DEF MergeLink
<1>8. u = (IF c.early # <<>> THEN <<>> ELSE <<Tag("bitmap", c.rec)>>) \o h
  BY <1>3, <1>5, <1>6 DEF MergeLink
<1>9. Leads(s, w, k, Tail(p), State(h, z), State(<<>>, <<w>>))
  BY <1>4, <1>6
<1>10. ASSUME c.early # <<>>
       PROVE  Decoded(t, w, k, mk, q, Tail(p), z)
  <2>1. u = h
    BY <1>8, <1>10, EmptyJoin
  <2>2. QED
    BY <1>2, <1>9, <2>1 DEF Decoded
<1>11. ASSUME c.early = <<>>
       PROVE  /\ q # <<>> /\ Head(q) \in R /\ Tail(q) \in Seq(R)
              /\ Written(t, w, mk, Head(q), Tag("bitmap", c.rec))
              /\ Decoded(t, w, k, mk, Tail(q), Tail(p), z)
  <2>1. PICK a \in Tags(s) : a = Tag("bitmap", c.rec)
    BY <1>1, TagIs
  <2>2. u = <<a>> \o h
    BY <1>8, <1>11, <2>1
  <2>3. /\ q # <<>> /\ Head(q) \in R /\ Tail(q) \in Seq(R)
        /\ Written(t, w, mk, Head(q), a) /\ Holds(t, w, mk, Tail(q), h)
    BY <1>2, <2>2, HoldsHead
  <2>4. QED
    BY <1>9, <2>1, <2>3 DEF Decoded
<1>12. QED
  BY <1>7, <1>10, <1>11, Zenon DEF MergeTakes

\* At the end the whole stream was read and the block is there.
LEMMA DecodedEnds ==
  ASSUME NEW t, NEW w, NEW k, NEW mk, NEW R, NEW q \in Seq(R), NEW v,
         Decoded(t, w, k, mk, q, <<>>, v)
  PROVE  q = <<>> /\ v = <<w>>
<1>1. PICK u \in Seq(Tags(t.sched)) :
        /\ Holds(t, w, mk, q, u) /\ v \in Seq(Seq(Ranks))
        /\ Leads(t.sched, w, k, <<>>, State(u, v), State(<<>>, <<w>>))
  BY DEF Decoded
<1>2. State(u, v) = State(<<>>, <<w>>)
  <2>1. State(u, v) \in States(t.sched)
    BY <1>1, StateIs
  <2>2. QED
    BY <1>1, <2>1, LeadsEmpty
<1>3. u = <<>> /\ v = <<w>>
  BY <1>2 DEF State
<1>4. Len(q) = 0
  BY <1>1, <1>3 DEF Holds
<1>5. QED
  BY <1>3, <1>4

-----------------------------------------------------------------------------
(* The inductive invariant. *)

InUse(t, w) == \E s \in Scheds : t \in TablesOf(s) /\ w \in Words(s)
Scratch(s, w, m, p) == p \in Seq(EncodeCalls(s, w)) /\ AllApart(s, p) /\ AllReady(m, s, w, p)
NodesOf(s) == {r \in DOMAIN s : s[r].kind # "FLAT"}
CodedOf(s, mk) == {r \in NodesOf(s) : mk[r] # Raw}
ValuesOf(S, mk) == [j \in 1 .. Cardinality(S) |-> mk[CHOOSE r \in S : Index(r, S) = j]]
PrefixRec(t, mk) ==
  [type |-> "prefix", code |-> t.krtCode, present |-> CodedOf(t.sched, mk),
   values |-> ValuesOf(CodedOf(t.sched, mk), mk)]
PrefixOf(t, mk) == IF NodesOf(t.sched) = {} THEN <<>> ELSE <<PrefixRec(t, mk)>>

EncodingOf(t, w, m, mk, k, st, p, v) ==
  /\ v = <<>> /\ k = KrT(t.krtCode)
  /\ Marked(t.sched, mk) /\ st \in Seq(Records(t))
  /\ Scratch(t.sched, w, m, p)
  /\ Encoded(t, w, k, mk, st, p)

\* What the assumptions say of a block and its table.
LEMMA InUseFacts ==
  ASSUME NEW t, NEW w, InUse(t, w), NEW s, s = t.sched
  PROVE  /\ s \in Scheds /\ SchedOK(s) /\ 0 \in DOMAIN s /\ t.krtCode \in KrtCodes
         /\ w \in Words(s) /\ w \in Seq(Ranks) /\ Len(w) \in 1 .. MaxN /\ Below(s, w, 0) = w
<1>1. PICK s2 \in Scheds : t \in TablesOf(s2) /\ w \in Words(s2)
  BY DEF InUse
<1>2. s = s2 /\ t.krtCode \in KrtCodes
  BY <1>1 DEF TablesOf
<1>3. SchedOK(s) /\ w \in Seq(RanksOf(s)[0]) /\ Len(w) \in 1 .. MaxN
  BY <1>1, <1>2, SchedsAssumption, WordsAssumption
<1>4. 0 \in DOMAIN s
  BY <1>3, RanksAreNat DEF SchedOK, Preorder
<1>5. RanksOf(s)[0] \subseteq Ranks
  BY <1>3, <1>4 DEF SchedOK, Ordered
<1>6. w \in Seq(Ranks)
  BY <1>3, <1>5
<1>7. Below(s, w, 0) = w
  BY <1>3, KeepAll DEF Below
<1>8. QED
  BY <1>1, <1>2, <1>3, <1>4, <1>6, <1>7

\* The root's call stands for the whole block.
LEMMA StartEncoding ==
  ASSUME NEW t, NEW w, InUse(t, w), NEW s, s = t.sched, NEW m, NEW k, k = KrT(t.krtCode),
         NEW mk, mk = [r \in DOMAIN s |-> Raw], NEW p, p = <<NodeCall(0, 0, Len(w), Len(w))>>
  PROVE  EncodingOf(t, w, Put(w, 0, m), mk, k, <<>>, p, <<>>)
<1>1. /\ SchedOK(s) /\ 0 \in DOMAIN s /\ w \in Seq(Ranks) /\ Len(w) \in 1 .. MaxN
      /\ Below(s, w, 0) = w
  BY InUseFacts
<1>2. PICK c : c = NodeCall(0, 0, Len(w), Len(w))
  OBVIOUS
<1>3. c.op = "node" /\ c.rec = 0 /\ c.at = 0 /\ c.n = Len(w) /\ c.tmp = Len(w)
  BY <1>2 DEF NodeCall
<1>4. PICK n \in Nat : n = Len(w)
  BY <1>1
<1>5. c \in NodeCalls(s, w)
  <2>1. DepthOf(s)[0] = 0
    BY <1>1, DepthFacts DEF DepthOK
  <2>2. c \in [op : {"node"}, rec : DOMAIN s, at : Nat, n : Nat, tmp : Nat]
    BY <1>1, <1>2 DEF NodeCall
  <2>3. n + n * 0 = n /\ 0 + n <= n
    OBVIOUS
  <2>4. c.n = Len(Below(s, w, c.rec)) /\ c.at + c.n <= c.tmp
    BY <1>1, <1>3, <1>4, <2>3
  <2>5. c.tmp <= Len(w) + Len(w) * DepthOf(s)[c.rec]
    BY <1>3, <1>4, <2>1, <2>3
  <2>6. QED
    BY <2>2, <2>4, <2>5 DEF NodeCalls
<1>6. Scratch(s, w, Put(w, 0, m), p)
  <2>1. p = <<c>> /\ c \in EncodeCalls(s, w)
    BY <1>2, <1>5 DEF EncodeCalls
  <2>2. p \in Seq(EncodeCalls(s, w)) /\ AllApart(s, p) /\ Len(p) = 1 /\ p[1] = c
    BY <2>1, OneApart
  <2>3. ASSUME NEW i \in 1 .. c.n
        PROVE  Put(w, 0, m)[c.at + i - 1] = Below(s, w, c.rec)[i]
    <3>1. Len(w) <= MaxN
      BY <1>1, NumbersAssumption
    <3>2. c.at + i - 1 \in Cells
      BY <1>1, <1>5, <3>1, NodeInRoom
    <3>3. Put(w, 0, m)[0 + i - 1] = w[i]
      BY <1>3, <1>4, <3>2, PutIn
    <3>4. QED
      BY <1>1, <1>3, <3>3
  <2>4. Ready(Put(w, 0, m), s, w, c)
    BY <2>3 DEF Ready
  <2>5. QED
    BY <2>2, <2>4 DEF Scratch, AllReady
<1>7. Encoded(t, w, k, mk, <<>>, p)
  <2>1. PICK f : f = OrderOf(s, w, k)
    OBVIOUS
  <2>2. <<>> \in Seq(Tags(s)) /\ <<>> \in Seq(Seq(Ranks))
    OBVIOUS
  <2>3. /\ f[0] \in Seq(Tags(s)) /\ f[0] \o <<>> \in Seq(Tags(s))
        /\ Leads(s, w, k, <<c>>, State(f[0] \o <<>>, <<>>), State(<<>>, <<>>))
    BY <1>1, <1>3, <2>1, <2>2, NodeLinks
  <2>4. PICK u \in Seq(Tags(s)) : u = f[0]
    BY <2>3
  <2>5. u \o <<>> = u /\ <<>> \o u = u
    BY <2>4, EmptyJoin
  <2>6. Leads(s, w, k, p, State(u, <<>>), State(<<>>, <<>>))
    BY <1>2, <2>3, <2>4, <2>5
  <2>7. Emitted(s, w, <<>>, p)
    BY DEF Emitted
  <2>8. Holds(t, w, mk, <<>>, <<>>)
    BY HoldsEmpty
  <2>9. QED
    BY <2>1, <2>2, <2>4, <2>5, <2>6, <2>7, <2>8, Zenon DEF Encoded
<1>8. Marked(s, mk)
  BY DEF Marked, Markers
<1>9. QED
  BY <1>6, <1>7, <1>8 DEF EncodingOf

\* The buffers serve the call that is taken, and the others go on.
LEMMA ReadyTail ==
  ASSUME NEW m, NEW s, NEW w, NEW p \in Seq(EncodeCalls(s, w)), p # <<>>, Scratch(s, w, m, p)
  PROVE  Scratch(s, w, m, Tail(p)) /\ Ready(m, s, w, Head(p))
<1>1. Tail(p) \in Seq(EncodeCalls(s, w)) /\ AllApart(s, Tail(p))
  BY PopApart DEF Scratch
<1>2. /\ Head(p) = p[1] /\ Len(p) >= 1 /\ Len(p) \in Nat
      /\ Len(Tail(p)) = Len(p) - 1 /\ \A i \in 1 .. (Len(p) - 1) : Tail(p)[i] = p[i + 1]
  BY TailElement
<1>3. AllReady(m, s, w, Tail(p)) /\ Ready(m, s, w, Head(p))
  <2>1. \A i \in 1 .. Len(p) : Ready(m, s, w, p[i])
    BY DEF Scratch, AllReady
  <2>2. ASSUME NEW i \in 1 .. Len(Tail(p))
        PROVE  Ready(m, s, w, Tail(p)[i])
    <3>1. i + 1 \in 1 .. Len(p) /\ Tail(p)[i] = p[i + 1]
      BY <1>2
    <3>2. QED
      BY <2>1, <3>1
  <2>3. Ready(m, s, w, Head(p))
    BY <1>2, <2>1
  <2>4. QED
    BY <2>2, <2>3 DEF AllReady
<1>4. QED
  BY <1>1, <1>3 DEF Scratch

-----------------------------------------------------------------------------
(* Every step of the encode walk preserves it. *)

SendingOf(t, w, mk, k, st, p, v) ==
  /\ p = <<>> /\ v = <<>> /\ k = KrT(t.krtCode) /\ Marked(t.sched, mk)
  /\ \E q \in Seq(Records(t)) :
       /\ Holds(t, w, mk, q, OrderOf(t.sched, w, KrT(t.krtCode))[0])
       /\ st = (<<BlockNRec(Len(w))>> \o PrefixOf(t, mk)) \o q
DecodingOf(t, w, mk, k, st, p, v) ==
  /\ k \in {0, KrT(t.krtCode)} /\ Marked(t.sched, mk) /\ st \in Seq(Records(t))
  /\ p \in Seq(DecodeCalls(t.sched, w, k))
  /\ Decoded(t, w, k, mk, st, p, v)
DoneOf(t, w, k, st, p, v) ==
  k \in {0, KrT(t.krtCode)} /\ p = <<>> /\ st = <<>> /\ v = <<w>>

Shaped   == phase \in {"idle", "encode", "send", "decode", "done"} /\ DOMAIN mem = Cells
Idling   == phase = "idle" => /\ word = <<>> /\ work = <<>> /\ stream = <<>> /\ vals = <<>>
                              /\ krt = 0
Given    == phase # "idle" => InUse(table, word)
Encoding == phase = "encode" => EncodingOf(table, word, mem, markers, krt, stream, work, vals)
Sending  == phase = "send" => SendingOf(table, word, markers, krt, stream, work, vals)
Decoding == phase = "decode" => DecodingOf(table, word, markers, krt, stream, work, vals)
Finished == phase = "done" => DoneOf(table, word, krt, stream, work, vals)
WalkInv  == Shaped /\ Idling /\ Given /\ Encoding /\ Sending /\ Decoding /\ Finished

\* What an encoding step has to show.
LEMMA EncodeStays ==
  ASSUME WalkInv, phase = "encode", phase' = "encode",
         NEW t, t = table, NEW w, w = word, table' = t, word' = w, krt' = krt, vals' = vals,
         DOMAIN mem' = Cells, Marked(t.sched, markers'), stream' \in Seq(Records(t)),
         Scratch(t.sched, w, mem', work'), Encoded(t, w, krt, markers', stream', work')
  PROVE  WalkInv'
<1>1. EncodingOf(t, w, mem, markers, krt, stream, work, vals) /\ InUse(t, w)
  BY DEF WalkInv, Encoding, Given
<1>2. EncodingOf(t, w, mem', markers', krt', stream', work', vals')
  BY <1>1 DEF EncodingOf
<1>3. Encoding' /\ Given'
  BY <1>1, <1>2 DEF Encoding, Given
<1>4. Shaped' /\ Idling' /\ Sending' /\ Decoding' /\ Finished'
  BY DEF Shaped, Idling, Sending, Decoding, Finished
<1>5. QED
  BY <1>3, <1>4 DEF WalkInv

\* What the encode walk has when it takes its next call.
LEMMA EncodeHead ==
  ASSUME WalkInv, phase = "encode", work # <<>>,
         NEW t, t = table, NEW w, w = word, NEW s, s = t.sched, NEW c, c = Head(work)
  PROVE  /\ InUse(t, w) /\ SchedOK(s) /\ w \in Seq(Ranks) /\ Len(w) <= MaxN
         /\ DOMAIN mem = Cells /\ Marked(s, markers) /\ stream \in Seq(Records(t))
         /\ work \in Seq(EncodeCalls(s, w)) /\ AllApart(s, work) /\ AllReady(mem, s, w, work)
         /\ Encoded(t, w, krt, markers, stream, work)
         /\ Scratch(s, w, mem, Tail(work)) /\ Ready(mem, s, w, c)
         /\ c.op = "node" => c \in NodeCalls(s, w)
         /\ c.op = "bitmap" => c \in BitmapCalls(s, w)
<1>1. EncodingOf(t, w, mem, markers, krt, stream, work, vals) /\ InUse(t, w)
  BY DEF WalkInv, Encoding, Given
<1>2. DOMAIN mem = Cells
  BY DEF WalkInv, Shaped
<1>3. SchedOK(s) /\ w \in Seq(Ranks) /\ Len(w) <= MaxN
  BY <1>1, InUseFacts, NumbersAssumption
<1>4. Scratch(s, w, mem, work) /\ work \in Seq(EncodeCalls(s, w))
  BY <1>1 DEF EncodingOf, Scratch
<1>5. Scratch(s, w, mem, Tail(work)) /\ Ready(mem, s, w, c)
  BY <1>4, ReadyTail
<1>6. c \in EncodeCalls(s, w)
  BY <1>4, TailElement
<1>7. (c.op = "node" => c \in NodeCalls(s, w)) /\ (c.op = "bitmap" => c \in BitmapCalls(s, w))
  BY <1>6, CallOps
<1>8. QED
  BY <1>1, <1>2, <1>3, <1>4, <1>5, <1>7 DEF EncodingOf, Scratch

\* EncodeEmpty preserves the invariant.
LEMMA EncodeEmptyKeeps == WalkInv /\ EncodeEmpty => WalkInv'
<1>. SUFFICES ASSUME WalkInv, EncodeEmpty PROVE WalkInv'
  OBVIOUS
<1>1. PICK t, w, s, c : t = table /\ w = word /\ s = t.sched /\ c = Head(work)
  OBVIOUS
<1>2. /\ phase = "encode" /\ phase' = "encode" /\ work # <<>> /\ c.op = "node" /\ c.n = 0
      /\ work' = Tail(work) /\ table' = t /\ word' = w /\ krt' = krt /\ vals' = vals
      /\ mem' = mem /\ markers' = markers /\ stream' = stream
  BY <1>1 DEF EncodeEmpty, Running
<1>3. /\ SchedOK(s) /\ w \in Seq(Ranks)
      /\ DOMAIN mem = Cells /\ Marked(s, markers) /\ stream \in Seq(Records(t))
      /\ work \in Seq(EncodeCalls(s, w))
      /\ Encoded(t, w, krt, markers, stream, work)
      /\ Scratch(s, w, mem, Tail(work)) /\ c \in NodeCalls(s, w)
  BY <1>1, <1>2, EncodeHead
<1>4. PICK k, mk, q, p : k = krt /\ mk = markers /\ q = stream /\ p = work
  OBVIOUS
<1>5. Encoded(t, w, k, mk, q, Tail(p))
  BY <1>1, <1>2, <1>3, <1>4, EmptyEncoded
<1>6. QED
  BY <1>1, <1>2, <1>3, <1>4, <1>5, EncodeStays

\* A node's cells hold its part of the block.
LEMMA SegmentIs ==
  ASSUME NEW s, NEW w \in Seq(Ranks), NEW c \in NodeCalls(s, w), SchedOK(s), Ready(mem, s, w, c)
  PROVE  Segment(c.at, c.n) = Below(s, w, c.rec)
<1>1. c.n = Len(Below(s, w, c.rec)) /\ c.op = "node"
  BY NodeFacts
<1>2. PICK q \in Seq(Ranks) : q = Below(s, w, c.rec)
  BY BelowType
<1>3. \A i \in 1 .. Len(q) : mem[c.at + i - 1] = q[i]
  BY <1>1, <1>2 DEF Ready
<1>4. Segment(c.at, c.n) = [i \in 1 .. Len(q) |-> q[i]]
  BY <1>1, <1>2, <1>3 DEF Segment
<1>5. QED
  BY <1>2, <1>4

\* EncodeFlat preserves the invariant.
LEMMA EncodeFlatKeeps ==
  ASSUME WalkInv, NEW coded \in BOOLEAN, EncodeFlat(coded)
  PROVE  WalkInv'
<1>1. PICK t, w, s, c : t = table /\ w = word /\ s = t.sched /\ c = Head(work)
  OBVIOUS
<1>2. PICK local : local = [i \in 1 .. c.n |-> mem[c.at + i - 1] - s[c.rec].param]
  OBVIOUS
<1>3. /\ phase = "encode" /\ phase' = "encode" /\ work # <<>> /\ c.op = "node" /\ c.n > 0
      /\ s[c.rec].kind = "FLAT"
      /\ stream' = Append(stream, FlatRec(coded, IF coded THEN Natural ELSE t.layout, local))
      /\ work' = Tail(work) /\ table' = t /\ word' = w /\ krt' = krt /\ vals' = vals
      /\ mem' = mem /\ markers' = markers
  BY <1>1, <1>2 DEF EncodeFlat, Running, sched
<1>4. /\ SchedOK(s) /\ w \in Seq(Ranks)
      /\ DOMAIN mem = Cells /\ Marked(s, markers) /\ stream \in Seq(Records(t))
      /\ work \in Seq(EncodeCalls(s, w))
      /\ Encoded(t, w, krt, markers, stream, work)
      /\ Scratch(s, w, mem, Tail(work)) /\ c \in NodeCalls(s, w) /\ Ready(mem, s, w, c)
  BY <1>1, <1>3, EncodeHead
<1>5. local = Codes(s, w, c.rec)
  <2>1. c.n = Len(Below(s, w, c.rec)) /\ c.op = "node"
    BY <1>4, NodeFacts
  <2>2. \A i \in 1 .. c.n : mem[c.at + i - 1] = Below(s, w, c.rec)[i]
    BY <1>4, <2>1 DEF Ready
  <2>3. QED
    BY <1>2, <2>1, <2>2 DEF Codes
<1>6. PICK x : x = Region(t, w, c.rec, coded)
  OBVIOUS
<1>7. stream' = Append(stream, x)
  BY <1>1, <1>3, <1>5, <1>6 DEF Region
<1>8. PICK k, mk, q, p : k = krt /\ mk = markers /\ q = stream /\ p = work
  OBVIOUS
<1>9. Append(q, x) \in Seq(Records(t)) /\ Encoded(t, w, k, mk, Append(q, x), Tail(p))
  BY <1>1, <1>3, <1>4, <1>6, <1>8, FlatEncoded
<1>10. QED
  BY <1>1, <1>3, <1>4, <1>7, <1>8, <1>9, EncodeStays

\* EmitBitmap preserves the invariant.
LEMMA EmitBitmapKeeps ==
  ASSUME WalkInv, NEW m \in Markers, EmitBitmap(m)
  PROVE  WalkInv'
<1>1. PICK t, w, s, c : t = table /\ w = word /\ s = t.sched /\ c = Head(work)
  OBVIOUS
<1>2. /\ phase = "encode" /\ phase' = "encode" /\ work # <<>> /\ c.op = "bitmap"
      /\ stream' = Append(stream, BitmapRec(m, c.bm))
      /\ work' = Tail(work) /\ table' = t /\ word' = w /\ krt' = krt /\ vals' = vals
      /\ mem' = mem /\ markers' = Remarked(markers, c.rec, m)
  BY <1>1 DEF EmitBitmap, Running, Remarked
<1>3. /\ SchedOK(s) /\ w \in Seq(Ranks)
      /\ DOMAIN mem = Cells /\ Marked(s, markers) /\ stream \in Seq(Records(t))
      /\ work \in Seq(EncodeCalls(s, w)) /\ AllApart(s, work)
      /\ Encoded(t, w, krt, markers, stream, work)
      /\ Scratch(s, w, mem, Tail(work)) /\ c \in BitmapCalls(s, w)
  BY <1>1, <1>2, EncodeHead
<1>4. PICK k, mk, q, p : k = krt /\ mk = markers /\ q = stream /\ p = work
  OBVIOUS
<1>5. PICK mk2, x : mk2 = Remarked(mk, c.rec, m) /\ x = BitmapRec(m, c.bm)
  OBVIOUS
<1>6. /\ Marked(s, mk2) /\ Append(q, x) \in Seq(Records(t))
      /\ Encoded(t, w, k, mk2, Append(q, x), Tail(p))
  <2>1. /\ s = t.sched /\ SchedOK(s) /\ w \in Seq(Ranks) /\ Marked(s, mk)
        /\ q \in Seq(Records(t)) /\ p \in Seq(EncodeCalls(s, w)) /\ p # <<>> /\ AllApart(s, p)
        /\ Encoded(t, w, k, mk, q, p) /\ c \in BitmapCalls(s, w) /\ c = Head(p)
    BY <1>1, <1>2, <1>3, <1>4
  <2>2. QED
    BY <1>5, <2>1, BitmapEncoded
<1>7. QED
  BY <1>1, <1>2, <1>3, <1>4, <1>5, <1>6, EncodeStays

\* A node's step, as the constant-level operators of the lemmas see it.
LEMMA EncodeNodeIs ==
  ASSUME NEW t, t = table, NEW w, w = word, NEW s, s = t.sched, NEW c, c = Head(work),
         SchedOK(s), w \in Seq(Ranks), c \in NodeCalls(s, w), Ready(mem, s, w, c),
         EncodeNode
  PROVE  /\ c.n > 0 /\ s[c.rec].kind # "FLAT"
         /\ mem' = Partitioned(mem, s, w, c)
         /\ work' = Pushed(s, w, krt, c) \o Tail(work)
         /\ stream' = (IF Header(s, krt, c) THEN Append(stream, HeaderRec(s, w, c)) ELSE stream)
<1>1. PICK b \in Seq(Ranks) : b = Below(s, w, c.rec)
  BY BelowType
<1>2. /\ c.rec \in DOMAIN s /\ c.n = Len(b) /\ Segment(c.at, c.n) = b
      /\ s[c.rec].kind \in {"FLAT", "BOTH_LEAVES", "LEAF_LEFT", "FULL"}
  <2>1. c.rec \in DOMAIN s /\ c.n = Len(Below(s, w, c.rec))
    BY NodeFacts, Zenon
  <2>2. Segment(c.at, c.n) = Below(s, w, c.rec)
    BY SegmentIs, Zenon
  <2>3. s[c.rec].kind \in {"FLAT", "BOTH_LEAVES", "LEAF_LEFT", "FULL"}
    BY <2>1 DEF SchedOK, Preorder
  <2>4. QED
    BY <1>1, <2>1, <2>2, <2>3
<1>3. PICK right, left, nr :
        /\ right = Keep(b, Above(s[c.rec].param)) /\ left = Keep(b, NotAbove(s[c.rec].param))
        /\ nr = Len(right)
  OBVIOUS
<1>4. nr = RightLen(s, w, c.rec)
  BY <1>1, <1>3 DEF RightLen
<1>5. PICK bitmap, tmp : /\ bitmap = <<BitmapCall(c.rec, [i \in 1 .. c.n |-> b[i] > s[c.rec].param])>>
                         /\ tmp = ChildTmp(c.tmp, nr)
  OBVIOUS
<1>6. PICK leftCall, rightCall :
        /\ leftCall = <<NodeCall(c.rec + 1, c.at, c.n - nr, tmp)>>
        /\ rightCall = <<NodeCall(RightRec(c.rec), c.tmp, nr, tmp)>>
  OBVIOUS
<1>7. PICK children :
        children = IF s[c.rec].kind = "BOTH_LEAVES" THEN <<>>
                   ELSE IF s[c.rec].kind = "LEAF_LEFT" THEN rightCall
                   ELSE IF EncodeRightFirst(nr, c.n - nr) THEN rightCall \o leftCall
                   ELSE leftCall \o rightCall
  OBVIOUS
<1>8. /\ c.n > 0 /\ s[c.rec].kind # "FLAT"
      /\ mem' = IF s[c.rec].kind = "BOTH_LEAVES" THEN mem
                ELSE IF s[c.rec].kind = "LEAF_LEFT" THEN Put(right, c.tmp, mem)
                ELSE Put(left, c.at, Put(right, c.tmp, mem))
      /\ work' = (IF BitmapGoesFirst(c.n) THEN bitmap \o children ELSE children \o bitmap)
                   \o Tail(work)
      /\ stream' = IF ~BitmapGoesFirst(c.n) /\ s[c.rec].kind # "BOTH_LEAVES"
                   THEN Append(stream, KrRec(nr)) ELSE stream
  BY <1>2, <1>3, <1>5, <1>6, <1>7, Zenon DEF EncodeNode, sched
<1>9. bitmap = <<OwnBitmap(s, w, c)>>
  BY <1>1, <1>2, <1>5 DEF OwnBitmap, BitsOf
<1>10. children = Children(s, w, c)
  <2>1. leftCall = <<LeftChild(s, w, c)>>
    BY <1>4, <1>5, <1>6 DEF LeftChild
  <2>2. rightCall = <<RightChild(s, w, c)>>
    BY <1>4, <1>5, <1>6 DEF RightChild, RightRec, sched
  <2>3. QED
    BY <1>4, <1>7, <2>1, <2>2, Zenon DEF Children
<1>11. work' = Pushed(s, w, krt, c) \o Tail(work)
  BY <1>8, <1>9, <1>10, Zenon DEF Pushed, BitmapGoesFirst
<1>12. stream' = (IF Header(s, krt, c) THEN Append(stream, HeaderRec(s, w, c)) ELSE stream)
  BY <1>4, <1>8, Zenon DEF Header, HeaderRec, BitmapGoesFirst
<1>13. mem' = Partitioned(mem, s, w, c)
  <2>1. CASE s[c.rec].kind = "BOTH_LEAVES"
    BY <1>8, <2>1 DEF Partitioned
  <2>2. CASE s[c.rec].kind = "LEAF_LEFT"
    <3>1. right = Below(s, w, RightOf(s, c.rec))
      BY <1>1, <1>2, <1>3, <2>2, PartitionRight DEF Inner
    <3>2. QED
      BY <1>8, <2>2, <3>1 DEF Partitioned
  <2>3. CASE s[c.rec].kind = "FULL"
    <3>1. right = Below(s, w, RightOf(s, c.rec)) /\ left = Below(s, w, c.rec + 1)
      BY <1>1, <1>2, <1>3, <2>3, PartitionRight, PartitionLeft DEF Inner
    <3>2. QED
      BY <1>8, <2>3, <3>1 DEF Partitioned
  <2>4. QED
    BY <1>2, <1>8, <2>1, <2>2, <2>3
<1>14. QED
  BY <1>8, <1>11, <1>12, <1>13

\* EncodeNode preserves the invariant.
LEMMA EncodeNodeKeeps == WalkInv /\ EncodeNode => WalkInv'
<1>. SUFFICES ASSUME WalkInv, EncodeNode PROVE WalkInv'
  OBVIOUS
<1>1. PICK t, w, s, c : t = table /\ w = word /\ s = t.sched /\ c = Head(work)
  OBVIOUS
<1>2. /\ phase = "encode" /\ phase' = "encode" /\ work # <<>> /\ c.op = "node"
      /\ table' = t /\ word' = w /\ krt' = krt /\ vals' = vals /\ markers' = markers
  BY <1>1 DEF EncodeNode, Running
<1>3. /\ SchedOK(s) /\ w \in Seq(Ranks) /\ Len(w) <= MaxN
      /\ DOMAIN mem = Cells /\ Marked(s, markers) /\ stream \in Seq(Records(t))
      /\ work \in Seq(EncodeCalls(s, w)) /\ AllApart(s, work) /\ AllReady(mem, s, w, work)
      /\ Encoded(t, w, krt, markers, stream, work)
      /\ c \in NodeCalls(s, w) /\ Ready(mem, s, w, c)
  BY <1>1, <1>2, EncodeHead
<1>4. PICK k, mk, q, p, m : k = krt /\ mk = markers /\ q = stream /\ p = work /\ m = mem
  OBVIOUS
<1>5. PICK z : z = (IF Header(s, k, c) THEN Append(q, HeaderRec(s, w, c)) ELSE q)
  OBVIOUS
<1>6. /\ c.n > 0 /\ s[c.rec].kind # "FLAT"
      /\ mem' = Partitioned(m, s, w, c)
      /\ work' = Pushed(s, w, k, c) \o Tail(p)
      /\ stream' = z
  BY <1>1, <1>3, <1>4, <1>5, EncodeNodeIs
<1>7. z \in Seq(Records(t)) /\ Encoded(t, w, k, mk, z, Pushed(s, w, k, c) \o Tail(p))
  BY <1>1, <1>2, <1>3, <1>4, <1>5, <1>6, NodeEncoded
<1>8. Scratch(s, w, mem', work')
  <2>1. Replaces(s, w, c, Pushed(s, w, k, c))
    BY <1>3, <1>6, NodeReplaced
  <2>2. /\ Pushed(s, w, k, c) \o Tail(p) \in Seq(EncodeCalls(s, w))
        /\ AllApart(s, Pushed(s, w, k, c) \o Tail(p))
    BY <1>1, <1>2, <1>3, <1>4, <2>1, PushApart
  <2>3. AllReady(Partitioned(m, s, w, c), s, w, Pushed(s, w, k, c) \o Tail(p))
    BY <1>1, <1>2, <1>3, <1>4, <1>6, NodeReady
  <2>4. QED
    BY <1>6, <2>2, <2>3 DEF Scratch
<1>9. DOMAIN mem' = Cells
  BY <1>3, <1>4, <1>6 DEF Partitioned, Put
<1>10. QED
  BY <1>1, <1>2, <1>3, <1>4, <1>6, <1>7, <1>8, <1>9, EncodeStays

-----------------------------------------------------------------------------
(* From the encoder to the decoder. *)

\* Two coded nodes have two indices.
LEMMA IndexGrows ==
  ASSUME NEW S \in SUBSET Nat, IsFiniteSet(S), NEW a \in S, NEW b \in S, a < b
  PROVE  Index(a, S) # Index(b, S)
<1>1. PICK A, B : A = {q \in S : q <= a} /\ B = {q \in S : q <= b}
  OBVIOUS
<1>2. a \in Nat /\ b \in Nat
  OBVIOUS
<1>3. A \subseteq B /\ b \in B /\ b \notin A
  <2>1. ASSUME NEW q \in A
        PROVE  q \in B
    <3>1. q \in S /\ q \in Nat /\ q <= a
      BY <1>1
    <3>2. q <= b
      BY <1>2, <3>1
    <3>3. QED
      BY <1>1, <3>1, <3>2
  <2>2. A \subseteq B
    BY <2>1
  <2>3. b \in B /\ b \notin A
    BY <1>1, <1>2
  <2>4. QED
    BY <2>2, <2>3
<1>4. IsFiniteSet(B)
  BY <1>1, FS_Subset
<1>5. Cardinality(A) # Cardinality(B)
  BY <1>3, <1>4, FS_Subset
<1>6. QED
  BY <1>1, <1>5 DEF Index

\* The indices are those of the prefix's values.
LEMMA IndexRange ==
  ASSUME NEW S \in SUBSET Nat, IsFiniteSet(S), NEW a \in S
  PROVE  Index(a, S) \in 1 .. Cardinality(S)
<1>1. PICK A : A = {q \in S : q <= a}
  OBVIOUS
<1>2. A \subseteq S /\ a \in A
  BY <1>1
<1>3. IsFiniteSet(A) /\ Cardinality(A) <= Cardinality(S)
  BY <1>2, FS_Subset
<1>4. Cardinality(A) \in Nat /\ Cardinality(S) \in Nat
  BY <1>3, FS_CardinalityType
<1>5. Cardinality(A) # 0
  BY <1>2, <1>3, FS_EmptySet
<1>6. QED
  BY <1>1, <1>3, <1>4, <1>5 DEF Index

\* The decoder finds a node's marker at the node's index among the coded nodes.
LEMMA MarkerFound ==
  ASSUME NEW S \in SUBSET Nat, IsFiniteSet(S), NEW r \in S, NEW mk, NEW i, i = Index(r, S)
  PROVE  /\ i \in 1 .. Cardinality(S)
         /\ ValuesOf(S, mk)[i] = mk[r]
<1>1. i \in 1 .. Cardinality(S)
  BY IndexRange
<1>2. PICK q : q = CHOOSE x \in S : Index(x, S) = i
  OBVIOUS
<1>3. q \in S /\ Index(q, S) = i
  BY <1>2
<1>4. q = r
  <2>1. q \in Nat /\ r \in Nat
    BY <1>3
  <2>2. q < r \/ r < q \/ q = r
    BY <2>1
  <2>3. ~(q < r) /\ ~(r < q)
    BY <1>3, IndexGrows
  <2>4. QED
    BY <2>2, <2>3
<1>5. QED
  BY <1>1, <1>2, <1>4 DEF ValuesOf

\* The coded nodes are a finite set of numbers.
LEMMA CodedFinite ==
  ASSUME NEW s, Preorder(s), NEW mk
  PROVE  CodedOf(s, mk) \in SUBSET Nat /\ IsFiniteSet(CodedOf(s, mk))
<1>1. PICK last \in Ranks : DOMAIN s = 0 .. last
  BY DEF Preorder
<1>2. last \in Nat
  BY RanksAreNat
<1>3. IsFiniteSet(0 .. last)
  BY <1>2, FS_Interval
<1>4. CodedOf(s, mk) \subseteq 0 .. last
  BY <1>1 DEF CodedOf, NodesOf
<1>5. IsFiniteSet(CodedOf(s, mk))
  BY <1>3, <1>4, FS_Subset
<1>6. 0 .. last \subseteq Nat
  BY <1>2
<1>7. QED
  BY <1>4, <1>5, <1>6

\* read_marker_prefix gives back the encoder's markers.
ReadMarkers(s, x) ==
  [r \in DOMAIN s |->
     IF ~(NodesOf(s) = {}) /\ r \in x.present THEN x.values[Index(r, x.present)] ELSE Raw]

\* It does so for every node, coded or not.
LEMMA MarkersRead ==
  ASSUME NEW t, NEW s, s = t.sched, Preorder(s), NEW mk, Marked(s, mk), NEW x, x = PrefixRec(t, mk)
  PROVE  ReadMarkers(s, x) = mk
<1>1. PICK S : S = CodedOf(s, mk)
  OBVIOUS
<1>2. S \in SUBSET Nat /\ IsFiniteSet(S)
  BY <1>1, CodedFinite
<1>0. PICK V : V = ValuesOf(S, mk)
  OBVIOUS
<1>3. x.present = S /\ x.values = V
  BY <1>0, <1>1 DEF PrefixRec
<1>4. ASSUME NEW r \in DOMAIN s
      PROVE  (IF ~(NodesOf(s) = {}) /\ r \in S THEN x.values[Index(r, S)] ELSE Raw) = mk[r]
  <2>1. CASE r \in S
    <3>1. NodesOf(s) # {}
      BY <1>1, <2>1 DEF CodedOf
    <3>2. PICK i : i = Index(r, S)
      OBVIOUS
    <3>3. V[i] = mk[r]
      BY <1>0, <1>2, <2>1, <3>2, MarkerFound, Zenon
    <3>4. QED
      BY <1>3, <2>1, <3>1, <3>2, <3>3
  <2>2. CASE r \notin S
    <3>1. mk[r] = Raw
      BY <1>1, <2>2 DEF CodedOf, NodesOf, Marked
    <3>2. QED
      BY <2>2, <3>1
  <2>3. QED
    BY <2>1, <2>2
<1>5. mk = [r \in DOMAIN s |-> mk[r]]
  BY DEF Marked
<1>6. QED
  BY <1>3, <1>4, <1>5 DEF ReadMarkers

\* The block's first records, however many there are.
LEMMA BlockRead ==
  ASSUME NEW R, NEW q \in Seq(R), NEW a, NEW st
  PROVE  /\ st = (<<a>> \o <<>>) \o q => Head(st) = a /\ st[1] = a /\ SubSeq(st, 2, Len(st)) = q
         /\ \A b : st = (<<a>> \o <<b>>) \o q =>
              Head(st) = a /\ st[1] = a /\ st[2] = b /\ SubSeq(st, 3, Len(st)) = q
<1>1. ASSUME st = (<<a>> \o <<>>) \o q
      PROVE  Head(st) = a /\ st[1] = a /\ SubSeq(st, 2, Len(st)) = q
  <2>1. PICK C : C = R \cup {a}
    OBVIOUS
  <2>2. q \in Seq(C) /\ a \in C
    BY <2>1
  <2>3. <<a>> \o <<>> = <<a>>
    BY <2>2, EmptyJoin
  <2>4. PICK e \in Seq(C) : e = <<a>> /\ Len(e) = 1 /\ e[1] = a
    BY <2>2, SingleIs
  <2>5. /\ st \in Seq(C) /\ Len(st) = 1 + Len(q) /\ Len(q) \in Nat
        /\ \A i \in 1 .. Len(e) : st[i] = e[i]
        /\ \A i \in 1 .. Len(q) : st[Len(e) + i] = q[i]
    BY <1>1, <2>2, <2>3, <2>4, JoinElement
  <2>6. st[1] = a
    BY <2>4, <2>5
  <2>7. \A i \in 1 .. Len(q) : st[2 + i - 1] = q[i]
    BY <2>4, <2>5
  <2>8. SubSeq(st, 2, Len(st)) = q
    <3>1. PICK n \in Nat : n = Len(q) /\ Len(st) = n + 1
      BY <2>5
    <3>2. PICK z : z = SubSeq(st, 2, n + 1)
      OBVIOUS
    <3>3. z \in Seq(C) /\ Len(z) = n /\ \A i \in 1 .. n : z[i] = st[2 + i - 1]
      BY <2>5, <3>1, <3>2, SubSeqProperties
    <3>4. z = q
      BY <2>2, <2>7, <3>1, <3>3, SeqEqual
    <3>5. QED
      BY <3>1, <3>2, <3>4
  <2>9. QED
    BY <2>5, <2>6, <2>8
<1>2. ASSUME NEW b, st = (<<a>> \o <<b>>) \o q
      PROVE  Head(st) = a /\ st[1] = a /\ st[2] = b /\ SubSeq(st, 3, Len(st)) = q
  <2>1. PICK C : C = R \cup {a, b}
    OBVIOUS
  <2>2. q \in Seq(C) /\ a \in C /\ b \in C
    BY <2>1
  <2>3. PICK e \in Seq(C) : e = <<a>> \o <<b>> /\ Len(e) = 2 /\ e[1] = a /\ e[2] = b
    <3>1. <<a>> \o <<b>> = <<a, b>>
      <4>1. PICK e : e = <<a>> \o <<b>>
        OBVIOUS
      <4>2. e \in Seq(C) /\ Len(e) = 2 /\ e[1] = a /\ e[2] = b
        BY <2>2, <4>1
      <4>3. e = <<e[1], e[2]>>
        BY <4>2
      <4>4. QED
        BY <4>1, <4>2, <4>3
    <3>2. <<a, b>> \in Seq(C)
      BY <2>2
    <3>3. QED
      BY <3>1, <3>2
  <2>5. /\ st \in Seq(C) /\ Len(st) = 2 + Len(q) /\ Len(q) \in Nat
        /\ \A i \in 1 .. Len(e) : st[i] = e[i]
        /\ \A i \in 1 .. Len(q) : st[Len(e) + i] = q[i]
    BY <1>2, <2>2, <2>3, JoinElement
  <2>6. st[1] = a /\ st[2] = b
    BY <2>3, <2>5
  <2>7. \A i \in 1 .. Len(q) : st[3 + i - 1] = q[i]
    BY <2>3, <2>5
  <2>8. SubSeq(st, 3, Len(st)) = q
    <3>1. PICK n \in Nat : n = Len(q) /\ Len(st) = n + 2
      BY <2>5
    <3>2. PICK z : z = SubSeq(st, 3, n + 2)
      OBVIOUS
    <3>3. z \in Seq(C) /\ Len(z) = n /\ \A i \in 1 .. n : z[i] = st[3 + i - 1]
      BY <2>5, <3>1, <3>2, SubSeqProperties
    <3>4. z = q
      BY <2>2, <2>7, <3>1, <3>3, SeqEqual
    <3>5. QED
      BY <3>1, <3>2, <3>4
  <2>9. QED
    BY <2>5, <2>6, <2>8
<1>3. QED
  BY <1>1, <1>2

\* The invariant holds initially.
LEMMA WalkInitially == Init => WalkInv
<1>. SUFFICES ASSUME Init PROVE WalkInv
  OBVIOUS
<1>1. /\ phase = "idle" /\ word = <<>> /\ work = <<>> /\ stream = <<>> /\ vals = <<>> /\ krt = 0
      /\ DOMAIN mem = Cells
  BY DEF Init
<1>2. QED
  BY <1>1 DEF WalkInv, Shaped, Idling, Given, Encoding, Sending, Decoding, Finished

\* StartBlock preserves the invariant.
LEMMA StartBlockKeeps ==
  ASSUME WalkInv, NEW s \in Scheds, NEW t \in TablesOf(s), NEW w \in Words(s), StartBlock(t, w)
  PROVE  WalkInv'
<1>1. /\ phase = "idle" /\ phase' = "encode" /\ table' = t /\ word' = w
      /\ mem' = Put(w, 0, mem) /\ work' = <<NodeCall(0, 0, Len(w), Len(w))>>
      /\ markers' = [r \in DOMAIN t.sched |-> Raw] /\ krt' = KrT(t.krtCode)
      /\ stream' = stream /\ vals' = vals
  BY DEF StartBlock
<1>2. stream = <<>> /\ vals = <<>>
  BY <1>1 DEF WalkInv, Idling
<1>3. InUse(t, w)
  BY DEF InUse
<1>4. PICK m, k, mk, p : /\ m = mem /\ k = KrT(t.krtCode) /\ mk = [r \in DOMAIN t.sched |-> Raw]
                         /\ p = <<NodeCall(0, 0, Len(w), Len(w))>>
  OBVIOUS
<1>5. EncodingOf(t, w, Put(w, 0, m), mk, k, <<>>, p, <<>>)
  BY <1>3, <1>4, StartEncoding
<1>6. EncodingOf(t, w, mem', markers', krt', stream', work', vals')
  BY <1>1, <1>2, <1>4, <1>5
<1>7. Encoding' /\ Given'
  BY <1>1, <1>3, <1>6 DEF Encoding, Given
<1>8. DOMAIN mem' = Cells
  BY <1>1 DEF Put
<1>9. Shaped' /\ Idling' /\ Sending' /\ Decoding' /\ Finished'
  BY <1>1, <1>8 DEF Shaped, Idling, Sending, Decoding, Finished
<1>10. QED
  BY <1>7, <1>9 DEF WalkInv

\* When no call is pending the stream is the whole order.
LEMMA EncodedAll ==
  ASSUME NEW t, NEW w, NEW k, NEW mk, NEW q, NEW s, s = t.sched, Encoded(t, w, k, mk, q, <<>>)
  PROVE  Holds(t, w, mk, q, OrderOf(s, w, k)[0])
<1>1. PICK g \in Seq(Tags(s)), u \in Seq(Tags(s)) :
        /\ g \o u = OrderOf(s, w, k)[0] /\ Holds(t, w, mk, q, g)
        /\ Leads(s, w, k, <<>>, State(u, <<>>), State(<<>>, <<>>))
  BY DEF Encoded
<1>2. State(u, <<>>) \in States(s)
  <2>1. <<>> \in Seq(Seq(Ranks))
    OBVIOUS
  <2>2. QED
    BY <2>1, StateIs
<1>3. u = <<>>
  <2>1. State(u, <<>>) = State(<<>>, <<>>)
    BY <1>1, <1>2, LeadsEmpty
  <2>2. QED
    BY <2>1 DEF State
<1>4. g \o u = g
  BY <1>3, EmptyJoin
<1>5. QED
  BY <1>1, <1>4

\* The prefix as a constant-level operator.
LEMMA PrefixIs == WriteMarkerPrefix = PrefixOf(table, markers)
  BY Zenon DEF MarkerNodes, NodesOf, sched, WriteMarkerPrefix, PrefixOf, PrefixRec, ValuesOf,
               CodedOf

\* FinishEncode preserves the invariant.
LEMMA FinishEncodeKeeps == WalkInv /\ FinishEncode => WalkInv'
<1>. SUFFICES ASSUME WalkInv, FinishEncode PROVE WalkInv'
  OBVIOUS
<1>1. PICK t, w, q, mk, k : t = table /\ w = word /\ q = stream /\ mk = markers /\ k = krt
  OBVIOUS
<1>2. /\ phase = "encode" /\ work = <<>> /\ phase' = "send"
      /\ stream' = (<<BlockNRec(Len(w))>> \o PrefixOf(t, mk)) \o q
      /\ table' = t /\ word' = w /\ work' = work /\ mem' = mem /\ markers' = mk /\ krt' = k
      /\ vals' = vals
  BY <1>1, PrefixIs DEF FinishEncode, N
<1>3. /\ InUse(t, w) /\ EncodingOf(t, w, mem, mk, k, q, <<>>, vals) /\ DOMAIN mem = Cells
  BY <1>1, <1>2 DEF WalkInv, Given, Encoding, Shaped
<1>4. /\ vals = <<>> /\ k = KrT(t.krtCode) /\ Marked(t.sched, mk) /\ q \in Seq(Records(t))
      /\ Encoded(t, w, k, mk, q, <<>>)
  BY <1>3 DEF EncodingOf
<1>5. Holds(t, w, mk, q, OrderOf(t.sched, w, KrT(t.krtCode))[0])
  BY <1>4, EncodedAll
<1>6. SendingOf(t, w, markers', krt', stream', work', vals')
  BY <1>2, <1>4, <1>5, Zenon DEF SendingOf
<1>7. Sending' /\ Given'
  BY <1>2, <1>3, <1>6 DEF Sending, Given
<1>8. Shaped' /\ Idling' /\ Encoding' /\ Decoding' /\ Finished'
  BY <1>2, <1>3 DEF Shaped, Idling, Encoding, Decoding, Finished
<1>9. QED
  BY <1>7, <1>8 DEF WalkInv

\* Without marker nodes the root is a flat region, and the thresholds decide nothing.
LEMMA FlatAlone ==
  ASSUME NEW s, Preorder(s), 0 \in DOMAIN s, NodesOf(s) = {}, NEW w, NEW k, NEW j
  PROVE  OrderOf(s, w, k)[0] = OrderOf(s, w, j)[0]
<1>1. s[0].kind = "FLAT"
  BY DEF NodesOf
<1>2. /\ OrderOf(s, w, k)[0] = TagsOf(OrderOf(s, w, k), s, w, k, 0)
      /\ OrderOf(s, w, j)[0] = TagsOf(OrderOf(s, w, j), s, w, j, 0)
  BY OrderUnfolds
<1>3. QED
  BY <1>1, <1>2 DEF TagsOf

\* The root's call reads the whole stream.
LEMMA StartDecoding ==
  ASSUME NEW t, NEW w, InUse(t, w), NEW s, s = t.sched, NEW mk, Marked(s, mk),
         NEW k \in {0, KrT(t.krtCode)}, NodesOf(s) # {} => k = KrT(t.krtCode),
         NEW q \in Seq(Records(t)), Holds(t, w, mk, q, OrderOf(s, w, KrT(t.krtCode))[0]),
         NEW p, p = <<SubtreeCall(0, Len(w))>>
  PROVE  DecodingOf(t, w, mk, k, q, p, <<>>)
<1>1. /\ SchedOK(s) /\ 0 \in DOMAIN s /\ w \in Seq(Ranks) /\ Len(w) \in 1 .. MaxN
      /\ Below(s, w, 0) = w
  BY InUseFacts
<1>2. PICK c : c = SubtreeCall(0, Len(w))
  OBVIOUS
<1>3. c.op = "subtree" /\ c.rec = 0
  BY <1>2 DEF SubtreeCall
<1>4. c \in SubtreeCalls(s, w)
  BY <1>1, <1>2 DEF SubtreeCalls, SubtreeCall
<1>5. p \in Seq(DecodeCalls(s, w, k))
  BY <1>2, <1>4, SingleIs DEF DecodeCalls
<1>6. PICK f : f = OrderOf(s, w, k)
  OBVIOUS
<1>7. f[0] = OrderOf(s, w, KrT(t.krtCode))[0]
  BY <1>1, <1>6, FlatAlone DEF SchedOK
<1>8. <<>> \in Seq(Tags(s)) /\ <<>> \in Seq(Seq(Ranks))
  OBVIOUS
<1>9. /\ f[0] \in Seq(Tags(s)) /\ f[0] \o <<>> \in Seq(Tags(s))
      /\ <<Below(s, w, 0)>> \in Seq(Seq(Ranks))
      /\ Leads(s, w, k, <<c>>, State(f[0] \o <<>>, <<>>), State(<<>>, <<Below(s, w, 0)>> \o <<>>))
  BY <1>1, <1>3, <1>6, <1>8, SubtreeLinks
<1>10. PICK u \in Seq(Tags(s)) : u = f[0]
  BY <1>9
<1>11. u \o <<>> = u
  BY <1>10, EmptyJoin
<1>12. <<Below(s, w, 0)>> \o <<>> = <<w>>
  BY <1>1, <1>9, EmptyJoin
<1>13. Leads(s, w, k, p, State(u, <<>>), State(<<>>, <<w>>))
  BY <1>2, <1>9, <1>10, <1>11, <1>12
<1>14. Decoded(t, w, k, mk, q, p, <<>>)
  BY <1>7, <1>8, <1>10, <1>13, Zenon DEF Decoded
<1>15. QED
  BY <1>5, <1>14 DEF DecodingOf

-----------------------------------------------------------------------------
(* Every step of the decode walk preserves it. *)

\* StartDecode preserves the invariant.
LEMMA StartDecodeKeeps == WalkInv /\ StartDecode => WalkInv'
<1>. SUFFICES ASSUME WalkInv, StartDecode PROVE WalkInv'
  OBVIOUS
<1>1. PICK t, w, s, mk, st : t = table /\ w = word /\ s = t.sched /\ mk = markers /\ st = stream
  OBVIOUS
<1>2. PICK x : x = st[2]
  OBVIOUS
<1>3. PICK k : k = IF NodesOf(s) = {} THEN 0 ELSE KrT(x.code)
  OBVIOUS
<1>4. NodesOf(s) = MarkerNodes
  BY <1>1 DEF NodesOf, MarkerNodes, sched
<1>5. /\ phase = "send" /\ phase' = "decode" /\ table' = t /\ word' = w /\ mem' = mem
      /\ vals' = vals
      /\ markers' = ReadMarkers(s, x)
      /\ krt' = k
      /\ stream' = SubSeq(st, IF NodesOf(s) = {} THEN 2 ELSE 3, Len(st))
      /\ work' = <<SubtreeCall(0, Head(st).n)>>
  BY <1>1, <1>2, <1>3, <1>4 DEF StartDecode, SubtreeCall, sched, ReadMarkers
<1>6. InUse(t, w) /\ SendingOf(t, w, mk, krt, st, work, vals) /\ DOMAIN mem = Cells
  BY <1>1, <1>5 DEF WalkInv, Given, Sending, Shaped
<1>7. vals = <<>> /\ Marked(s, mk) /\ SchedOK(s)
  BY <1>1, <1>6, InUseFacts DEF SendingOf
<1>8. PICK q \in Seq(Records(t)) :
        /\ Holds(t, w, mk, q, OrderOf(s, w, KrT(t.krtCode))[0])
        /\ st = (<<BlockNRec(Len(w))>> \o PrefixOf(t, mk)) \o q
  BY <1>1, <1>6 DEF SendingOf
<1>9. BlockNRec(Len(w)).n = Len(w)
  BY DEF BlockNRec
<1>10. /\ stream' = q /\ Head(st).n = Len(w) /\ markers' = mk
       /\ k \in {0, KrT(t.krtCode)} /\ (NodesOf(s) # {} => k = KrT(t.krtCode))
  <2>1. CASE NodesOf(s) = {}
    <3>1. st = (<<BlockNRec(Len(w))>> \o <<>>) \o q
      BY <1>1, <1>8, <2>1 DEF PrefixOf
    <3>2. Head(st) = BlockNRec(Len(w)) /\ SubSeq(st, 2, Len(st)) = q
      BY <3>1, BlockRead
    <3>3. \A r \in DOMAIN s : mk[r] = Raw
      BY <1>7, <2>1 DEF NodesOf, Marked
    <3>4. mk = [r \in DOMAIN s |-> mk[r]]
      BY <1>7 DEF Marked
    <3>5. markers' = [r \in DOMAIN s |-> Raw]
      BY <1>5, <2>1 DEF ReadMarkers
    <3>6. markers' = mk
      BY <3>3, <3>4, <3>5
    <3>7. QED
      BY <1>3, <1>5, <1>9, <2>1, <3>2, <3>6
  <2>2. CASE NodesOf(s) # {}
    <3>1. PICK b : b = PrefixRec(t, mk)
      OBVIOUS
    <3>2. st = (<<BlockNRec(Len(w))>> \o <<b>>) \o q
      BY <1>1, <1>8, <2>2, <3>1 DEF PrefixOf
    <3>3. /\ Head(st) = BlockNRec(Len(w)) /\ SubSeq(st, 3, Len(st)) = q /\ x = b
      BY <1>2, <3>2, BlockRead
    <3>4. x.code = t.krtCode
      BY <3>1, <3>3 DEF PrefixRec
    <3>5. Preorder(s)
      BY <1>7 DEF SchedOK
    <3>6. markers' = mk
      BY <1>1, <1>5, <1>7, <3>1, <3>3, <3>5, MarkersRead
    <3>7. QED
      BY <1>3, <1>5, <1>9, <2>2, <3>3, <3>4, <3>6
  <2>3. QED
    BY <2>1, <2>2
<1>11. PICK p : p = <<SubtreeCall(0, Len(w))>>
  OBVIOUS
<1>12. DecodingOf(t, w, mk, k, q, p, <<>>)
  BY <1>1, <1>6, <1>7, <1>8, <1>10, <1>11, StartDecoding
<1>13. DecodingOf(t, w, markers', krt', stream', work', vals')
  BY <1>5, <1>7, <1>10, <1>11, <1>12
<1>14. Decoding' /\ Given'
  BY <1>5, <1>6, <1>13 DEF Decoding, Given
<1>15. Shaped' /\ Idling' /\ Encoding' /\ Sending' /\ Finished'
  BY <1>5, <1>6 DEF Shaped, Idling, Encoding, Sending, Finished
<1>16. QED
  BY <1>14, <1>15 DEF WalkInv

\* NextBlock preserves the invariant.
LEMMA NextBlockKeeps == WalkInv /\ NextBlock => WalkInv'
<1>. SUFFICES ASSUME WalkInv, NextBlock PROVE WalkInv'
  OBVIOUS
<1>1. /\ phase = "done" /\ phase' = "idle" /\ word' = <<>> /\ stream' = <<>> /\ krt' = 0
      /\ vals' = <<>> /\ work' = work /\ mem' = [x \in Cells |-> Garbage]
  BY DEF NextBlock
<1>2. work = <<>>
  BY <1>1 DEF WalkInv, Finished, DoneOf
<1>3. DOMAIN mem' = Cells
  BY <1>1
<1>4. QED
  BY <1>1, <1>2, <1>3 DEF WalkInv, Shaped, Idling, Given, Encoding, Sending, Decoding, Finished

\* FinishDecode preserves the invariant.
LEMMA FinishDecodeKeeps == WalkInv /\ FinishDecode => WalkInv'
<1>. SUFFICES ASSUME WalkInv, FinishDecode PROVE WalkInv'
  OBVIOUS
<1>1. PICK t, w, k, mk, q, v : /\ t = table /\ w = word /\ k = krt /\ mk = markers /\ q = stream
                               /\ v = vals
  OBVIOUS
<1>2. /\ phase = "decode" /\ work = <<>> /\ phase' = "done"
      /\ table' = t /\ word' = w /\ work' = work /\ mem' = mem /\ stream' = q /\ krt' = k
      /\ vals' = v
  BY <1>1 DEF FinishDecode
<1>3. InUse(t, w) /\ DecodingOf(t, w, mk, k, q, <<>>, v) /\ DOMAIN mem = Cells
  BY <1>1, <1>2 DEF WalkInv, Given, Decoding, Shaped
<1>4. k \in {0, KrT(t.krtCode)} /\ q \in Seq(Records(t)) /\ Decoded(t, w, k, mk, q, <<>>, v)
  BY <1>3 DEF DecodingOf
<1>5. q = <<>> /\ v = <<w>>
  BY <1>4, DecodedEnds
<1>6. DoneOf(t, w, krt', stream', work', vals')
  BY <1>2, <1>4, <1>5 DEF DoneOf
<1>7. Finished' /\ Given'
  BY <1>2, <1>3, <1>6 DEF Finished, Given
<1>8. Shaped' /\ Idling' /\ Encoding' /\ Sending' /\ Decoding'
  BY <1>2, <1>3 DEF Shaped, Idling, Encoding, Sending, Decoding
<1>9. QED
  BY <1>7, <1>8 DEF WalkInv

\* What a decoding step has to show.
LEMMA DecodeStays ==
  ASSUME WalkInv, phase = "decode", phase' = "decode",
         NEW t, t = table, NEW w, w = word, NEW k, k = krt, NEW mk, mk = markers,
         table' = t, word' = w, krt' = k, markers' = mk, mem' = mem,
         NEW q \in Seq(Records(t)), stream' = q,
         NEW p \in Seq(DecodeCalls(t.sched, w, k)), work' = p,
         NEW v, vals' = v, Decoded(t, w, k, mk, q, p, v)
  PROVE  WalkInv'
<1>1. /\ InUse(t, w) /\ DecodingOf(t, w, mk, k, stream, work, vals) /\ DOMAIN mem = Cells
  BY DEF WalkInv, Given, Decoding, Shaped
<1>2. DecodingOf(t, w, mk, k, q, p, v)
  BY <1>1 DEF DecodingOf
<1>3. Decoding' /\ Given'
  BY <1>1, <1>2 DEF Decoding, Given
<1>4. Shaped' /\ Idling' /\ Encoding' /\ Sending' /\ Finished'
  BY <1>1 DEF Shaped, Idling, Encoding, Sending, Finished
<1>5. QED
  BY <1>3, <1>4 DEF WalkInv

\* What the decode walk has when it takes its next call.
LEMMA DecodeHead ==
  ASSUME WalkInv, phase = "decode", work # <<>>,
         NEW t, t = table, NEW w, w = word, NEW s, s = t.sched, NEW c, c = Head(work),
         NEW k, k = krt, NEW mk, mk = markers, NEW q, q = stream, NEW p, p = work,
         NEW v, v = vals
  PROVE  /\ SchedOK(s) /\ w \in Seq(Ranks) /\ Marked(s, mk) /\ q \in Seq(Records(t))
         /\ p \in Seq(DecodeCalls(s, w, k)) /\ p # <<>> /\ c = Head(p)
         /\ Tail(p) \in Seq(DecodeCalls(s, w, k))
         /\ Decoded(t, w, k, mk, q, p, v)
         /\ c.op = "subtree" => c \in SubtreeCalls(s, w)
         /\ c.op = "merge" => c \in MergeCalls(s, w, k)
         /\ c.op \in {"subtree", "merge"} /\ c.rec \in DOMAIN s
<1>1. DecodingOf(t, w, mk, k, q, p, v) /\ InUse(t, w)
  BY DEF WalkInv, Decoding, Given
<1>2. SchedOK(s) /\ w \in Seq(Ranks)
  BY <1>1, InUseFacts
<1>3. /\ Marked(s, mk) /\ q \in Seq(Records(t)) /\ p \in Seq(DecodeCalls(s, w, k))
      /\ Decoded(t, w, k, mk, q, p, v)
  BY <1>1 DEF DecodingOf
<1>4. c \in DecodeCalls(s, w, k) /\ Tail(p) \in Seq(DecodeCalls(s, w, k))
  BY <1>3, TailElement
<1>5. /\ c.op = "subtree" => c \in SubtreeCalls(s, w)
      /\ c.op = "merge" => c \in MergeCalls(s, w, k)
      /\ c.op \in {"subtree", "merge"} /\ c.rec \in DOMAIN s
  BY <1>4 DEF DecodeCalls, SubtreeCalls, MergeCalls
<1>6. QED
  BY <1>2, <1>3, <1>4, <1>5

\* The decoder finds in the stream what it derives.
LEMMA FindsBitmap ==
  ASSUME NEW t, NEW s, s = t.sched, SchedOK(s), NEW w \in Seq(Ranks), Marked(s, markers),
         NEW c, c.rec \in DOMAIN s, s[c.rec].kind # "FLAT", c.K = Len(Below(s, w, c.rec)),
         stream # <<>>, Written(t, w, markers, Head(stream), Tag("bitmap", c.rec))
  PROVE  ReadsBitmap(c) /\ ReadBitmap(c) = BitsOf(s, w, c.rec)
<1>1. PICK x, mk : x = Head(stream) /\ mk = markers
  OBVIOUS
<1>2. mk[c.rec] \in Markers
  BY <1>1 DEF Marked
<1>3. Written(t, w, mk, x, Tag("bitmap", c.rec))
  BY <1>1
<1>4. /\ x.type = "bitmap" /\ Len(x.bits) = Len(Below(s, w, c.rec))
      /\ x.coded = (mk[c.rec] # Raw) /\ XorIf(mk[c.rec].xor, x.bits) = BitsOf(s, w, c.rec)
  BY <1>2, <1>3, BitmapRead
<1>5. QED
  BY <1>1, <1>4 DEF ReadsBitmap, ReadBitmap

\* The same of a K_right header.
LEMMA FindsHeader ==
  ASSUME NEW t, NEW s, s = t.sched, NEW w \in Seq(Ranks), NEW mk,
         NEW c, c.rec \in DOMAIN s, c.K = Len(Below(s, w, c.rec)),
         stream # <<>>, Written(t, w, mk, Head(stream), Tag("K_right", c.rec))
  PROVE  ReadsKr(c) /\ Head(stream).k = RightLen(s, w, c.rec)
<1>1. PICK x : x = Head(stream)
  OBVIOUS
<1>2. Written(t, w, mk, x, Tag("K_right", c.rec))
  BY <1>1
<1>3. /\ x.type = "K_right" /\ x.k = RightLen(s, w, c.rec)
      /\ x.k \in 0 .. Len(Below(s, w, c.rec))
  BY <1>2, HeaderRead
<1>4. QED
  BY <1>1, <1>3 DEF ReadsKr

\* The same of a flat region.
LEMMA FindsRegion ==
  ASSUME NEW t, t = table, NEW s, s = t.sched, NEW w \in Seq(Ranks), NEW mk,
         NEW c, c.rec \in DOMAIN s, s[c.rec].param \in Ranks, c.K = Len(Below(s, w, c.rec)),
         stream # <<>>, Written(t, w, mk, Head(stream), Tag("flat", c.rec))
  PROVE  /\ ReadsFlat(c) /\ UnpackLayout(Head(stream)) = Head(stream).layout
         /\ Unpacked(c.K, s[c.rec].param, Head(stream)) = Below(s, w, c.rec)
<1>1. PICK x : x = Head(stream)
  OBVIOUS
<1>2. Written(t, w, mk, x, Tag("flat", c.rec))
  BY <1>1
<1>3. /\ x.type = "flat" /\ Len(x.codes) = Len(Below(s, w, c.rec))
      /\ (IF x.coded THEN Natural ELSE t.layout) = x.layout
      /\ Unpacked(Len(Below(s, w, c.rec)), s[c.rec].param, x) = Below(s, w, c.rec)
  BY <1>2, RegionRead
<1>4. QED
  BY <1>1, <1>3 DEF ReadsFlat, UnpackLayout

\* The next call of the decode walk finds its record at the head of the stream.
LEMMA WalkReads ==
  ASSUME WalkInv, phase = "decode", work # <<>>
  PROVE  Reads(Head(work))
<1>1. PICK t, w, s, c, k, mk, q, p, v :
        /\ t = table /\ w = word /\ s = t.sched /\ c = Head(work) /\ k = krt /\ mk = markers
        /\ q = stream /\ p = work /\ v = vals
  OBVIOUS
<1>2. /\ SchedOK(s) /\ w \in Seq(Ranks) /\ Marked(s, mk) /\ q \in Seq(Records(t))
      /\ p \in Seq(DecodeCalls(s, w, k)) /\ p # <<>> /\ c = Head(p)
      /\ Decoded(t, w, k, mk, q, p, v)
      /\ c.op = "subtree" => c \in SubtreeCalls(s, w)
      /\ c.op = "merge" => c \in MergeCalls(s, w, k)
      /\ c.op \in {"subtree", "merge"} /\ c.rec \in DOMAIN s
  BY <1>1, DecodeHead
<1>3. CASE c.op = "merge"
  <2>1. /\ c \in MergeCalls(s, w, k) /\ c.K = Len(Below(s, w, c.rec))
        /\ s[c.rec].kind # "FLAT"
    BY <1>2, <1>3 DEF MergeCalls, Inner
  <2>2. c.early = <<>> => q # <<>> /\ Written(t, w, mk, Head(q), Tag("bitmap", c.rec))
    <3>1. \E rest \in Seq(Seq(Ranks)) : MergeTakes(t, s, w, k, mk, q, p, v, c, rest)
      BY <1>1, <1>2, <2>1, DecodedMerge
    <3>2. QED
      BY <3>1 DEF MergeTakes
  <2>3. c.early = <<>> => ReadsBitmap(c)
    BY <1>1, <1>2, <2>1, <2>2, FindsBitmap
  <2>4. QED
    BY <1>1, <1>3, <2>3 DEF Reads
<1>4. CASE c.op = "subtree" /\ c.K = 0
  BY <1>1, <1>4 DEF Reads
<1>5. CASE c.op = "subtree" /\ c.K # 0
  <2>1. /\ c \in SubtreeCalls(s, w) /\ c.K > 0 /\ c.K = Len(Below(s, w, c.rec))
        /\ s[c.rec].kind \in {"FLAT", "BOTH_LEAVES", "LEAF_LEFT", "FULL"}
        /\ s[c.rec].param \in Ranks
    BY <1>2, <1>5 DEF SubtreeCalls, SchedOK, Preorder
  <2>2. CASE s[c.rec].kind = "FLAT"
    <3>1. q # <<>> /\ Written(t, w, mk, Head(q), Tag("flat", c.rec))
      <4>1. ~Inner(s[c.rec])
        BY <2>2 DEF Inner
      <4>2. PICK g : g = LeafTag(s, c.rec)
        OBVIOUS
      <4>3. /\ s = t.sched /\ SchedOK(s) /\ w \in Seq(Ranks) /\ q \in Seq(Records(t))
            /\ p \in Seq(DecodeCalls(s, w, k)) /\ p # <<>> /\ Decoded(t, w, k, mk, q, p, v)
            /\ c \in SubtreeCalls(s, w) /\ c = Head(p) /\ c.K > 0
        BY <1>1, <1>2, <2>1
      <4>4. q # <<>> /\ Written(t, w, mk, Head(q), Tag(g, c.rec))
        BY <4>1, <4>2, <4>3, DecodedLeaf
      <4>5. QED
        BY <2>2, <4>2, <4>4 DEF LeafTag
    <3>2. ReadsFlat(c)
      BY <1>1, <1>2, <2>1, <3>1, FindsRegion
    <3>3. QED
      BY <1>1, <1>5, <2>2, <3>2 DEF Reads, sched
  <2>3. CASE s[c.rec].kind = "BOTH_LEAVES"
    <3>1. q # <<>> /\ Written(t, w, mk, Head(q), Tag("bitmap", c.rec))
      <4>1. ~Inner(s[c.rec])
        BY <2>3 DEF Inner
      <4>2. PICK g : g = LeafTag(s, c.rec)
        OBVIOUS
      <4>3. /\ s = t.sched /\ SchedOK(s) /\ w \in Seq(Ranks) /\ q \in Seq(Records(t))
            /\ p \in Seq(DecodeCalls(s, w, k)) /\ p # <<>> /\ Decoded(t, w, k, mk, q, p, v)
            /\ c \in SubtreeCalls(s, w) /\ c = Head(p) /\ c.K > 0
        BY <1>1, <1>2, <2>1
      <4>4. q # <<>> /\ Written(t, w, mk, Head(q), Tag(g, c.rec))
        BY <4>1, <4>2, <4>3, DecodedLeaf
      <4>5. QED
        BY <2>3, <4>2, <4>4 DEF LeafTag
    <3>2. ReadsBitmap(c)
      BY <1>1, <1>2, <2>1, <2>3, <3>1, FindsBitmap
    <3>3. QED
      BY <1>1, <1>5, <2>3, <3>2 DEF Reads, sched
  <2>4. CASE Inner(s[c.rec])
    <3>1. q # <<>> /\ Written(t, w, mk, Head(q), FirstTag(s, w, k, c.rec))
      BY <1>1, <1>2, <2>1, <2>4, DecodedInner
    <3>2. s[c.rec].kind \in {"LEAF_LEFT", "FULL"}
      BY <2>4 DEF Inner
    <3>3. CASE BitmapGoesFirst(c.K)
      <4>1. FirstTag(s, w, k, c.rec) = Tag("bitmap", c.rec)
        BY <1>1, <2>1, <3>3 DEF FirstTag, BitmapGoesFirst
      <4>2. ReadsBitmap(c)
        BY <1>1, <1>2, <2>1, <3>1, <3>2, <4>1, FindsBitmap
      <4>3. QED
        BY <1>1, <1>5, <3>2, <3>3, <4>2 DEF Reads, sched
    <3>4. CASE ~BitmapGoesFirst(c.K)
      <4>1. FirstTag(s, w, k, c.rec) = Tag("K_right", c.rec)
        BY <1>1, <2>1, <3>4 DEF FirstTag, BitmapGoesFirst
      <4>2. stream # <<>> /\ Written(t, w, mk, Head(stream), Tag("K_right", c.rec))
        BY <1>1, <3>1, <4>1
      <4>4. ReadsKr(c)
        BY <1>1, <1>2, <2>1, <4>2, FindsHeader
      <4>3. QED
        BY <1>1, <1>5, <3>2, <3>4, <4>4 DEF Reads, sched
    <3>5. QED
      BY <3>3, <3>4
  <2>5. QED
    BY <2>1, <2>2, <2>3, <2>4 DEF Inner
<1>6. QED
  BY <1>2, <1>3, <1>4, <1>5

\* DecodeEmpty preserves the invariant.
LEMMA DecodeEmptyKeeps == WalkInv /\ DecodeEmpty => WalkInv'
<1>. SUFFICES ASSUME WalkInv, DecodeEmpty PROVE WalkInv'
  OBVIOUS
<1>1. PICK t, w, s, c, k, mk, q, p, v :
        /\ t = table /\ w = word /\ s = t.sched /\ c = Head(work) /\ k = krt /\ mk = markers
        /\ q = stream /\ p = work /\ v = vals
  OBVIOUS
<1>2. /\ phase = "decode" /\ phase' = "decode" /\ work # <<>> /\ c.op = "subtree" /\ c.K = 0
      /\ work' = Tail(p) /\ vals' = <<(<<>>)>> \o v /\ stream' = q
      /\ table' = t /\ word' = w /\ krt' = k /\ markers' = mk /\ mem' = mem
  BY <1>1 DEF DecodeEmpty, Running
<1>3. /\ SchedOK(s) /\ w \in Seq(Ranks) /\ q \in Seq(Records(t))
      /\ p \in Seq(DecodeCalls(s, w, k)) /\ p # <<>> /\ c = Head(p)
      /\ Tail(p) \in Seq(DecodeCalls(s, w, k))
      /\ Decoded(t, w, k, mk, q, p, v) /\ c \in SubtreeCalls(s, w)
  BY <1>1, <1>2, DecodeHead
<1>4. PICK v2 : v2 = <<(<<>>)>> \o v
  OBVIOUS
<1>5. Decoded(t, w, k, mk, q, Tail(p), v2)
  BY <1>1, <1>2, <1>3, <1>4, DecodedEmpty
<1>6. QED
  BY <1>1, <1>2, <1>3, <1>4, <1>5, DecodeStays

LeafTakes(t, s, w, k, mk, q, p, v, c, g) ==
  /\ q # <<>> /\ Written(t, w, mk, Head(q), Tag(g, c.rec))
  /\ Decoded(t, w, k, mk, Tail(q), Tail(p), <<Below(s, w, c.rec)>> \o v)
  /\ c.K = Len(Below(s, w, c.rec)) /\ c.rec \in DOMAIN s /\ s[c.rec].param \in Ranks

\* What a leaf's record is: the whole part of the block below it.
LEMMA LeafTaken ==
  ASSUME NEW t, NEW s, s = t.sched, SchedOK(s), NEW w \in Seq(Ranks), NEW k, NEW mk,
         NEW q \in Seq(Records(t)),
         NEW p \in Seq(DecodeCalls(s, w, k)), p # <<>>, NEW v, Decoded(t, w, k, mk, q, p, v),
         NEW c \in SubtreeCalls(s, w), c = Head(p), c.K > 0, ~Inner(s[c.rec]),
         NEW g, g = LeafTag(s, c.rec)
  PROVE  LeafTakes(t, s, w, k, mk, q, p, v, c, g)
<1>1. /\ q # <<>> /\ Written(t, w, mk, Head(q), Tag(g, c.rec))
      /\ Decoded(t, w, k, mk, Tail(q), Tail(p), <<Below(s, w, c.rec)>> \o v)
  BY DecodedLeaf
<1>3. c.K = Len(Below(s, w, c.rec)) /\ c.rec \in DOMAIN s /\ s[c.rec].param \in Ranks
  BY DEF SubtreeCalls, SchedOK, Preorder
<1>4. QED
  BY <1>1, <1>3 DEF LeafTakes

\* DecodeFlat preserves the invariant.
LEMMA DecodeFlatKeeps == WalkInv /\ DecodeFlat => WalkInv'
<1>. SUFFICES ASSUME WalkInv, DecodeFlat PROVE WalkInv'
  OBVIOUS
<1>1. PICK t, w, s, c, k, mk, q, p, v :
        /\ t = table /\ w = word /\ s = t.sched /\ c = Head(work) /\ k = krt /\ mk = markers
        /\ q = stream /\ p = work /\ v = vals
  OBVIOUS
<1>2. PICK z : z = [i \in 1 .. c.K |->
                      IF UnpackLayout(Head(q)) = Head(q).layout
                      THEN s[c.rec].param + Head(q).codes[i] ELSE Garbage]
  OBVIOUS
<1>3. /\ phase = "decode" /\ phase' = "decode" /\ work # <<>> /\ c.op = "subtree" /\ c.K > 0
      /\ s[c.rec].kind = "FLAT"
      /\ work' = Tail(p) /\ vals' = <<z>> \o v /\ stream' = Tail(q)
      /\ table' = t /\ word' = w /\ krt' = k /\ markers' = mk /\ mem' = mem
  BY <1>1, <1>2, Zenon DEF DecodeFlat, AtSubtree, Running, sched
<1>4. /\ SchedOK(s) /\ w \in Seq(Ranks) /\ q \in Seq(Records(t))
      /\ p \in Seq(DecodeCalls(s, w, k)) /\ p # <<>> /\ c = Head(p)
      /\ Tail(p) \in Seq(DecodeCalls(s, w, k))
      /\ Decoded(t, w, k, mk, q, p, v) /\ c \in SubtreeCalls(s, w)
  BY <1>1, <1>3, DecodeHead
<1>5. ~Inner(s[c.rec]) /\ LeafTag(s, c.rec) = "flat"
  BY <1>3 DEF Inner, LeafTag
<1>6. PICK g : g = LeafTag(s, c.rec)
  OBVIOUS
<1>7. /\ q # <<>> /\ Written(t, w, mk, Head(q), Tag(g, c.rec))
      /\ Tail(q) \in Seq(Records(t))
      /\ Decoded(t, w, k, mk, Tail(q), Tail(p), <<Below(s, w, c.rec)>> \o v)
      /\ c.K = Len(Below(s, w, c.rec)) /\ c.rec \in DOMAIN s /\ s[c.rec].param \in Ranks
  <2>1. s = t.sched /\ c.K > 0
    BY <1>1, <1>3
  <2>2. LeafTakes(t, s, w, k, mk, q, p, v, c, g)
    BY <1>4, <1>5, <1>6, <2>1, LeafTaken
  <2>3. Tail(q) \in Seq(Records(t))
    BY <1>4, <2>2, TailElement DEF LeafTakes
  <2>4. QED
    BY <2>2, <2>3 DEF LeafTakes
<1>8. z = Below(s, w, c.rec)
  <2>1. stream # <<>> /\ Written(t, w, mk, Head(stream), Tag("flat", c.rec))
    BY <1>1, <1>5, <1>6, <1>7
  <2>2. /\ UnpackLayout(Head(stream)) = Head(stream).layout
        /\ Unpacked(c.K, s[c.rec].param, Head(stream)) = Below(s, w, c.rec)
    <3>1. /\ t = table /\ s = t.sched /\ w \in Seq(Ranks) /\ c.rec \in DOMAIN s
          /\ s[c.rec].param \in Ranks /\ c.K = Len(Below(s, w, c.rec))
      BY <1>1, <1>4, <1>7
    <3>2. QED
      BY <2>1, <3>1, FindsRegion
  <2>3. z = [i \in 1 .. c.K |-> s[c.rec].param + Head(q).codes[i]]
    BY <1>1, <1>2, <2>2
  <2>4. QED
    BY <1>1, <2>2, <2>3 DEF Unpacked
<1>9. PICK q2, p2, v2 : q2 = Tail(q) /\ p2 = Tail(p) /\ v2 = <<z>> \o v
  OBVIOUS
<1>10. Decoded(t, w, k, mk, q2, p2, v2)
  BY <1>7, <1>8, <1>9
<1>11. QED
  BY <1>1, <1>3, <1>4, <1>7, <1>9, <1>10, DecodeStays

\* DecodeBothLeaves preserves the invariant.
LEMMA DecodeBothLeavesKeeps == WalkInv /\ DecodeBothLeaves => WalkInv'
<1>. SUFFICES ASSUME WalkInv, DecodeBothLeaves PROVE WalkInv'
  OBVIOUS
<1>1. PICK t, w, s, c, k, mk, q, p, v :
        /\ t = table /\ w = word /\ s = t.sched /\ c = Head(work) /\ k = krt /\ mk = markers
        /\ q = stream /\ p = work /\ v = vals
  OBVIOUS
<1>0. PICK bm : bm = ReadBitmap(c)
  OBVIOUS
<1>2. PICK z : z = [i \in 1 .. c.K |-> s[c.rec].param + (IF bm[i] THEN 1 ELSE 0)]
  OBVIOUS
<1>3. /\ phase = "decode" /\ phase' = "decode" /\ work # <<>> /\ c.op = "subtree" /\ c.K > 0
      /\ s[c.rec].kind = "BOTH_LEAVES"
      /\ work' = Tail(p) /\ vals' = <<z>> \o v /\ stream' = Tail(q)
      /\ table' = t /\ word' = w /\ krt' = k /\ markers' = mk /\ mem' = mem
  BY <1>0, <1>1, <1>2, Zenon DEF DecodeBothLeaves, AtSubtree, Running, sched
<1>4. /\ SchedOK(s) /\ w \in Seq(Ranks) /\ q \in Seq(Records(t)) /\ Marked(s, mk)
      /\ p \in Seq(DecodeCalls(s, w, k)) /\ p # <<>> /\ c = Head(p)
      /\ Tail(p) \in Seq(DecodeCalls(s, w, k))
      /\ Decoded(t, w, k, mk, q, p, v) /\ c \in SubtreeCalls(s, w)
  BY <1>1, <1>3, DecodeHead
<1>5. ~Inner(s[c.rec]) /\ LeafTag(s, c.rec) = "bitmap"
  BY <1>3 DEF Inner, LeafTag
<1>6. PICK g : g = LeafTag(s, c.rec)
  OBVIOUS
<1>7. /\ q # <<>> /\ Written(t, w, mk, Head(q), Tag(g, c.rec))
      /\ Tail(q) \in Seq(Records(t))
      /\ Decoded(t, w, k, mk, Tail(q), Tail(p), <<Below(s, w, c.rec)>> \o v)
      /\ c.K = Len(Below(s, w, c.rec)) /\ c.rec \in DOMAIN s /\ s[c.rec].param \in Ranks
  <2>1. s = t.sched /\ c.K > 0
    BY <1>1, <1>3
  <2>2. LeafTakes(t, s, w, k, mk, q, p, v, c, g)
    BY <1>4, <1>5, <1>6, <2>1, LeafTaken
  <2>3. Tail(q) \in Seq(Records(t))
    BY <1>4, <2>2, TailElement DEF LeafTakes
  <2>4. QED
    BY <2>2, <2>3 DEF LeafTakes
<1>8. z = Below(s, w, c.rec)
  <2>1. stream # <<>> /\ Written(t, w, markers, Head(stream), Tag("bitmap", c.rec))
    BY <1>1, <1>5, <1>6, <1>7
  <2>2. Marked(s, markers) /\ s[c.rec].kind # "FLAT" /\ s = t.sched
    BY <1>1, <1>3, <1>4
  <2>3. bm = BitsOf(s, w, c.rec)
    <3>1. /\ SchedOK(s) /\ w \in Seq(Ranks) /\ c.rec \in DOMAIN s
          /\ c.K = Len(Below(s, w, c.rec))
      BY <1>1, <1>4, <1>7
    <3>2. ReadBitmap(c) = BitsOf(s, w, c.rec)
      BY <2>1, <2>2, <3>1, FindsBitmap
    <3>3. QED
      BY <1>0, <3>2
  <2>4. PICK n : n = Len(Below(s, w, c.rec))
    OBVIOUS
  <2>5. [i \in 1 .. n |-> s[c.rec].param + (IF BitsOf(s, w, c.rec)[i] THEN 1 ELSE 0)]
          = Below(s, w, c.rec)
    BY <1>3, <1>4, <1>7, <2>4, PairDecoded, ZenonT(40)
  <2>6. QED
    BY <1>2, <1>7, <2>3, <2>4, <2>5
<1>9. PICK q2, p2, v2 : q2 = Tail(q) /\ p2 = Tail(p) /\ v2 = <<z>> \o v
  OBVIOUS
<1>10. Decoded(t, w, k, mk, q2, p2, v2)
  BY <1>7, <1>8, <1>9
<1>11. QED
  BY <1>1, <1>3, <1>4, <1>7, <1>9, <1>10, DecodeStays

\* An inner node's step, as the constant-level operators of the lemmas see it.
LEMMA DecodeInnerIs ==
  ASSUME NEW s, s = table.sched, SchedOK(s), NEW w \in Seq(Ranks), NEW k, k = krt,
         NEW c \in SubtreeCalls(s, w), c = Head(work), c.K > 0, Inner(s[c.rec]),
         BitmapGoesFirst(c.K) => ReadBitmap(c) = BitsOf(s, w, c.rec),
         ~BitmapGoesFirst(c.K) => Head(stream).k = RightLen(s, w, c.rec),
         DecodeInner
  PROVE  work' = Opened(s, w, k, c.rec) \o Tail(work)
<1>1. /\ c.rec \in DOMAIN s /\ c.K = Len(Below(s, w, c.rec)) /\ s[c.rec].param \in Ranks
      /\ s[c.rec].kind \in {"LEAF_LEFT", "FULL"}
  BY DEF SubtreeCalls, SchedOK, Preorder, Inner
<1>2. PICK early : early = IF BitmapGoesFirst(c.K) THEN ReadBitmap(c) ELSE <<>>
  OBVIOUS
<1>3. PICK kr : kr = IF BitmapGoesFirst(c.K) THEN Ones(early) ELSE Head(stream).k
  OBVIOUS
<1>4. PICK leftCall, rightCall : /\ leftCall = <<SubtreeCall(c.rec + 1, c.K - kr)>>
                                 /\ rightCall = <<SubtreeCall(RightRec(c.rec), kr)>>
  OBVIOUS
<1>5. PICK rightFirst :
        rightFirst = (s[c.rec].kind = "LEAF_LEFT" \/ DecodeRightFirst(kr, c.K - kr))
  OBVIOUS
<1>6. PICK children :
        children = IF s[c.rec].kind = "LEAF_LEFT" THEN rightCall
                   ELSE IF rightFirst THEN rightCall \o leftCall
                   ELSE leftCall \o rightCall
  OBVIOUS
<1>7. PICK merge : merge = [op |-> "merge", rec |-> c.rec, K |-> c.K, early |-> early,
                            rightFirst |-> rightFirst]
  OBVIOUS
<1>8. work' = (children \o <<merge>>) \o Tail(work)
  BY <1>2, <1>3, <1>4, <1>5, <1>6, <1>7, Zenon DEF DecodeInner, sched
<1>9. early = EarlyBits(s, w, k, c.rec)
  BY <1>1, <1>2 DEF EarlyBits, BitmapGoesFirst
<1>10. kr = RightLen(s, w, c.rec)
  <2>1. CASE BitmapGoesFirst(c.K)
    <3>1. Ones(BitsOf(s, w, c.rec)) = RightLen(s, w, c.rec)
      BY <1>1, BitsCount DEF RightLen
    <3>2. QED
      BY <1>2, <1>3, <2>1, <3>1
  <2>2. CASE ~BitmapGoesFirst(c.K)
    BY <1>3, <2>2
  <2>3. QED
    BY <2>1, <2>2
<1>11. rightFirst = RightFirst(s, w, c.rec)
  BY <1>1, <1>5, <1>10 DEF RightFirst
<1>12. leftCall = <<LeftPart(s, w, c.rec)>> /\ rightCall = <<RightPart(s, w, c.rec)>>
  BY <1>1, <1>4, <1>10 DEF LeftPart, RightPart, RightRec, sched
<1>13. children = Parts(s, w, c.rec)
  BY <1>6, <1>11, <1>12, Zenon DEF Parts
<1>14. merge = OwnMerge(s, w, k, c.rec)
  BY <1>1, <1>7, <1>9, <1>11 DEF OwnMerge
<1>15. QED
  BY <1>8, <1>13, <1>14, Zenon DEF Opened

InnerTakes(t, s, w, k, mk, q, p, v, c) ==
  /\ q # <<>> /\ Written(t, w, mk, Head(q), FirstTag(s, w, k, c.rec))
  /\ Opened(s, w, k, c.rec) \o Tail(p) \in Seq(DecodeCalls(s, w, k))
  /\ Decoded(t, w, k, mk, Tail(q), Opened(s, w, k, c.rec) \o Tail(p), v)
  /\ c.K = Len(Below(s, w, c.rec)) /\ c.rec \in DOMAIN s

\* What an inner node's first record is, with its facts in one name.
LEMMA InnerTaken ==
  ASSUME NEW t, NEW s, s = t.sched, SchedOK(s), NEW w \in Seq(Ranks), NEW k, NEW mk,
         NEW q \in Seq(Records(t)),
         NEW p \in Seq(DecodeCalls(s, w, k)), p # <<>>,
         NEW v, Decoded(t, w, k, mk, q, p, v),
         NEW c \in SubtreeCalls(s, w), c = Head(p), c.K > 0, Inner(s[c.rec])
  PROVE  InnerTakes(t, s, w, k, mk, q, p, v, c)
<1>1. c.K = Len(Below(s, w, c.rec)) /\ c.rec \in DOMAIN s
  BY DEF SubtreeCalls
<1>2. QED
  BY <1>1, DecodedInner DEF InnerTakes

\* DecodeInner preserves the invariant.
LEMMA DecodeInnerKeeps == WalkInv /\ DecodeInner => WalkInv'
<1>. SUFFICES ASSUME WalkInv, DecodeInner PROVE WalkInv'
  OBVIOUS
<1>1. PICK t, w, s, c, k, mk, q, p, v :
        /\ t = table /\ w = word /\ s = t.sched /\ c = Head(work) /\ k = krt /\ mk = markers
        /\ q = stream /\ p = work /\ v = vals
  OBVIOUS
<1>2. /\ phase = "decode" /\ phase' = "decode" /\ work # <<>> /\ c.op = "subtree" /\ c.K > 0
      /\ s[c.rec].kind \in {"LEAF_LEFT", "FULL"} /\ stream' = Tail(q)
      /\ table' = t /\ word' = w /\ krt' = k /\ markers' = mk /\ mem' = mem /\ vals' = v
  BY <1>1, Zenon DEF DecodeInner, AtSubtree, Running, sched
<1>3. /\ SchedOK(s) /\ w \in Seq(Ranks) /\ q \in Seq(Records(t)) /\ Marked(s, mk)
      /\ p \in Seq(DecodeCalls(s, w, k)) /\ p # <<>> /\ c = Head(p)
      /\ Decoded(t, w, k, mk, q, p, v) /\ c \in SubtreeCalls(s, w)
  BY <1>1, <1>2, DecodeHead
<1>4. Inner(s[c.rec]) /\ s[c.rec].kind # "FLAT"
  BY <1>2 DEF Inner
<1>5. InnerTakes(t, s, w, k, mk, q, p, v, c)
  <2>1. s = t.sched /\ c.K > 0
    BY <1>1, <1>2
  <2>2. QED
    BY <1>3, <1>4, <2>1, InnerTaken
<1>6. Tail(q) \in Seq(Records(t))
  BY <1>3, <1>5, TailElement DEF InnerTakes
<1>7. BitmapGoesFirst(c.K) => ReadBitmap(c) = BitsOf(s, w, c.rec)
  <2>1. SUFFICES ASSUME BitmapGoesFirst(c.K) PROVE ReadBitmap(c) = BitsOf(s, w, c.rec)
    OBVIOUS
  <2>2. FirstTag(s, w, k, c.rec) = Tag("bitmap", c.rec)
    BY <1>1, <1>5, <2>1 DEF FirstTag, BitmapGoesFirst, InnerTakes
  <2>3. stream # <<>> /\ Written(t, w, markers, Head(stream), Tag("bitmap", c.rec))
    BY <1>1, <1>5, <2>2 DEF InnerTakes
  <2>4. /\ s = t.sched /\ Marked(s, markers) /\ c.rec \in DOMAIN s
        /\ c.K = Len(Below(s, w, c.rec))
    BY <1>1, <1>3, <1>5 DEF InnerTakes
  <2>5. QED
    BY <1>3, <1>4, <2>3, <2>4, FindsBitmap
<1>8. ~BitmapGoesFirst(c.K) => Head(stream).k = RightLen(s, w, c.rec)
  <2>1. SUFFICES ASSUME ~BitmapGoesFirst(c.K) PROVE Head(stream).k = RightLen(s, w, c.rec)
    OBVIOUS
  <2>2. FirstTag(s, w, k, c.rec) = Tag("K_right", c.rec)
    BY <1>1, <1>5, <2>1 DEF FirstTag, BitmapGoesFirst, InnerTakes
  <2>3. stream # <<>> /\ Written(t, w, mk, Head(stream), Tag("K_right", c.rec))
    BY <1>1, <1>5, <2>2 DEF InnerTakes
  <2>4. s = t.sched /\ c.rec \in DOMAIN s /\ c.K = Len(Below(s, w, c.rec))
    BY <1>1, <1>5 DEF InnerTakes
  <2>5. w \in Seq(Ranks)
    BY <1>3
  <2>6. PICK x : x = Head(stream)
    OBVIOUS
  <2>7. Written(t, w, mk, x, Tag("K_right", c.rec))
    BY <2>3, <2>6
  <2>8. x.k = RightLen(s, w, c.rec)
    BY <2>4, <2>5, <2>7, HeaderRead
  <2>9. QED
    BY <2>6, <2>8
<1>9. work' = Opened(s, w, k, c.rec) \o Tail(p)
  <2>1. s = table.sched /\ k = krt /\ c = Head(work) /\ c.K > 0
    BY <1>1, <1>2
  <2>2. work' = Opened(s, w, k, c.rec) \o Tail(work)
    BY <1>3, <1>4, <1>7, <1>8, <2>1, DecodeInnerIs
  <2>3. QED
    BY <1>1, <2>2
<1>10. PICK q2, p2 : q2 = Tail(q) /\ p2 = Opened(s, w, k, c.rec) \o Tail(p)
  OBVIOUS
<1>11. /\ q2 \in Seq(Records(t)) /\ p2 \in Seq(DecodeCalls(s, w, k))
       /\ Decoded(t, w, k, mk, q2, p2, v)
  BY <1>5, <1>6, <1>10 DEF InnerTakes
<1>12. QED
  BY <1>1, <1>2, <1>9, <1>10, <1>11, DecodeStays

RightOperand(v, c) == IF c.rightFirst THEN v[2] ELSE v[1]
LeftOperand(v, c)  == IF c.rightFirst THEN v[1] ELSE v[2]
OperandsIn(s, w, c, v, rest) ==
  /\ s[c.rec].kind = "LEAF_LEFT" =>
       v[1] = Below(s, w, RightOf(s, c.rec)) /\ SubSeq(v, 2, Len(v)) = rest
  /\ s[c.rec].kind # "LEAF_LEFT" =>
       /\ SubSeq(v, 3, Len(v)) = rest
       /\ RightOperand(v, c) = Below(s, w, RightOf(s, c.rec))
       /\ LeftOperand(v, c) = Below(s, w, c.rec + 1)

\* What a merge takes off the decoded buffers.
LEMMA OperandsTaken ==
  ASSUME NEW s, NEW w, NEW c,
         NEW rest \in Seq(Seq(Ranks)), NEW v, v = Operands(s, w, c) \o rest
  PROVE  OperandsIn(s, w, c, v, rest)
<1>1. PICK a, b : a = Below(s, w, c.rec + 1) /\ b = Below(s, w, RightOf(s, c.rec))
  OBVIOUS
<1>2. ASSUME s[c.rec].kind = "LEAF_LEFT"
      PROVE  v[1] = b /\ SubSeq(v, 2, Len(v)) = rest
  <2>1. v = <<b>> \o rest
    BY <1>1, <1>2 DEF Operands
  <2>2. v = (<<b>> \o <<>>) \o rest
    <3>1. <<b>> \o <<>> = <<b>>
      OBVIOUS
    <3>2. QED
      BY <2>1, <3>1
  <2>3. v[1] = b /\ SubSeq(v, 2, Len(v)) = rest
    BY <2>2, BlockRead
  <2>4. QED
    BY <2>3
<1>3. ASSUME s[c.rec].kind # "LEAF_LEFT", c.rightFirst
      PROVE  v[1] = a /\ v[2] = b /\ SubSeq(v, 3, Len(v)) = rest
  <2>1. v = (<<a>> \o <<b>>) \o rest
    BY <1>1, <1>3 DEF Operands
  <2>2. v[1] = a /\ v[2] = b /\ SubSeq(v, 3, Len(v)) = rest
    BY <2>1, BlockRead
  <2>3. QED
    BY <2>2
<1>4. ASSUME s[c.rec].kind # "LEAF_LEFT", ~c.rightFirst
      PROVE  v[1] = b /\ v[2] = a /\ SubSeq(v, 3, Len(v)) = rest
  <2>1. v = (<<b>> \o <<a>>) \o rest
    BY <1>1, <1>4 DEF Operands
  <2>2. v[1] = b /\ v[2] = a /\ SubSeq(v, 3, Len(v)) = rest
    BY <2>1, BlockRead
  <2>3. QED
    BY <2>2
<1>5. QED
  BY <1>1, <1>2, <1>3, <1>4 DEF RightOperand, LeftOperand, OperandsIn

RightVec(s, v, c) == IF s[c.rec].kind = "FULL" /\ c.rightFirst THEN v[2] ELSE v[1]
LeftVec(s, v, c) ==
  IF ~(s[c.rec].kind = "FULL") THEN [i \in 1 .. c.K |-> s[c.rec].param]
  ELSE IF c.rightFirst THEN v[1] ELSE v[2]
RestOf(s, v, c) == SubSeq(v, IF s[c.rec].kind = "FULL" THEN 3 ELSE 2, Len(v))

MergeGives(s, w, c, left, right, z, rest) ==
  MergeVecs(BitsOf(s, w, c.rec), left, right) = Below(s, w, c.rec) /\ z = rest

\* The merge of a node's operands is its part of the block.
LEMMA MergedIs ==
  ASSUME NEW s, SchedOK(s), NEW w \in Seq(Ranks), NEW k, NEW c \in MergeCalls(s, w, k),
         NEW rest \in Seq(Seq(Ranks)), NEW v, v = Operands(s, w, c) \o rest,
         NEW right, right = RightVec(s, v, c),
         NEW left, left = LeftVec(s, v, c),
         NEW z, z = RestOf(s, v, c)
  PROVE  MergeGives(s, w, c, left, right, z, rest)
<1>1. /\ c.rec \in DOMAIN s /\ s[c.rec].kind \in {"LEAF_LEFT", "FULL"} /\ c.rightFirst \in BOOLEAN
      /\ c.K = Len(Below(s, w, c.rec))
  BY DEF MergeCalls, Inner
<1>0. OperandsIn(s, w, c, v, rest)
  BY <1>1, OperandsTaken
<1>2. CASE s[c.rec].kind = "LEAF_LEFT"
  <2>1. v[1] = Below(s, w, RightOf(s, c.rec)) /\ SubSeq(v, 2, Len(v)) = rest
    BY <1>0, <1>2 DEF OperandsIn
  <2>2. right = Below(s, w, RightOf(s, c.rec)) /\ z = rest
    BY <1>2, <2>1 DEF RightVec, RestOf
  <2>3. left = [i \in 1 .. Len(Below(s, w, c.rec)) |-> s[c.rec].param]
    BY <1>1, <1>2 DEF LeftVec
  <2>4. MergeVecs(BitsOf(s, w, c.rec), [i \in 1 .. Len(Below(s, w, c.rec)) |-> s[c.rec].param],
                   Below(s, w, RightOf(s, c.rec))) = Below(s, w, c.rec)
    BY <1>1, <1>2, MergeLeaf
  <2>5. QED
    BY <2>2, <2>3, <2>4, Zenon DEF MergeGives
<1>3. CASE s[c.rec].kind = "FULL"
  <2>1. /\ SubSeq(v, 3, Len(v)) = rest
        /\ RightOperand(v, c) = Below(s, w, RightOf(s, c.rec))
        /\ LeftOperand(v, c) = Below(s, w, c.rec + 1)
    BY <1>0, <1>3 DEF OperandsIn
  <2>2. right = Below(s, w, RightOf(s, c.rec)) /\ left = Below(s, w, c.rec + 1) /\ z = rest
    BY <1>3, <2>1 DEF RightVec, LeftVec, RestOf, RightOperand, LeftOperand
  <2>3. QED
    BY <1>1, <1>3, <2>2, MergeFull DEF MergeGives
<1>4. QED
  BY <1>1, <1>2, <1>3

\* What a merge finds, with the facts of its call.
LEMMA MergeTaken ==
  ASSUME NEW t, NEW s, s = t.sched, SchedOK(s), NEW w \in Seq(Ranks), NEW k, NEW mk,
         NEW q \in Seq(Records(t)),
         NEW p \in Seq(DecodeCalls(s, w, k)), p # <<>>,
         NEW v, Decoded(t, w, k, mk, q, p, v),
         NEW c \in MergeCalls(s, w, k), c = Head(p)
  PROVE  /\ \E rest \in Seq(Seq(Ranks)) : MergeTakes(t, s, w, k, mk, q, p, v, c, rest)
         /\ c.rec \in DOMAIN s /\ s[c.rec].kind # "FLAT" /\ c.K = Len(Below(s, w, c.rec))
         /\ c.early # <<>> => c.early = BitsOf(s, w, c.rec)
<1>1. \E rest \in Seq(Seq(Ranks)) : MergeTakes(t, s, w, k, mk, q, p, v, c, rest)
  BY DecodedMerge
<1>2. c.rec \in DOMAIN s /\ s[c.rec].kind # "FLAT" /\ c.K = Len(Below(s, w, c.rec))
  BY DEF MergeCalls, Inner
<1>3. c.early = EarlyBits(s, w, k, c.rec)
  BY DEF MergeCalls
<1>4. QED
  BY <1>1, <1>2, <1>3 DEF EarlyBits

\* MergeChildren preserves the invariant.
LEMMA MergeChildrenKeeps == WalkInv /\ MergeChildren => WalkInv'
<1>. SUFFICES ASSUME WalkInv, MergeChildren PROVE WalkInv'
  OBVIOUS
<1>1. PICK t, w, s, c, k, mk, q, p, v :
        /\ t = table /\ w = word /\ s = t.sched /\ c = Head(work) /\ k = krt /\ mk = markers
        /\ q = stream /\ p = work /\ v = vals
  OBVIOUS
<1>2. PICK bm : bm = IF c.early # <<>> THEN c.early ELSE ReadBitmap(c)
  OBVIOUS
<1>3. PICK right, left :
        /\ right = RightVec(s, v, c)
        /\ left = LeftVec(s, v, c)
  OBVIOUS
<1>4. PICK z : z = RestOf(s, v, c)
  OBVIOUS
<1>5. /\ phase = "decode" /\ phase' = "decode" /\ work # <<>> /\ c.op = "merge"
      /\ work' = Tail(p) /\ vals' = <<MergeVecs(bm, left, right)>> \o z
      /\ stream' = (IF c.early # <<>> THEN q ELSE Tail(q))
      /\ table' = t /\ word' = w /\ krt' = k /\ markers' = mk /\ mem' = mem
  BY <1>1, <1>2, <1>3, <1>4, Zenon DEF MergeChildren, Running, sched, RightVec, LeftVec, RestOf
<1>6. /\ SchedOK(s) /\ w \in Seq(Ranks) /\ q \in Seq(Records(t)) /\ Marked(s, mk)
      /\ p \in Seq(DecodeCalls(s, w, k)) /\ p # <<>> /\ c = Head(p)
      /\ Tail(p) \in Seq(DecodeCalls(s, w, k))
      /\ Decoded(t, w, k, mk, q, p, v) /\ c \in MergeCalls(s, w, k)
  BY <1>1, <1>5, DecodeHead
<1>7. /\ \E rest \in Seq(Seq(Ranks)) : MergeTakes(t, s, w, k, mk, q, p, v, c, rest)
      /\ c.rec \in DOMAIN s /\ s[c.rec].kind # "FLAT" /\ c.K = Len(Below(s, w, c.rec))
      /\ c.early # <<>> => c.early = BitsOf(s, w, c.rec)
  <2>1. s = t.sched
    BY <1>1
  <2>2. QED
    BY <1>6, <2>1, MergeTaken
<1>8. PICK rest \in Seq(Seq(Ranks)) : MergeTakes(t, s, w, k, mk, q, p, v, c, rest)
  BY <1>7
<1>9. v = Operands(s, w, c) \o rest
  BY <1>8 DEF MergeTakes
<1>10. bm = BitsOf(s, w, c.rec)
  <2>1. CASE c.early # <<>>
    BY <1>2, <1>7, <2>1
  <2>2. CASE c.early = <<>>
    <3>1. stream # <<>> /\ Written(t, w, markers, Head(stream), Tag("bitmap", c.rec))
      BY <1>1, <1>8, <2>2 DEF MergeTakes
    <3>2. s = t.sched /\ Marked(s, markers) /\ SchedOK(s) /\ w \in Seq(Ranks)
      BY <1>1, <1>6
    <3>3. ReadBitmap(c) = BitsOf(s, w, c.rec)
      BY <1>7, <3>1, <3>2, FindsBitmap
    <3>4. QED
      BY <1>2, <2>2, <3>3
  <2>3. QED
    BY <2>1, <2>2
<1>11. MergeVecs(bm, left, right) = Below(s, w, c.rec) /\ z = rest
  <2>1. MergeVecs(BitsOf(s, w, c.rec), left, right) = Below(s, w, c.rec) /\ z = rest
    <3>1. /\ SchedOK(s) /\ w \in Seq(Ranks) /\ c \in MergeCalls(s, w, k)
          /\ right = RightVec(s, v, c) /\ left = LeftVec(s, v, c) /\ z = RestOf(s, v, c)
      BY <1>3, <1>4, <1>6
    <3>2. MergeGives(s, w, c, left, right, z, rest)
      BY <1>9, <3>1, MergedIs
    <3>3. QED
      BY <3>2 DEF MergeGives
  <2>2. QED
    BY <1>10, <2>1
<1>12. PICK q2, p2, v2 : /\ q2 = (IF c.early # <<>> THEN q ELSE Tail(q)) /\ p2 = Tail(p)
                         /\ v2 = <<Below(s, w, c.rec)>> \o rest
  OBVIOUS
<1>13. Decoded(t, w, k, mk, q2, p2, v2)
  BY <1>8, <1>12, Zenon DEF MergeTakes
<1>14. q2 \in Seq(Records(t))
  <2>1. CASE c.early # <<>>
    BY <1>6, <1>12, <2>1
  <2>2. CASE c.early = <<>>
    <3>1. q # <<>>
      BY <1>8, <2>2 DEF MergeTakes
    <3>2. Tail(q) \in Seq(Records(t))
      BY <1>6, <3>1, TailElement
    <3>3. QED
      BY <1>12, <2>2, <3>2
  <2>3. QED
    BY <2>1, <2>2
<1>15. work' = p2 /\ stream' = q2 /\ vals' = v2
  BY <1>5, <1>11, <1>12
<1>16. QED
  BY <1>1, <1>5, <1>6, <1>12, <1>13, <1>14, <1>15, DecodeStays

-----------------------------------------------------------------------------
(* The theorems. *)

\* Nothing happens.
LEMMA StutterKeeps == WalkInv /\ UNCHANGED vars => WalkInv'
<1>1. ASSUME WalkInv, UNCHANGED vars PROVE WalkInv'
  <2>1. /\ table' = table /\ word' = word /\ phase' = phase /\ work' = work /\ mem' = mem
        /\ stream' = stream /\ markers' = markers /\ krt' = krt /\ vals' = vals
    BY <1>1 DEF vars
  <2>2. WalkInv
    BY <1>1
  <2>3. Shaped' /\ Idling' /\ Given'
    BY <2>1, <2>2 DEF WalkInv, Shaped, Idling, Given
  <2>4. Encoding' /\ Sending'
    BY <2>1, <2>2 DEF WalkInv, Encoding, Sending
  <2>5. Decoding' /\ Finished'
    BY <2>1, <2>2 DEF WalkInv, Decoding, Finished
  <2>6. QED
    BY <2>3, <2>4, <2>5 DEF WalkInv
<1>2. QED
  BY <1>1

\* Every step preserves the invariant.
LEMMA NextKeeps == WalkInv /\ [Next]_vars => WalkInv'
<1>. SUFFICES ASSUME WalkInv, [Next]_vars PROVE WalkInv'
  OBVIOUS
<1>1. CASE UNCHANGED vars
  BY <1>1, StutterKeeps
<1>2. CASE EncodeStep
  <2>1. CASE EncodeEmpty
    BY <2>1, EncodeEmptyKeeps
  <2>2. CASE \E coded \in BOOLEAN : EncodeFlat(coded)
    BY <2>2, EncodeFlatKeeps
  <2>3. CASE EncodeNode
    BY <2>3, EncodeNodeKeeps
  <2>4. CASE \E mk \in Markers : EmitBitmap(mk)
    BY <2>4, EmitBitmapKeeps
  <2>5. CASE FinishEncode
    BY <2>5, FinishEncodeKeeps
  <2>6. QED
    BY <1>2, <2>1, <2>2, <2>3, <2>4, <2>5 DEF EncodeStep
<1>3. CASE DecodeStep
  <2>1. CASE StartDecode
    BY <2>1, StartDecodeKeeps
  <2>2. CASE DecodeEmpty
    BY <2>2, DecodeEmptyKeeps
  <2>3. CASE DecodeFlat
    BY <2>3, DecodeFlatKeeps
  <2>4. CASE DecodeBothLeaves
    BY <2>4, DecodeBothLeavesKeeps
  <2>5. CASE DecodeInner
    BY <2>5, DecodeInnerKeeps
  <2>6. CASE MergeChildren
    BY <2>6, MergeChildrenKeeps
  <2>7. CASE FinishDecode
    BY <2>7, FinishDecodeKeeps
  <2>8. QED
    BY <1>3, <2>1, <2>2, <2>3, <2>4, <2>5, <2>6, <2>7 DEF DecodeStep
<1>4. CASE NextBlock
  BY <1>4, NextBlockKeeps
<1>5. CASE \E s \in Scheds : \E t \in TablesOf(s), w \in Words(s) : StartBlock(t, w)
  BY <1>5, StartBlockKeeps
<1>6. QED
  BY <1>1, <1>2, <1>3, <1>4, <1>5 DEF Next, Step

\* The walks of a block never leave the order of its records: what the
\* pending calls still have to write or read is exactly what is missing.
THEOREM WalkInvariant == Spec => []WalkInv
<1>1. Init => WalkInv
  BY WalkInitially
<1>2. WalkInv /\ [Next]_vars => WalkInv'
  BY NextKeeps
<1>3. QED
  BY <1>1, <1>2, PTL DEF Spec

\* A node's right half fits behind the halves of the levels above it.
LEMMA HalfFits ==
  ASSUME NEW a \in Nat, NEW n \in Nat, n <= a, NEW d \in Nat, NEW D \in Nat, d < D, NEW tmp \in Nat,
         tmp <= a + a * d
  PROVE  tmp + n <= a + a * D
<1>1. PICK e \in Nat : D = d + 1 + e
  <2>1. D - d - 1 \in Nat /\ D = d + 1 + (D - d - 1)
    OBVIOUS
  <2>2. QED
    BY <2>1
<1>2. a * (d + 1 + e) = a * d + a + a * e
  OBVIOUS
<1>3. a * d \in Nat /\ a * e \in Nat /\ a * D = a * (d + 1 + e)
  BY <1>1
<1>4. QED
  BY <1>2, <1>3

\* A buffer at its depth ends inside the arena.
LEMMA InRoom ==
  ASSUME NEW a \in Nat, NEW d \in Nat, NEW D \in Nat, d <= D, NEW x \in Nat, x <= a + a * d
  PROVE  x <= a + a * D
<1>1. PICK e \in Nat : D = d + e
  <2>1. D - d \in Nat /\ D = d + (D - d)
    OBVIOUS
  <2>2. QED
    BY <2>1
<1>2. a * (d + e) = a * d + a * e
  OBVIOUS
<1>3. a * d \in Nat /\ a * e \in Nat /\ a * D = a * (d + e)
  BY <1>1
<1>4. QED
  BY <1>2, <1>3

\* What the invariant says of each call the encode walk has still to take.
LEMMA EachNode ==
  ASSUME WalkInv, phase = "encode", NEW i \in DOMAIN work
  PROVE  /\ work[i].op \in {"node", "bitmap"} /\ work[i].rec \in DOMAIN sched
         /\ work[i].op = "node" =>
              /\ Segment(work[i].at, work[i].n) = Keep(word, RanksOf(sched)[work[i].rec])
              /\ work[i].at + work[i].n <= N + N * MaxLen
              /\ sched[work[i].rec].kind # "FLAT" => work[i].tmp + work[i].n <= N + N * MaxLen
<1>1. PICK t, w, s, c : t = table /\ w = word /\ s = t.sched /\ c = work[i]
  OBVIOUS
<1>2. work # <<>>
  <2>1. DOMAIN <<>> = {}
    OBVIOUS
  <2>2. QED
    BY <2>1
<1>3. /\ SchedOK(s) /\ w \in Seq(Ranks) /\ work \in Seq(EncodeCalls(s, w))
      /\ AllReady(mem, s, w, work)
  BY <1>1, <1>2, EncodeHead
<1>4. i \in 1 .. Len(work) /\ c \in EncodeCalls(s, w)
  BY <1>1, <1>3
<1>5. Ready(mem, s, w, c)
  BY <1>1, <1>3, <1>4 DEF AllReady
<1>6. c.op \in {"node", "bitmap"} /\ c.rec \in DOMAIN s
  BY <1>4, CallOps
<1>7. ASSUME c.op = "node"
      PROVE  /\ Segment(c.at, c.n) = Below(s, w, c.rec)
             /\ c.at + c.n <= Len(w) + Len(w) * MaxLen
             /\ s[c.rec].kind # "FLAT" => c.tmp + c.n <= Len(w) + Len(w) * MaxLen
  <2>1. c \in NodeCalls(s, w)
    BY <1>4, <1>7, CallOps
  <2>2. /\ c.at \in Nat /\ c.n \in Nat /\ c.tmp \in Nat /\ c.at + c.n <= c.tmp /\ c.n <= Len(w)
        /\ c.tmp <= Len(w) + Len(w) * DepthOf(s)[c.rec]
    BY <1>3, <2>1, NodeFacts
  <2>3. Segment(c.at, c.n) = Below(s, w, c.rec)
    BY <1>3, <1>5, <2>1, SegmentIs
  <2>4. PICK d \in 0 .. MaxLen : d = DepthOf(s)[c.rec]
    BY <1>3, <1>6, DepthFacts
  <2>5. s[c.rec].kind # "FLAT" => d < MaxLen
    BY <1>3, <1>6, <2>4, DepthFacts DEF DepthOK
  <2>6. PICK a \in Nat : a = Len(w)
    BY <1>3
  <2>7. MaxLen \in Nat /\ d \in Nat /\ d <= MaxLen
    BY NumbersAssumption
  <2>8. c.tmp <= a + a * MaxLen
    BY <2>2, <2>4, <2>6, <2>7, InRoom
  <2>9. s[c.rec].kind # "FLAT" => c.tmp + c.n <= a + a * MaxLen
    BY <2>2, <2>4, <2>5, <2>6, <2>7, HalfFits
  <2>10. c.at + c.n <= a + a * MaxLen
    <3>1. PICK b \in Nat : b = a * MaxLen
      BY <2>7
    <3>2. QED
      BY <2>2, <2>8, <3>1
  <2>11. QED
    BY <2>3, <2>6, <2>9, <2>10
<1>8. QED
  BY <1>1, <1>6, <1>7, Zenon DEF sched, N, Below

\* The invariant implies that the scratch of the encode walk is sound.
LEMMA WalkInvScratch == WalkInv => EncodeScratch
<1>. SUFFICES ASSUME WalkInv PROVE EncodeScratch
  OBVIOUS
<1>1. phase \in {"idle", "encode", "send", "decode", "done"} /\ DOMAIN mem = Cells
  BY DEF WalkInv, Shaped
<1>2. word \in Seq(Nat) /\ N <= MaxN
  <2>1. CASE phase = "idle"
    <3>1. word = <<>>
      BY <2>1 DEF WalkInv, Idling
    <3>2. <<>> \in Seq(Nat) /\ Len(<<>>) = 0
      OBVIOUS
    <3>3. QED
      BY <3>1, <3>2, NumbersAssumption DEF N
  <2>2. CASE phase # "idle"
    <3>1. InUse(table, word)
      BY <2>2 DEF WalkInv, Given
    <3>2. word \in Seq(Ranks) /\ Len(word) \in 1 .. MaxN
      BY <3>1, InUseFacts
    <3>3. word \in Seq(Nat)
      <4>0. PICK w \in Seq(Ranks) : w = word
        BY <3>2
      <4>1. \A i \in 1 .. Len(word) : word[i] \in Nat
        BY <4>0, RanksAreNat, ElementOfSeq
      <4>2. Len(word) \in Nat /\ word = [i \in 1 .. Len(word) |-> word[i]]
        BY <3>2
      <4>3. QED
        BY <4>1, <4>2
    <3>4. QED
      BY <3>2, <3>3, NumbersAssumption DEF N
  <2>3. QED
    BY <2>1, <2>2
<1>3. phase = "decode" => \A i \in DOMAIN work :
                            work[i].op \in {"subtree", "merge"} /\ work[i].rec \in DOMAIN sched
  <2>1. SUFFICES ASSUME phase = "decode", NEW i \in DOMAIN work
                 PROVE  work[i].op \in {"subtree", "merge"} /\ work[i].rec \in DOMAIN sched
    OBVIOUS
  <2>2. PICK t, w, s, k : t = table /\ w = word /\ s = t.sched /\ k = krt
    OBVIOUS
  <2>3. work \in Seq(DecodeCalls(s, w, k))
    BY <2>1, <2>2 DEF WalkInv, Decoding, DecodingOf
  <2>4. work[i] \in DecodeCalls(s, w, k)
    BY <2>3
  <2>5. work[i].op \in {"subtree", "merge"} /\ work[i].rec \in DOMAIN s
    BY <2>4 DEF DecodeCalls, SubtreeCalls, MergeCalls
  <2>6. QED
    BY <2>2, <2>5 DEF sched
<1>4. phase \in {"idle", "send", "done"} => work = <<>>
  BY DEF WalkInv, Idling, Sending, SendingOf, Finished, DoneOf
<1>5. \A i \in DOMAIN work : work[i].rec \in DOMAIN sched
  <2>1. DOMAIN <<>> = {}
    OBVIOUS
  <2>2. QED
    BY <1>1, <1>3, <1>4, <2>1, EachNode
<1>6. krt \in {0} \cup {KrT(c) : c \in KrtCodes}
  <2>1. CASE phase = "idle"
    BY <2>1 DEF WalkInv, Idling
  <2>2. CASE phase # "idle"
    <3>1. InUse(table, word)
      BY <2>2 DEF WalkInv, Given
    <3>2. table.krtCode \in KrtCodes
      BY <3>1, InUseFacts
    <3>3. krt \in {0, KrT(table.krtCode)}
      BY <1>1, <2>2 DEF WalkInv, Encoding, EncodingOf, Sending, SendingOf, Decoding, DecodingOf,
                        Finished, DoneOf
    <3>4. QED
      BY <3>2, <3>3
  <2>3. QED
    BY <2>1, <2>2
<1>7. TypeOK
  <2>1. phase = "encode" => \A i \in DOMAIN work : work[i].op \in {"node", "bitmap"}
    BY EachNode
  <2>2. QED
    BY <1>1, <1>2, <1>3, <1>5, <1>6, <2>1 DEF TypeOK
<1>8. RanksSurvive
  BY EachNode DEF RanksSurvive
<1>9. TmpSuffices
  BY EachNode DEF TmpSuffices
<1>10. QED
  BY <1>7, <1>8, <1>9 DEF EncodeScratch

\* The encode walk's two buffers hold what they have to, for every schedule,
\* block and threshold: every pending node of codec_encode_node finds its
\* ranks and has room for its right half.
THEOREM ScratchSuffices == Spec => []EncodeScratch
<1>1. WalkInv => EncodeScratch
  BY WalkInvScratch
<1>2. QED
  BY <1>1, WalkInvariant, PTL

\* codec_decode_subtree meets exactly the record it derives, for every choice
\* of coded regions and markers, and what it returns is the encoded block.
THEOREM WalksAgreeAlways == Spec => []WalksAgree
<1>1. WalkInv => WalksAgree
  <2>. SUFFICES ASSUME WalkInv PROVE WalksAgree
    OBVIOUS
  <2>1. phase = "decode" /\ work # <<>> => Reads(Head(work))
    BY WalkReads
  <2>2. phase = "done" => stream = <<>> /\ vals = <<word>>
    BY DEF WalkInv, Finished, DoneOf
  <2>3. QED
    BY <2>1, <2>2 DEF WalksAgree, InStep, RoundTrip
<1>2. QED
  BY <1>1, WalkInvariant, PTL

\* What each step means to the caller.
LEMMA StartSends ==
  ASSUME WalkInv, NEW s \in Scheds, NEW t \in TablesOf(s), NEW w \in Words(s), StartBlock(t, w)
  PROVE  Transfer!Next
<1>1. phase = "idle" /\ phase' = "encode" /\ word' = w
  BY DEF StartBlock
<1>2. word = <<>>
  BY <1>1 DEF WalkInv, Idling
<1>3. received = <<>> /\ received' = <<>>
  BY <1>1 DEF received
<1>4. w \in UNION {Words(x) : x \in Scheds}
  OBVIOUS
<1>5. Transfer!Send(w)
  BY <1>1, <1>2, <1>3 DEF Transfer!Send
<1>6. QED
  BY <1>4, <1>5 DEF Transfer!Next

\* FinishDecode delivers the block.
LEMMA FinishDelivers == WalkInv /\ FinishDecode => Transfer!Next
<1>. SUFFICES ASSUME WalkInv, FinishDecode PROVE Transfer!Next
  OBVIOUS
<1>1. phase = "decode" /\ phase' = "done" /\ word' = word /\ vals' = vals
  BY DEF FinishDecode
<1>2. WalkInv'
  BY FinishDecodeKeeps
<1>3. vals' = <<word'>>
  BY <1>1, <1>2 DEF WalkInv, Finished, DoneOf
<1>4. received = <<>> /\ received' = word
  BY <1>1, <1>3 DEF received
<1>5. word # <<>>
  BY <1>1, InUseFacts DEF WalkInv, Given
<1>6. Transfer!Deliver
  BY <1>1, <1>4, <1>5 DEF Transfer!Deliver
<1>7. QED
  BY <1>6 DEF Transfer!Next

\* NextBlock forgets it.
LEMMA NextForgets == WalkInv /\ NextBlock => Transfer!Next
<1>. SUFFICES ASSUME WalkInv, NextBlock PROVE Transfer!Next
  OBVIOUS
<1>1. phase = "done" /\ phase' = "idle" /\ word' = <<>>
  BY DEF NextBlock
<1>2. vals = <<word>> /\ word # <<>>
  BY <1>1, InUseFacts DEF WalkInv, Given, Finished, DoneOf
<1>3. received # <<>> /\ received' = <<>>
  BY <1>1, <1>2 DEF received
<1>4. Transfer!Forget
  BY <1>1, <1>3 DEF Transfer!Forget
<1>5. QED
  BY <1>4 DEF Transfer!Next

\* Every other step leaves what was sent and received as it is.
LEMMA InnerStepsStutter ==
  ASSUME WalkInv, \/ UNCHANGED vars
                  \/ EncodeStep \/ StartDecode \/ DecodeEmpty \/ DecodeFlat \/ DecodeBothLeaves
                  \/ DecodeInner \/ MergeChildren
  PROVE  UNCHANGED Transfer!transfer
<1>1. CASE UNCHANGED vars
  BY <1>1 DEF vars, received, Transfer!transfer
<1>2. CASE ~UNCHANGED vars
  <2>1. word' = word /\ phase # "done" /\ phase' # "done"
    <3>1. CASE EncodeStep
      BY <3>1 DEF EncodeStep, EncodeEmpty, EncodeFlat, EncodeNode, EmitBitmap, FinishEncode, Running
    <3>2. CASE StartDecode \/ DecodeEmpty \/ DecodeFlat \/ DecodeBothLeaves
      BY <3>2 DEF StartDecode, DecodeEmpty, DecodeFlat, DecodeBothLeaves, AtSubtree, Running
    <3>3. CASE DecodeInner \/ MergeChildren
      BY <3>3 DEF DecodeInner, MergeChildren, AtSubtree, Running
    <3>4. QED
      BY <1>2, <3>1, <3>2, <3>3
  <2>2. received = <<>> /\ received' = <<>>
    BY <2>1 DEF received
  <2>3. QED
    BY <2>1, <2>2 DEF Transfer!transfer
<1>3. QED
  BY <1>1, <1>2

\* The codec implements the safety part of BlockTransfer: what is delivered is
\* what was sent.
THEOREM TransferSafety == Spec => Transfer!Init /\ [][Transfer!Next]_Transfer!transfer
<1>1. Init => Transfer!Init
  BY DEF Init, Transfer!Init, received
<1>2. WalkInv /\ [Next]_vars => [Transfer!Next]_Transfer!transfer
  <2>. SUFFICES ASSUME WalkInv, [Next]_vars
                PROVE  Transfer!Next \/ UNCHANGED Transfer!transfer
    OBVIOUS
  <2>1. CASE \E s \in Scheds : \E t \in TablesOf(s), w \in Words(s) : StartBlock(t, w)
    BY <2>1, StartSends
  <2>2. CASE FinishDecode
    BY <2>2, FinishDelivers
  <2>3. CASE NextBlock
    BY <2>3, NextForgets
  <2>4. CASE \/ UNCHANGED vars
             \/ EncodeStep \/ StartDecode \/ DecodeEmpty \/ DecodeFlat \/ DecodeBothLeaves
             \/ DecodeInner \/ MergeChildren
    BY <2>4, InnerStepsStutter
  <2>5. QED
    BY <2>1, <2>2, <2>3, <2>4 DEF Next, Step, DecodeStep
<1>3. QED
  BY <1>1, <1>2, WalkInvariant, PTL DEF Spec
=============================================================================
