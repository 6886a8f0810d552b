----------------------- MODULE DecodePlacement_proofs -----------------------
(***************************************************************************)
(* The scratch discipline of the decode walk, for every block length and   *)
(* every table.                                                            *)
(***************************************************************************)
EXTENDS DecodePlacement, TLAPS

-----------------------------------------------------------------------------
\* Arithmetic of the placement.

\* Half rounds down.
LEMMA HalfFacts ==
  ASSUME NEW k \in Nat
  PROVE  Half(k) \in Nat /\ 2 * Half(k) <= k /\ k <= 2 * Half(k) + 1
  BY DEF Half

\* The first child takes FirstK of the K symbols and the second one the rest,
\* which at a FULL node is at most half of them.
LEMMA SplitFacts ==
  ASSUME NEW f \in FrameSet, f.kr <= f.K
  PROVE  /\ FirstK(f) \in 0 .. f.K
         /\ SecondK(f) \in 0 .. f.K
         /\ SecondK(f) = f.K - FirstK(f)
         /\ KindOf(f) = "FULL" => SecondK(f) <= Half(f.K)
<1>1. f.K \in Nat /\ f.kr \in Nat
  BY MaxNAssumption DEF FrameSet
<1>2. FirstK(f) \in 0 .. f.K
  BY <1>1 DEF FirstK
<1>3. KindOf(f) = "FULL" => 2 * FirstK(f) >= f.K
  BY <1>1 DEF FirstK, RightFirst
<1>4. f.K <= 2 * Half(f.K) + 1 /\ Half(f.K) \in Nat
  BY <1>1, HalfFacts
<1>5. SecondK(f) \in 0 .. f.K /\ SecondK(f) = f.K - FirstK(f)
  BY <1>1, <1>2 DEF SecondK
<1>6. KindOf(f) = "FULL" => SecondK(f) <= Half(f.K)
  BY <1>1, <1>2, <1>3, <1>4, <1>5
<1>7. QED
  BY <1>2, <1>5, <1>6

\* The first child's buffers are disjoint and in bounds, and it owns only cells
\* of its parent.
LEMMA FirstPlacement ==
  ASSUME NEW f \in FrameSet, n \in 0 .. MaxN, f.K > 0, f.kr <= f.K, Placed(f)
  PROVE  LET c == FirstFrame(f) IN
         /\ c.K \in 0 .. MaxN /\ c.out \in Addr /\ c.tmp \in Nat
         /\ ~AtRoot(c)
         /\ Placed(c)
         /\ Owned(c) \subseteq Owned(f)
<1> DEFINE c == FirstFrame(f)
<1>1. /\ f.K \in Nat /\ f.out \in Int /\ f.tmp \in Nat /\ f.K <= MaxN
      /\ MaxN \in Nat /\ MaxN > 0 /\ n \in Nat /\ n <= MaxN
  BY MaxNAssumption DEF FrameSet, Addr, Symbols
<1>2. /\ FirstK(f) \in 0 .. f.K /\ SecondK(f) \in 0 .. f.K
      /\ SecondK(f) = f.K - FirstK(f)
  BY SplitFacts
<1>3. c.K = FirstK(f) /\ c.out = FirstOut(f) /\ c.tmp = FirstTmp(f)
  BY DEF FirstFrame, Frame
<1>4. /\ Half(FirstK(f)) \in Nat /\ 2 * Half(FirstK(f)) <= FirstK(f)
      /\ Half(f.K) \in Nat /\ 2 * Half(f.K) <= f.K
      /\ Half(FirstK(f)) <= Half(f.K)
  <2>1. Half(f.K) \in Nat /\ 2 * Half(f.K) <= f.K /\ f.K <= 2 * Half(f.K) + 1
    BY <1>1, HalfFacts
  <2>2. FirstK(f) \in Nat
    BY <1>1, <1>2
  <2>3. Half(FirstK(f)) \in Nat /\ 2 * Half(FirstK(f)) <= FirstK(f)
    BY <2>2, HalfFacts
  <2>4. QED
    BY <1>1, <1>2, <2>1, <2>3
<1>5. CASE AtRoot(f)
  <2>1. f.K = n /\ c.out = 0 /\ c.tmp = FirstK(f) /\ ~AtRoot(c)
    BY <1>1, <1>3, <1>5 DEF AtRoot, FirstOut, FirstTmp, Placed, Symbols
  <2>2. c.K \in 0 .. MaxN /\ c.out \in Addr /\ c.tmp \in Nat
    BY <1>1, <1>2, <1>3, <2>1 DEF Addr, Symbols
  <2>3. Placed(c)
    BY <1>1, <1>2, <1>3, <1>4, <2>1 DEF Placed
  <2>4. Owned(c) \subseteq Owned(f)
    BY <1>1, <1>2, <1>3, <1>4, <1>5, <2>1 DEF Owned, Region, Span
  <2>5. QED
    BY <2>1, <2>2, <2>3, <2>4
<1>6. CASE ~AtRoot(f)
  <2>1. c.out = f.out + SecondK(f) /\ c.tmp = f.tmp /\ f.out >= 0
    BY <1>3, <1>6 DEF FirstOut, FirstTmp, Placed
  <2>2. /\ f.out + f.K <= f.tmp \/ f.tmp + Half(f.K) <= f.out
        /\ f.out + 2 * f.K <= 2 * n
        /\ f.tmp + f.K <= 2 * n
    BY <1>6 DEF Placed
  <2>3. c.out \in Addr /\ ~AtRoot(c) /\ c.K \in 0 .. MaxN /\ c.tmp \in Nat
    BY <1>1, <1>2, <1>3, <2>1, <2>2 DEF Addr, Symbols, AtRoot
  <2>4. Placed(c)
    BY <1>1, <1>2, <1>3, <1>4, <2>1, <2>2, <2>3 DEF Placed
  <2>5. Owned(c) \subseteq Owned(f)
    BY <1>1, <1>2, <1>3, <1>4, <1>6, <2>1, <2>3 DEF Owned, Region, Span
  <2>6. QED
    BY <2>3, <2>4, <2>5
<1>7. QED
  BY <1>5, <1>6

\* The smaller child's buffers are disjoint and in bounds, it owns only cells of
\* its parent, and none of those its sibling was decoded to.
LEMMA SecondPlacement ==
  ASSUME NEW f \in FrameSet, n \in 0 .. MaxN, f.K > 0, f.kr <= f.K, Placed(f),
         KindOf(f) = "FULL"
  PROVE  LET c == SecondFrame(f) IN
         /\ c.K \in 0 .. MaxN /\ c.out \in Addr /\ c.tmp \in Nat
         /\ ~AtRoot(c)
         /\ Placed(c)
         /\ Owned(c) \subseteq Owned(f)
         /\ \A x \in Owned(c) : x \notin Span(FirstOut(f), FirstK(f))
<1> DEFINE c == SecondFrame(f)
<1>1. /\ f.K \in Nat /\ f.out \in Int /\ f.tmp \in Nat /\ f.K <= MaxN
      /\ MaxN \in Nat /\ MaxN > 0 /\ n \in Nat /\ n <= MaxN
  BY MaxNAssumption DEF FrameSet, Addr, Symbols
<1>2. /\ FirstK(f) \in 0 .. f.K /\ SecondK(f) \in 0 .. f.K
      /\ SecondK(f) = f.K - FirstK(f) /\ SecondK(f) <= Half(f.K)
  BY SplitFacts
<1>3. c.K = SecondK(f) /\ c.out = SecondOut(f) /\ c.tmp = SecondTmp(f)
  BY DEF SecondFrame, Frame
<1>4. /\ Half(SecondK(f)) \in Nat /\ 2 * Half(SecondK(f)) <= SecondK(f)
      /\ Half(f.K) \in Nat /\ 2 * Half(f.K) <= f.K
      /\ Half(SecondK(f)) <= Half(f.K)
  <2>1. Half(f.K) \in Nat /\ 2 * Half(f.K) <= f.K /\ f.K <= 2 * Half(f.K) + 1
    BY <1>1, HalfFacts
  <2>2. SecondK(f) \in Nat
    BY <1>1, <1>2
  <2>3. Half(SecondK(f)) \in Nat /\ 2 * Half(SecondK(f)) <= SecondK(f)
    BY <2>2, HalfFacts
  <2>4. QED
    BY <1>1, <1>2, <2>1, <2>3
<1>5. CASE AtRoot(f)
  <2>1. f.K = n /\ c.out = FirstK(f) /\ c.tmp = n /\ FirstOut(f) = 0 /\ ~AtRoot(c)
    BY <1>1, <1>2, <1>3, <1>5 DEF AtRoot, SecondOut, SecondTmp, FirstOut, Placed, Symbols
  <2>2. c.K \in 0 .. MaxN /\ c.out \in Addr /\ c.tmp \in Nat
    BY <1>1, <1>2, <1>3, <2>1 DEF Addr, Symbols
  <2>3. Placed(c)
    BY <1>1, <1>2, <1>3, <1>4, <2>1 DEF Placed
  <2>4. Owned(c) \subseteq Owned(f)
    BY <1>1, <1>2, <1>3, <1>4, <1>5, <2>1 DEF Owned, Region, Span
  <2>5. \A x \in Owned(c) : x \notin Span(FirstOut(f), FirstK(f))
    BY <1>1, <1>2, <1>3, <1>4, <2>1 DEF Owned, Region, Span
  <2>6. QED
    BY <2>1, <2>2, <2>3, <2>4, <2>5
<1>6. CASE ~AtRoot(f)
  <2>1. c.out = f.tmp /\ c.tmp = f.out /\ f.out >= 0 /\ FirstOut(f) = f.out + SecondK(f)
    BY <1>3, <1>6 DEF SecondOut, SecondTmp, FirstOut, Placed
  <2>2. /\ f.out + f.K <= f.tmp \/ f.tmp + Half(f.K) <= f.out
        /\ f.out + 2 * f.K <= 2 * n
        /\ f.tmp + f.K <= 2 * n
    BY <1>6 DEF Placed
  <2>3. c.out \in Addr /\ ~AtRoot(c) /\ c.K \in 0 .. MaxN /\ c.tmp \in Nat
    BY <1>1, <1>2, <1>3, <2>1, <2>2 DEF Addr, Symbols, AtRoot
  <2>4. Placed(c)
    BY <1>1, <1>2, <1>3, <1>4, <2>1, <2>2, <2>3 DEF Placed
  <2>5. Owned(c) \subseteq Owned(f)
    BY <1>1, <1>2, <1>3, <1>4, <1>6, <2>1, <2>3 DEF Owned, Region, Span
  <2>6. \A x \in Owned(c) : x \notin Span(FirstOut(f), FirstK(f))
    BY <1>1, <1>2, <1>3, <1>4, <2>1, <2>2, <2>3 DEF Owned, Region, Span
  <2>7. QED
    BY <2>3, <2>4, <2>5, <2>6
<1>7. QED
  BY <1>5, <1>6

-----------------------------------------------------------------------------
\* The stack.

\* Replacing the last element of a sequence.
LEMMA ReplaceLast ==
  ASSUME NEW S, NEW s \in Seq(S), Len(s) > 0, NEW f \in S
  PROVE  LET t == [s EXCEPT ![Len(s)] = f] IN
         /\ t \in Seq(S) /\ Len(t) = Len(s) /\ t[Len(s)] = f
         /\ \A i \in 1 .. (Len(s) - 1) : t[i] = s[i]
  OBVIOUS

\* Replacing the last element of a sequence and appending one.
LEMMA ReplaceAndAppend ==
  ASSUME NEW S, NEW s \in Seq(S), Len(s) > 0, NEW f \in S, NEW c \in S
  PROVE  LET t == Append([s EXCEPT ![Len(s)] = f], c) IN
         /\ t \in Seq(S) /\ Len(t) = Len(s) + 1
         /\ t[Len(s)] = f /\ t[Len(s) + 1] = c
         /\ \A i \in 1 .. (Len(s) - 1) : t[i] = s[i]
<1> DEFINE u == [s EXCEPT ![Len(s)] = f]
<1>1. /\ u \in Seq(S) /\ Len(u) = Len(s) /\ u[Len(s)] = f
      /\ \A i \in 1 .. (Len(s) - 1) : u[i] = s[i]
  BY ReplaceLast
<1> HIDE DEF u
<1>2. Append(u, c) \in Seq(S) /\ Len(Append(u, c)) = Len(s) + 1
  BY <1>1
<1>3. /\ Append(u, c)[Len(s) + 1] = c
      /\ \A i \in 1 .. Len(s) : Append(u, c)[i] = u[i]
  BY <1>1
<1>4. \A i \in 1 .. (Len(s) - 1) : Append(u, c)[i] = s[i]
  BY <1>1, <1>3
<1>5. Append(u, c)[Len(s)] = f
  BY <1>1, <1>3
<1>6. QED
  BY <1>2, <1>3, <1>4, <1>5 DEF u

\* The operators on activations read nothing but the activation, the schedule
\* and n, which do not change while a block is decoded.
LEMMA SameOperators ==
  ASSUME sched' = sched, n' = n
  PROVE  \A f : /\ KindOf(f)' = KindOf(f)
                /\ FirstK(f)' = FirstK(f) /\ SecondK(f)' = SecondK(f)
                /\ FirstOut(f)' = FirstOut(f) /\ SecondOut(f)' = SecondOut(f)
                /\ FirstRec(f)' = FirstRec(f) /\ SecondRec(f)' = SecondRec(f)
                /\ UnreadFirst(f)' = UnreadFirst(f)
                /\ UnreadSecond(f)' = UnreadSecond(f)
                /\ Owned(f)' = Owned(f) /\ Live(f)' = Live(f)
                /\ Callee(f)' = Callee(f)
                /\ Progress(f)' = Progress(f) /\ Placed(f)' = Placed(f)
  BY DEF KindOf, RightFirst, FirstK, SecondK, FirstOut, SecondOut, LeftRec, RightRec,
         FirstRec, SecondRec, UnreadFirst, UnreadSecond, AtRoot, Region, Owned, Live,
         FirstTmp, SecondTmp, FirstFrame, SecondFrame, Callee, Progress, Placed, Inner

\* What the invariant says of the top activation.
LEMMA TopFacts ==
  ASSUME IInv, Depth > 0
  PROVE  /\ Depth \in Nat /\ Depth = Len(stack) /\ stack \in Seq(FrameSet)
         /\ Top = stack[Depth] /\ Top \in FrameSet
         /\ Top.rec \in DOMAIN sched
         /\ Progress(Top) /\ Placed(Top) /\ (AtRoot(Top) <=> Depth = 1)
         /\ n \in 0 .. MaxN
         /\ WellFormed(sched)
<1>1. stack \in Seq(FrameSet) /\ Depth = Len(stack) /\ Depth \in Nat
  BY DEF IInv, TypeOK, Depth
<1>2. Depth \in 1 .. Depth
  BY <1>1
<1>3. WellFormed(sched) /\ n \in 0 .. MaxN
  BY SchedsAssumption DEF IInv, TypeOK
<1>4. Top = stack[Depth] /\ Top \in FrameSet
  BY <1>1, <1>2 DEF Top
<1>5. Top.rec \in DOMAIN sched
  BY <1>2, <1>4 DEF IInv, TypeOK
<1>6. Progress(Top) /\ Placed(Top)
  BY <1>2, <1>4 DEF IInv
<1>7. AtRoot(Top) <=> Depth = 1
  BY <1>2, <1>4 DEF IInv, Waiting
<1>8. QED
  BY <1>1, <1>3, <1>4, <1>5, <1>6, <1>7

\* The children's buffers lie inside the memory.
LEMMA LiveInAddr ==
  ASSUME NEW f \in FrameSet, n \in 0 .. MaxN, Placed(f), Progress(f)
  PROVE  Live(f) \subseteq Addr
<1>1. /\ f.K \in Nat /\ f.out \in Int /\ f.tmp \in Nat /\ f.K <= MaxN
      /\ f.a \in Nat /\ f.b \in Nat
      /\ MaxN \in Nat /\ MaxN > 0 /\ n \in Nat /\ n <= MaxN
  BY MaxNAssumption DEF FrameSet, Addr, Symbols
<1>2. CASE f.pc \in Inner
  <2>1. f.kr <= f.K
    BY <1>2 DEF Progress
  <2>2. /\ FirstK(f) \in 0 .. f.K /\ SecondK(f) \in 0 .. f.K
        /\ SecondK(f) = f.K - FirstK(f)
    BY <2>1, SplitFacts
  <2>3. CASE AtRoot(f)
    <3>1. f.K = n /\ FirstOut(f) = 0 /\ SecondOut(f) = FirstK(f)
      BY <2>3 DEF Placed, FirstOut, SecondOut
    <3>2. Span(FirstOut(f) + f.a, FirstK(f) - f.a) \subseteq Addr
      BY <1>1, <2>2, <3>1 DEF Span, Addr, Symbols
    <3>3. Span(SecondOut(f) + f.b, SecondK(f) - f.b) \subseteq Addr
      BY <1>1, <2>2, <3>1 DEF Span, Addr, Symbols
    <3>4. QED
      BY <3>2, <3>3 DEF Live, UnreadFirst, UnreadSecond
  <2>4. CASE ~AtRoot(f)
    <3>1. /\ f.out >= 0 /\ FirstOut(f) = f.out + SecondK(f) /\ SecondOut(f) = f.tmp
          /\ f.out + 2 * f.K <= 2 * n /\ f.tmp + f.K <= 2 * n
      BY <2>4 DEF Placed, FirstOut, SecondOut
    <3>2. Span(FirstOut(f) + f.a, FirstK(f) - f.a) \subseteq Addr
      BY <1>1, <2>2, <3>1 DEF Span, Addr, Symbols
    <3>3. Span(SecondOut(f) + f.b, SecondK(f) - f.b) \subseteq Addr
      BY <1>1, <2>2, <3>1 DEF Span, Addr, Symbols
    <3>4. QED
      BY <3>2, <3>3 DEF Live, UnreadFirst, UnreadSecond
  <2>5. QED
    BY <2>3, <2>4
<1>3. CASE f.pc \notin Inner
  BY <1>3 DEF Live, Inner
<1>4. QED
  BY <1>2, <1>3

\* A step of the top activation that stays in place and writes only cells it
\* owns keeps the invariant, up to what it must show of itself.
LEMMA TopStep ==
  ASSUME IInv, Depth > 0, sched' = sched, n' = n,
         NEW f \in FrameSet, SetTop(f), SamePlace(f, Top),
         Progress(f), f.pc \notin {"first", "second"},
         mem' \in [Addr -> Int \X Int],
         \A x \in Addr : x \notin Owned(Top) => mem'[x] = mem[x],
         outcome' \in {"whole", "short", "refused"}, Whole' => Whole,
         Whole' /\ f.pc \in {"firstDone", "merge"} =>
           \A x \in UnreadFirst(f) : mem'[x] = <<FirstRec(f), x - FirstOut(f)>>,
         Whole' /\ f.pc = "merge" =>
           \A x \in UnreadSecond(f) : mem'[x] = <<SecondRec(f), x - SecondOut(f)>>,
         Whole' => \A j \in 0 .. (Merged(f) - 1) : mem'[f.out + j] = <<f.rec, j>>
  PROVE  IInv'
<1>1. /\ Depth \in Nat /\ Depth = Len(stack) /\ stack \in Seq(FrameSet)
      /\ Top = stack[Depth] /\ Top \in FrameSet /\ Top.rec \in DOMAIN sched
      /\ Progress(Top) /\ Placed(Top) /\ (AtRoot(Top) <=> Depth = 1)
  BY TopFacts
<1>2. /\ stack' \in Seq(FrameSet) /\ Len(stack') = Depth /\ stack'[Depth] = f
      /\ \A i \in 1 .. (Depth - 1) : stack'[i] = stack[i]
  BY <1>1, ReplaceLast DEF SetTop
<1>3. Depth' = Depth
  BY <1>1, <1>2 DEF Depth
<1>4. TypeOK'
  <2>1. \A i \in 1 .. Depth : stack'[i].rec \in DOMAIN sched
    <3>1. \A i \in 1 .. Depth : stack[i].rec \in DOMAIN sched
      BY DEF IInv, TypeOK
    <3>2. f.rec = Top.rec
      BY DEF SamePlace
    <3>3. \A i \in 1 .. Depth : i = Depth \/ i \in 1 .. (Depth - 1)
      BY <1>1
    <3>4. QED
      BY <1>1, <1>2, <3>1, <3>2, <3>3
  <2>2. n \in 0 .. MaxN /\ sched \in Scheds
    BY DEF TypeOK, IInv
  <2>3. QED
    BY <1>2, <1>3, <2>1, <2>2 DEF TypeOK
<1>5. \A i \in 1 .. Depth' : Progress(stack[i])' /\ Placed(stack[i])'
  <2>1. Placed(f)
    BY <1>1 DEF Placed, SamePlace, AtRoot
  <2>2. QED
    BY <1>1, <1>2, <1>3, <2>1, SameOperators DEF IInv
<1>6. Waiting'
  <2>1. AtRoot(f) <=> Depth = 1
    BY <1>1 DEF AtRoot, SamePlace
  <2>2. \A i \in 1 .. (Depth - 1) : SamePlace(stack'[i + 1], Callee(stack[i]))
    BY <1>1, <1>2 DEF IInv, Waiting, SamePlace
  <2>3. \A i \in 1 .. (Depth - 1) : stack[i].pc \in {"first", "second"}
    BY DEF IInv, Waiting
  <2>4. \A i \in 1 .. Depth : AtRoot(stack'[i]) <=> i = 1
    BY <1>1, <1>2, <2>1 DEF IInv, Waiting
  <2>5. QED
    BY <1>1, <1>2, <1>3, <2>2, <2>3, <2>4, SameOperators DEF Waiting, Top, AtRoot, SamePlace
<1>7. Nested'
  <2>1. Owned(f) = Owned(Top)
    BY DEF Owned, Region, AtRoot, SamePlace
  <2>2. \A j \in 1 .. Depth : Owned(stack'[j]) = Owned(stack[j])
    BY <1>1, <1>2, <2>1
  <2>3. \A i \in 1 .. (Depth - 1) : Live(stack'[i]) = Live(stack[i])
    BY <1>2
  <2>4. \A j \in 1 .. Depth : \A i \in 1 .. (j - 1) :
          \A x \in Owned(stack'[j]) : x \in Owned(stack'[i]) /\ x \notin Live(stack'[i])
    <3> TAKE j \in 1 .. Depth
    <3> TAKE i \in 1 .. (j - 1)
    <3>1. i \in 1 .. Depth /\ i \in 1 .. (Depth - 1)
      BY <1>1
    <3>2. \A x \in Owned(stack[j]) : x \in Owned(stack[i]) /\ x \notin Live(stack[i])
      BY DEF IInv, Nested
    <3>3. QED
      BY <2>2, <2>3, <3>1, <3>2
  <2>5. QED
    BY <1>3, <2>4, SameOperators DEF Nested
<1>8. ChildrenSurvive'
  <2>0. SUFFICES ASSUME Whole' PROVE ChildrenSurvive'
    BY DEF ChildrenSurvive
  <2>1. \A i \in 1 .. (Depth - 1) : \A x \in Live(stack[i]) : mem'[x] = mem[x]
    <3> TAKE i \in 1 .. (Depth - 1)
    <3> TAKE x \in Live(stack[i])
    <3>1. i \in 1 .. Depth /\ stack[i] \in FrameSet
      BY <1>1
    <3>2. n \in 0 .. MaxN /\ Placed(stack[i]) /\ Progress(stack[i])
      BY <3>1 DEF IInv, TypeOK
    <3>3. x \in Addr
      BY <3>1, <3>2, LiveInAddr
    <3>4. x \notin Owned(Top)
      <4>1. Depth \in 1 .. Depth
        BY <1>1
      <4>2. \A y \in Owned(stack[Depth]) : y \notin Live(stack[i])
        BY <4>1 DEF IInv, Nested
      <4>3. QED
        BY <1>1, <4>2
    <3>5. QED
      BY <3>3, <3>4
  <2>2. ASSUME NEW i \in 1 .. (Depth - 1)
        PROVE  /\ stack[i].pc \in {"firstDone", "second", "merge"} =>
                    \A x \in UnreadFirst(stack[i]) :
                       mem'[x] = <<FirstRec(stack[i]), x - FirstOut(stack[i])>>
               /\ stack[i].pc = "merge" =>
                    \A x \in UnreadSecond(stack[i]) :
                       mem'[x] = <<SecondRec(stack[i]), x - SecondOut(stack[i])>>
    <3>1. i \in 1 .. Depth
      BY <1>1
    <3>2. QED
      BY <2>0, <2>1, <3>1 DEF IInv, ChildrenSurvive, Live
  <2>3. f.pc # "second"
    OBVIOUS
  <2>4. QED
    BY <1>1, <1>2, <1>3, <2>0, <2>2, <2>3, SameOperators, SMTT(30) DEF ChildrenSurvive
<1>9. MergedPrefix'
  <2>0. SUFFICES ASSUME Whole' PROVE MergedPrefix'
    BY DEF MergedPrefix
  <2>1. \A i \in 1 .. (Depth - 1) : Merged(stack[i]) = 0
    BY DEF IInv, Waiting, Merged
  <2>2. \A i \in 1 .. Depth : \A j \in 0 .. (Merged(stack'[i]) - 1) :
          mem'[stack'[i].out + j] = <<stack'[i].rec, j>>
    <3> TAKE i \in 1 .. Depth
    <3>1. CASE i = Depth
      BY <1>2, <2>0, <3>1
    <3>2. CASE i # Depth
      <4>1. i \in 1 .. (Depth - 1)
        BY <1>1, <3>2
      <4>2. Merged(stack'[i]) = 0
        BY <1>2, <2>1, <4>1
      <4>3. QED
        BY <4>2
    <3>3. QED
      BY <3>1, <3>2
  <2>3. QED
    BY <1>3, <2>2 DEF MergedPrefix, Merged
<1>10. BlockDecoded'
  BY <1>1, <1>2 DEF BlockDecoded
<1>11. QED
  BY <1>4, <1>5, <1>6, <1>7, <1>8, <1>9, <1>10 DEF IInv

-----------------------------------------------------------------------------
\* The steps.

\* An empty child returns at once.
LEMMA ReturnEmptyStep == IInv /\ ReturnEmpty => IInv'
<1> SUFFICES ASSUME IInv, ReturnEmpty PROVE IInv'
  OBVIOUS
<1> DEFINE f == [Top EXCEPT !.pc = "ret"]
<1>1. Depth > 0 /\ Top.pc = "enter" /\ Top.K = 0 /\ sched' = sched /\ n' = n /\ mem' = mem
      /\ SetTop(f) /\ outcome' = outcome
  BY DEF ReturnEmpty
<1>0. outcome' \in {"whole", "short", "refused"} /\ (Whole' => Whole)
  BY <1>1 DEF IInv, TypeOK, Whole
<1>2. Top \in FrameSet /\ Progress(Top)
  BY <1>1, TopFacts
<1>3. f \in FrameSet /\ SamePlace(f, Top) /\ f.pc = "ret" /\ Merged(f) = 0
  BY <1>1, <1>2 DEF FrameSet, SamePlace, Merged
<1>4. Progress(f)
  BY <1>3 DEF Progress, Inner
<1>5. mem' \in [Addr -> Int \X Int]
  BY <1>1 DEF IInv, TypeOK
<1> HIDE DEF f
<1>6. QED
  BY <1>0, <1>1, <1>3, <1>4, <1>5, TopStep

\* A region without a buffer is passed over: nothing is written.
LEMMA SkipRegionStep == IInv /\ SkipRegion => IInv'
<1> SUFFICES ASSUME IInv, SkipRegion PROVE IInv'
  OBVIOUS
<1> DEFINE f == [Top EXCEPT !.pc = "ret"]
<1>1. Depth > 0 /\ Top.pc = "enter" /\ Top.K > 0 /\ sched' = sched /\ n' = n /\ mem' = mem
      /\ SetTop(f) /\ outcome' = "short"
  BY DEF SkipRegion, Depth, IInv, TypeOK
<1>2. Top \in FrameSet /\ Progress(Top)
  BY <1>1, TopFacts
<1>3. f \in FrameSet /\ SamePlace(f, Top) /\ f.pc = "ret"
  BY <1>1, <1>2 DEF FrameSet, SamePlace
<1>4. Progress(f)
  BY <1>3 DEF Progress, Inner
<1>5. mem' \in [Addr -> Int \X Int] /\ ~Whole'
  BY <1>1 DEF IInv, TypeOK, Whole
<1> HIDE DEF f
<1>6. QED
  BY <1>1, <1>3, <1>4, <1>5, TopStep

\* A block that is refused leaves no activation behind.
LEMMA RefuseStep == IInv /\ Refuse => IInv'
<1> SUFFICES ASSUME IInv, Refuse PROVE IInv'
  OBVIOUS
<1>1. stack' = <<>> /\ outcome' = "refused" /\ sched' = sched /\ n' = n /\ mem' = mem
  BY DEF Refuse
<1>2. Depth' = 0 /\ ~Whole'
  BY <1>1 DEF Depth, Whole
<1>3. TypeOK'
  <2>1. n \in 0 .. MaxN /\ sched \in Scheds /\ mem \in [Addr -> Int \X Int]
    BY DEF IInv, TypeOK
  <2>2. stack' \in Seq(FrameSet)
    BY <1>1
  <2>3. QED
    BY <1>1, <1>2, <2>1, <2>2 DEF TypeOK
<1>4. QED
  BY <1>2, <1>3 DEF IInv, Waiting, Nested, ChildrenSurvive, MergedPrefix, BlockDecoded

\* A flat or two-leaf node fills its out buffer.
LEMMA DecodeLeafRegionStep == IInv /\ DecodeLeafRegion => IInv'
<1> SUFFICES ASSUME IInv, DecodeLeafRegion PROVE IInv'
  OBVIOUS
<1> DEFINE f == [Top EXCEPT !.pc = "ret"]
<1>1. /\ Depth > 0 /\ Top.pc = "enter" /\ Top.K > 0 /\ sched' = sched /\ n' = n
      /\ mem' = [x \in Addr |-> IF x \in Span(Top.out, Top.K)
                                THEN <<Top.rec, x - Top.out>> ELSE mem[x]]
      /\ SetTop(f) /\ outcome' = outcome
  BY DEF DecodeLeafRegion
<1>0. outcome' \in {"whole", "short", "refused"} /\ (Whole' => Whole)
  BY <1>1 DEF IInv, TypeOK, Whole
<1>2. /\ Top \in FrameSet /\ Progress(Top) /\ Placed(Top) /\ n \in 0 .. MaxN
  BY <1>1, TopFacts
<1>3. f \in FrameSet /\ SamePlace(f, Top) /\ f.pc = "ret" /\ Merged(f) = Top.K
  BY <1>1, <1>2 DEF FrameSet, SamePlace, Merged
<1>4. Progress(f)
  BY <1>3 DEF Progress, Inner
<1>5. /\ Top.rec \in Int /\ Top.out \in Int /\ Top.K \in Nat /\ Top.K <= MaxN
      /\ MaxN \in Nat /\ n \in Nat /\ n <= MaxN /\ Top.tmp \in Nat
  BY <1>2, MaxNAssumption DEF FrameSet, Addr, Symbols
<1>6. mem \in [Addr -> Int \X Int]
  BY DEF IInv, TypeOK
<1>7. mem' \in [Addr -> Int \X Int]
  <2>1. \A x \in Addr : x \in Int
    BY DEF Addr, Symbols
  <2>2. \A x \in Addr : <<Top.rec, x - Top.out>> \in Int \X Int /\ mem[x] \in Int \X Int
    BY <1>5, <1>6, <2>1
  <2>3. QED
    BY <1>1, <2>2
<1>8. Span(Top.out, Top.K) \subseteq Addr
  BY <1>2, <1>5 DEF Placed, AtRoot, Span, Addr, Symbols
<1>9. Span(Top.out, Top.K) \subseteq Owned(Top)
  BY <1>5 DEF Owned, Region, AtRoot
<1>10. \A x \in Addr : x \notin Owned(Top) => mem'[x] = mem[x]
  BY <1>1, <1>9
<1>11. \A j \in 0 .. (Merged(f) - 1) : mem'[f.out + j] = <<f.rec, j>>
  <2> SUFFICES ASSUME NEW j \in 0 .. (Top.K - 1)
               PROVE  mem'[Top.out + j] = <<Top.rec, j>>
    BY <1>3 DEF SamePlace
  <2>1. Top.out + j \in Span(Top.out, Top.K) /\ (Top.out + j) - Top.out = j
    BY <1>5 DEF Span
  <2>2. QED
    BY <1>1, <1>8, <2>1
<1> HIDE DEF f
<1>12. QED
  BY <1>0, <1>1, <1>3, <1>4, <1>7, <1>10, <1>11, TopStep

\* A merge that has placed K symbols is over.
LEMMA MergeDoneStep == IInv /\ MergeDone => IInv'
<1> SUFFICES ASSUME IInv, MergeDone PROVE IInv'
  OBVIOUS
<1> DEFINE f == [Top EXCEPT !.pc = "ret"]
<1>1. /\ Depth > 0 /\ Top.pc = "merge" /\ Top.a + Top.b = Top.K
      /\ sched' = sched /\ n' = n /\ mem' = mem /\ outcome' = outcome /\ SetTop(f)
  BY DEF MergeDone
<1>0. outcome' \in {"whole", "short", "refused"} /\ (Whole' => Whole)
  BY <1>1 DEF IInv, TypeOK, Whole
<1>2. Top \in FrameSet /\ Depth \in Nat /\ Top = stack[Depth]
  BY <1>1, TopFacts
<1>3. f \in FrameSet /\ SamePlace(f, Top) /\ f.pc = "ret" /\ Merged(f) = Top.K
  BY <1>1, <1>2 DEF FrameSet, SamePlace, Merged
<1>4. Progress(f)
  BY <1>3 DEF Progress, Inner
<1>5. mem' \in [Addr -> Int \X Int]
  BY <1>1 DEF IInv, TypeOK
<1>6. ASSUME Whole PROVE \A j \in 0 .. (Merged(f) - 1) : mem'[f.out + j] = <<f.rec, j>>
  <2>1. Merged(Top) = Top.K
    BY <1>1 DEF Merged
  <2>2. Depth \in 1 .. Depth
    BY <1>1, <1>2
  <2>3. \A j \in 0 .. (Merged(Top) - 1) : mem[Top.out + j] = <<Top.rec, j>>
    BY <1>2, <1>6, <2>2 DEF IInv, MergedPrefix
  <2>4. QED
    BY <1>1, <1>3, <2>1, <2>3 DEF SamePlace
<1> HIDE DEF f
<1>7. QED
  BY <1>0, <1>1, <1>3, <1>4, <1>5, <1>6, TopStep

\* The write cursor of an in-place merge never reaches a cell of a child that is
\* still to be read.
LEMMA MergeCursor ==
  ASSUME NEW f \in FrameSet, NEW g \in FrameSet, n \in 0 .. MaxN, Placed(f), Progress(f),
         f.pc = "merge", SamePlace(g, f), g.kr = f.kr, g.pc = "merge",
         \/ g.a = f.a + 1 /\ g.b = f.b /\ f.a < FirstK(f)
         \/ g.a = f.a /\ g.b = f.b + 1 /\ f.b < SecondK(f)
  PROVE  LET x == f.out + (f.a + f.b) IN
         /\ x \in Addr /\ x \in Owned(f)
         /\ x \notin UnreadFirst(g) /\ x \notin UnreadSecond(g)
         /\ UnreadFirst(g) \subseteq UnreadFirst(f) /\ UnreadSecond(g) \subseteq UnreadSecond(f)
         /\ Progress(g)
<1> DEFINE x == f.out + (f.a + f.b)
<1>1. /\ f.K \in Nat /\ f.out \in Int /\ f.tmp \in Nat /\ f.K <= MaxN
      /\ f.a \in Nat /\ f.b \in Nat /\ g.a \in Nat /\ g.b \in Nat
      /\ MaxN \in Nat /\ MaxN > 0 /\ n \in Nat /\ n <= MaxN
  BY MaxNAssumption DEF FrameSet, Addr, Symbols
<1>2. f.kr <= f.K /\ f.a <= FirstK(f) /\ f.b <= SecondK(f)
      /\ KindOf(f) \in {"LEAF_LEFT", "FULL"}
  BY DEF Progress, Inner
<1>3. /\ FirstK(f) \in 0 .. f.K /\ SecondK(f) \in 0 .. f.K
      /\ SecondK(f) = f.K - FirstK(f)
      /\ KindOf(f) = "FULL" => SecondK(f) <= Half(f.K)
  BY <1>2, SplitFacts
<1>4. /\ KindOf(g) = KindOf(f) /\ FirstK(g) = FirstK(f) /\ SecondK(g) = SecondK(f)
      /\ FirstOut(g) = FirstOut(f) /\ SecondOut(g) = SecondOut(f)
  BY DEF SamePlace, KindOf, FirstK, SecondK, RightFirst, FirstOut, SecondOut, AtRoot
<1>5. Progress(g)
  BY <1>1, <1>2, <1>3, <1>4 DEF Progress, SamePlace, Inner
<1>6. Half(f.K) \in Nat /\ 2 * Half(f.K) <= f.K
  BY <1>1, HalfFacts
<1>7. f.a + f.b < f.K
  BY <1>1, <1>2, <1>3
<1>8. x \in Addr /\ x \in Owned(f)
  BY <1>1, <1>6, <1>7 DEF Placed, Owned, Region, Span, AtRoot, Addr, Symbols
<1>9. UnreadFirst(g) \subseteq UnreadFirst(f)
  <2>1. FirstOut(f) \in Int
    BY <1>1, <1>3 DEF FirstOut
  <2>2. QED
    BY <1>1, <1>3, <1>4, <2>1 DEF UnreadFirst, Span
<1>10. UnreadSecond(g) \subseteq UnreadSecond(f)
  <2>1. SecondOut(f) \in Int
    BY <1>1, <1>3 DEF SecondOut
  <2>2. QED
    BY <1>1, <1>3, <1>4, <2>1 DEF UnreadSecond, Span
<1>11. x \notin UnreadFirst(g)
  <2>1. CASE AtRoot(f)
    BY <1>1, <1>3, <1>4, <1>7, <2>1 DEF UnreadFirst, Span, FirstOut, AtRoot, Placed, Symbols
  <2>2. CASE ~AtRoot(f)
    <3>1. FirstOut(f) = f.out + SecondK(f)
      BY <2>2 DEF FirstOut
    <3>2. f.a + f.b < SecondK(f) + g.a
      BY <1>1, <1>2, <1>3
    <3>3. x < FirstOut(g) + g.a /\ FirstOut(g) + g.a \in Int /\ x \in Int
      BY <1>1, <1>3, <1>4, <3>1, <3>2
    <3>4. QED
      BY <3>3 DEF UnreadFirst, Span
  <2>3. QED
    BY <2>1, <2>2
<1>12. x \notin UnreadSecond(g)
  <2>1. CASE KindOf(f) = "LEAF_LEFT"
    BY <1>4, <2>1 DEF UnreadSecond
  <2>2. CASE KindOf(f) = "FULL" /\ AtRoot(f)
    BY <1>1, <1>3, <1>4, <1>7, <2>2 DEF UnreadSecond, Span, SecondOut, AtRoot, Placed, Symbols
  <2>3. CASE KindOf(f) = "FULL" /\ ~AtRoot(f)
    <3>1. /\ SecondOut(f) = f.tmp /\ SecondK(f) <= Half(f.K)
          /\ f.out + f.K <= f.tmp \/ f.tmp + Half(f.K) <= f.out
      BY <1>3, <2>3 DEF SecondOut, Placed
    <3>2. x \in Int /\ (x < f.tmp + g.b \/ x >= f.tmp + SecondK(f))
      BY <1>1, <1>3, <1>6, <1>7, <3>1
    <3>3. x \notin (f.tmp + g.b) .. (f.tmp + g.b + (SecondK(f) - g.b) - 1)
      BY <1>1, <1>3, <3>2
    <3>4. QED
      BY <1>4, <3>1, <3>3 DEF UnreadSecond, Span
  <2>4. QED
    BY <1>2, <2>1, <2>2, <2>3
<1>13. QED
  BY <1>5, <1>8, <1>9, <1>10, <1>11, <1>12

\* A merge step reads a child's symbol where the child left it, and puts it in
\* its place.
LEMMA MergeStepStep ==
  ASSUME IInv, NEW fromFirst \in BOOLEAN, MergeStep(fromFirst)
  PROVE  IInv'
<1> DEFINE f == Top
           g == IF fromFirst THEN [Top EXCEPT !.a = @ + 1] ELSE [Top EXCEPT !.b = @ + 1]
           x0 == f.out + (f.a + f.b)
<1>1. /\ Depth > 0 /\ f.pc = "merge" /\ SetTop(g) /\ sched' = sched /\ n' = n
      /\ IF fromFirst THEN f.a < FirstK(f) ELSE f.b < SecondK(f)
  BY DEF MergeStep
<1>2. /\ f \in FrameSet /\ Progress(f) /\ Placed(f) /\ n \in 0 .. MaxN
      /\ Depth \in Nat /\ Top = stack[Depth]
  BY <1>1, TopFacts
<1>3. /\ f.K \in Nat /\ f.out \in Int /\ f.tmp \in Nat /\ f.K <= MaxN
      /\ f.a \in Nat /\ f.b \in Nat /\ f.rec \in Nat
      /\ MaxN \in Nat /\ MaxN > 0 /\ n \in Nat /\ n <= MaxN
  BY <1>2, MaxNAssumption DEF FrameSet, Addr, Symbols
<1>4. f.kr <= f.K /\ f.a <= FirstK(f) /\ f.b <= SecondK(f)
      /\ KindOf(f) \in {"LEAF_LEFT", "FULL"}
  BY <1>1, <1>2 DEF Progress, Inner
<1>5. /\ FirstK(f) \in 0 .. f.K /\ SecondK(f) \in 0 .. f.K
      /\ SecondK(f) = f.K - FirstK(f)
  BY <1>2, <1>4, SplitFacts
<1>6. /\ SamePlace(g, f) /\ g.kr = f.kr /\ g.pc = "merge"
      /\ \/ g.a = f.a + 1 /\ g.b = f.b /\ f.a < FirstK(f)
         \/ g.a = f.a /\ g.b = f.b + 1 /\ f.b < SecondK(f)
  BY <1>1, <1>2 DEF FrameSet, SamePlace
<1>7. g \in FrameSet
  <2>1. f.a < FirstK(f) => f.a + 1 \in 0 .. MaxN
    BY <1>3, <1>5
  <2>2. f.b < SecondK(f) => f.b + 1 \in 0 .. MaxN
    BY <1>3, <1>5
  <2>3. QED
    BY <1>1, <1>2, <2>1, <2>2 DEF FrameSet
<1> HIDE DEF g
<1>8. /\ x0 \in Addr /\ x0 \in Owned(f)
      /\ x0 \notin UnreadFirst(g) /\ x0 \notin UnreadSecond(g)
      /\ UnreadFirst(g) \subseteq UnreadFirst(f) /\ UnreadSecond(g) \subseteq UnreadSecond(f)
      /\ Progress(g)
  BY <1>1, <1>2, <1>6, <1>7, MergeCursor
<1>0. outcome' = outcome /\ outcome' \in {"whole", "short", "refused"} /\ (Whole' => Whole)
  BY DEF MergeStep, IInv, TypeOK, Whole
<1>9. ASSUME Whole
      PROVE
      /\ \A x \in UnreadFirst(f) : mem[x] = <<FirstRec(f), x - FirstOut(f)>>
      /\ \A x \in UnreadSecond(f) : mem[x] = <<SecondRec(f), x - SecondOut(f)>>
      /\ \A j \in 0 .. (f.a + f.b - 1) : mem[f.out + j] = <<f.rec, j>>
  <2>1. Depth \in 1 .. Depth
    BY <1>1, <1>2
  <2>2. /\ \A x \in UnreadFirst(f) : mem[x] = <<FirstRec(f), x - FirstOut(f)>>
        /\ \A x \in UnreadSecond(f) : mem[x] = <<SecondRec(f), x - SecondOut(f)>>
    BY <1>1, <1>2, <1>9, <2>1 DEF IInv, ChildrenSurvive
  <2>3. Merged(f) = f.a + f.b
    BY <1>1 DEF Merged
  <2>4. \A j \in 0 .. (Merged(f) - 1) : mem[f.out + j] = <<f.rec, j>>
    BY <1>2, <1>9, <2>1 DEF IInv, MergedPrefix
  <2>5. \A j \in 0 .. (f.a + f.b - 1) : mem[f.out + j] = <<f.rec, j>>
    <3> TAKE j \in 0 .. (f.a + f.b - 1)
    <3>1. j \in 0 .. (Merged(f) - 1)
      BY <1>3, <2>3
    <3>2. QED
      BY <2>4, <3>1
  <2>6. QED
    BY <2>2, <2>5
<1>10. FirstOut(f) \in Int /\ SecondOut(f) \in Int
  BY <1>3, <1>5 DEF FirstOut, SecondOut
<1>11. Whole /\ fromFirst => mem[FirstOut(f) + f.a] = <<FirstRec(f), f.a>>
  <2>1. f.a < FirstK(f) => FirstOut(f) + f.a \in UnreadFirst(f)
    BY <1>3, <1>5, <1>10 DEF UnreadFirst, Span
  <2>2. (FirstOut(f) + f.a) - FirstOut(f) = f.a
    BY <1>3, <1>10
  <2>3. Whole /\ fromFirst => mem[FirstOut(f) + f.a] = <<FirstRec(f), (FirstOut(f) + f.a) - FirstOut(f)>>
    <3>1. fromFirst => FirstOut(f) + f.a \in UnreadFirst(f)
      BY <1>1, <2>1
    <3>2. QED
      BY <1>9, <3>1
  <2>4. QED
    BY <2>2, <2>3
<1>12. Whole /\ ~fromFirst => \/ KindOf(f) = "LEAF_LEFT"
                              \/ mem[SecondOut(f) + f.b] = <<SecondRec(f), f.b>>
  <2>1. f.b < SecondK(f) /\ KindOf(f) # "LEAF_LEFT" => SecondOut(f) + f.b \in UnreadSecond(f)
    BY <1>3, <1>5, <1>10 DEF UnreadSecond, Span
  <2>2. (SecondOut(f) + f.b) - SecondOut(f) = f.b
    BY <1>3, <1>10
  <2>3. Whole /\ ~fromFirst /\ KindOf(f) # "LEAF_LEFT" =>
          mem[SecondOut(f) + f.b] = <<SecondRec(f), (SecondOut(f) + f.b) - SecondOut(f)>>
    BY <1>1, <1>9, <2>1
  <2>4. QED
    BY <2>2, <2>3
<1>13. PICK v \in {<<f.rec, f.a + f.b>>, Stale} :
         mem' = [mem EXCEPT ![x0] = v] /\ (Whole => v = <<f.rec, f.a + f.b>>)
  BY <1>11, <1>12 DEF MergeStep
<1>14. mem \in [Addr -> Int \X Int]
  BY DEF IInv, TypeOK
<1>15. /\ mem' \in [Addr -> Int \X Int]
       /\ mem'[x0] = v
       /\ \A x \in Addr : x # x0 => mem'[x] = mem[x]
  <2>1. v \in Int \X Int
    BY <1>3, <1>13 DEF Stale
  <2>2. QED
    BY <1>8, <1>13, <1>14, <2>1
<1>16. \A x \in Addr : x \notin Owned(Top) => mem'[x] = mem[x]
  BY <1>8, <1>15
<1>17. Live(f) \subseteq Addr
  BY <1>2, LiveInAddr
<1>18. ASSUME Whole
       PROVE
       /\ \A x \in UnreadFirst(g) : mem'[x] = <<FirstRec(g), x - FirstOut(g)>>
       /\ \A x \in UnreadSecond(g) : mem'[x] = <<SecondRec(g), x - SecondOut(g)>>
  <2>1. UnreadFirst(f) \subseteq Addr /\ UnreadSecond(f) \subseteq Addr
    BY <1>1, <1>17 DEF Live
  <2>2. /\ FirstRec(g) = FirstRec(f) /\ FirstOut(g) = FirstOut(f)
        /\ SecondRec(g) = SecondRec(f) /\ SecondOut(g) = SecondOut(f)
    BY <1>6 DEF SamePlace, FirstRec, SecondRec, FirstOut, SecondOut, LeftRec, RightRec,
                KindOf, FirstK, SecondK, RightFirst, AtRoot
  <2>3. \A x \in UnreadFirst(g) : x \in Addr /\ x # x0 /\ x \in UnreadFirst(f)
    BY <1>8, <2>1
  <2>4. \A x \in UnreadSecond(g) : x \in Addr /\ x # x0 /\ x \in UnreadSecond(f)
    BY <1>8, <2>1
  <2>5. QED
    BY <1>9, <1>15, <1>18, <2>2, <2>3, <2>4
<1>19. ASSUME Whole PROVE \A j \in 0 .. (Merged(g) - 1) : mem'[g.out + j] = <<g.rec, j>>
  <2>1. Merged(g) = f.a + f.b + 1
    BY <1>3, <1>6 DEF Merged
  <2>2. ASSUME NEW j \in 0 .. (f.a + f.b) PROVE mem'[f.out + j] = <<f.rec, j>>
    <3>1. CASE j = f.a + f.b
      BY <1>13, <1>15, <1>19, <3>1
    <3>2. CASE j # f.a + f.b
      <4>1. j \in 0 .. (f.a + f.b - 1) /\ f.out + j # x0
        BY <1>3, <3>2
      <4>2. f.out + j \in Addr
        <5>1. f.out <= f.out + j /\ f.out + j < x0 /\ f.out \in Addr
          BY <1>2, <1>3, <4>1 DEF FrameSet
        <5>2. QED
          BY <1>3, <1>8, <5>1 DEF Addr, Symbols
      <4>3. QED
        BY <1>9, <1>15, <1>19, <4>1, <4>2
    <3>3. QED
      BY <3>1, <3>2
  <2>3. QED
    BY <1>3, <1>6, <2>1, <2>2 DEF SamePlace
<1>20. g.pc \notin {"first", "second"}
  BY <1>6
<1>21. QED
  BY <1>0, <1>1, <1>6, <1>7, <1>8, <1>15, <1>16, <1>18, <1>19, <1>20, TopStep

\* A call that places the callee inside what the top activation owns, away from
\* the children it still has to merge, keeps the invariant.
LEMMA CallStep ==
  ASSUME IInv, Depth > 0, sched' = sched, n' = n, mem' = mem, outcome' = outcome,
         NEW f \in FrameSet, NEW c \in FrameSet, Call(f, c), SamePlace(f, Top),
         Progress(f), f.pc \in {"first", "second"},
         f.pc = "second" => Top.pc = "firstDone" /\ f.kr = Top.kr /\ f.a = Top.a,
         SamePlace(c, Callee(f)), c.rec \in DOMAIN sched, c.pc = "enter",
         Progress(c), Placed(c), ~AtRoot(c),
         Owned(c) \subseteq Owned(f),
         \A x \in Owned(c) : x \notin Live(f)
  PROVE  IInv'
<1>1. /\ Depth \in Nat /\ Depth = Len(stack) /\ stack \in Seq(FrameSet)
      /\ Top = stack[Depth] /\ Top \in FrameSet /\ Top.rec \in DOMAIN sched
      /\ Progress(Top) /\ Placed(Top) /\ (AtRoot(Top) <=> Depth = 1)
  BY TopFacts
<1>2. /\ stack' \in Seq(FrameSet) /\ Len(stack') = Depth + 1
      /\ stack'[Depth] = f /\ stack'[Depth + 1] = c
      /\ \A i \in 1 .. (Depth - 1) : stack'[i] = stack[i]
  BY <1>1, ReplaceAndAppend DEF Call
<1>3. Depth' = Depth + 1
  BY <1>1, <1>2 DEF Depth
<1>4. TypeOK'
  <2>1. \A i \in 1 .. (Depth + 1) : stack'[i].rec \in DOMAIN sched
    BY <1>1, <1>2 DEF TypeOK, SamePlace, IInv
  <2>2. n \in 0 .. MaxN /\ sched \in Scheds /\ mem \in [Addr -> Int \X Int]
        /\ outcome \in {"whole", "short", "refused"}
    BY DEF TypeOK, IInv
  <2>3. QED
    BY <1>2, <1>3, <2>1, <2>2 DEF TypeOK
<1>5. \A i \in 1 .. Depth' : Progress(stack[i])' /\ Placed(stack[i])'
  <2>1. Placed(f)
    BY <1>1 DEF Placed, SamePlace, AtRoot
  <2>2. \A i \in 1 .. (Depth + 1) : Progress(stack'[i]) /\ Placed(stack'[i])
    BY <1>1, <1>2, <2>1 DEF IInv
  <2>3. QED
    BY <1>3, <2>2, SameOperators
<1>6. Waiting'
  <2>1. AtRoot(f) <=> Depth = 1
    BY <1>1 DEF AtRoot, SamePlace
  <2>2. ASSUME NEW i \in 1 .. Depth
        PROVE  /\ stack'[i].pc \in {"first", "second"}
               /\ SamePlace(stack'[i + 1], Callee(stack'[i]))
    <3>1. CASE i = Depth
      BY <1>2, <3>1
    <3>2. CASE i = Depth - 1
      <4>1. i \in 1 .. (Depth - 1) /\ i + 1 = Depth
        BY <1>1, <3>2
      <4>2. stack[i].pc \in {"first", "second"} /\ SamePlace(stack[i + 1], Callee(stack[i]))
        BY <4>1 DEF IInv, Waiting
      <4>3. QED
        BY <1>1, <1>2, <4>1, <4>2 DEF SamePlace
    <3>3. CASE i # Depth /\ i # Depth - 1
      <4>1. i \in 1 .. (Depth - 1) /\ i + 1 \in 1 .. (Depth - 1)
        BY <1>1, <3>3
      <4>2. stack[i].pc \in {"first", "second"} /\ SamePlace(stack[i + 1], Callee(stack[i]))
        BY <4>1 DEF IInv, Waiting
      <4>3. QED
        BY <1>2, <4>1, <4>2
    <3>4. QED
      BY <3>1, <3>2, <3>3
  <2>3. \A i \in 1 .. (Depth + 1) : AtRoot(stack'[i]) <=> i = 1
    BY <1>1, <1>2, <2>1 DEF IInv, Waiting
  <2>4. stack'[Depth + 1].pc \notin {"first", "second"}
    BY <1>2
  <2>5. QED
    BY <1>1, <1>2, <1>3, <2>2, <2>3, <2>4, SameOperators DEF Waiting, Top, AtRoot, SamePlace
<1>7. Nested'
  <2>1. Owned(f) = Owned(Top)
    BY DEF Owned, Region, AtRoot, SamePlace
  <2>2. ASSUME NEW j \in 1 .. (Depth + 1), NEW i \in 1 .. (j - 1)
        PROVE  \A x \in Owned(stack'[j]) : x \in Owned(stack'[i]) /\ x \notin Live(stack'[i])
    <3>1. i \in 1 .. Depth /\ (i = Depth => j = Depth + 1)
      BY <1>1
    <3>2. CASE j \in 1 .. Depth
      <4>1. i \in 1 .. (Depth - 1) /\ Owned(stack'[j]) = Owned(stack[j])
        BY <1>1, <1>2, <2>1, <3>2
      <4>2. \A x \in Owned(stack[j]) : x \in Owned(stack[i]) /\ x \notin Live(stack[i])
        BY <3>2 DEF IInv, Nested
      <4>3. QED
        BY <1>2, <4>1, <4>2
    <3>3. CASE j = Depth + 1 /\ i = Depth
      BY <1>2, <3>3
    <3>4. CASE j = Depth + 1 /\ i # Depth
      <4>1. i \in 1 .. (Depth - 1) /\ Depth \in 1 .. Depth
        BY <1>1, <3>1, <3>4
      <4>2. \A x \in Owned(stack[Depth]) : x \in Owned(stack[i]) /\ x \notin Live(stack[i])
        BY <4>1 DEF IInv, Nested
      <4>3. QED
        BY <1>1, <1>2, <2>1, <3>4, <4>1, <4>2
    <3>5. QED
      BY <1>1, <3>1, <3>2, <3>3, <3>4
  <2>3. QED
    BY <1>3, <2>2, SameOperators DEF Nested
<1>8. ChildrenSurvive'
  <2>0. SUFFICES ASSUME Whole PROVE ChildrenSurvive'
    BY DEF ChildrenSurvive, Whole
  <2>1. ASSUME NEW i \in 1 .. (Depth + 1)
        PROVE  /\ stack'[i].pc \in {"firstDone", "second", "merge"} =>
                    \A x \in UnreadFirst(stack'[i]) :
                       mem[x] = <<FirstRec(stack'[i]), x - FirstOut(stack'[i])>>
               /\ stack'[i].pc = "merge" =>
                    \A x \in UnreadSecond(stack'[i]) :
                       mem[x] = <<SecondRec(stack'[i]), x - SecondOut(stack'[i])>>
    <3>1. CASE i \in 1 .. (Depth - 1)
      <4>1. i \in 1 .. Depth
        BY <1>1, <3>1
      <4>2. QED
        BY <1>2, <2>0, <3>1, <4>1 DEF IInv, ChildrenSurvive
    <3>2. CASE i = Depth /\ f.pc = "second"
      <4>1. /\ UnreadFirst(f) = UnreadFirst(Top) /\ FirstRec(f) = FirstRec(Top)
            /\ FirstOut(f) = FirstOut(Top)
        BY <3>2 DEF SamePlace, UnreadFirst, FirstRec, FirstOut, LeftRec, RightRec, KindOf,
                    FirstK, SecondK, RightFirst, AtRoot
      <4>2. \A x \in UnreadFirst(Top) : mem[x] = <<FirstRec(Top), x - FirstOut(Top)>>
        BY <1>1, <2>0, <3>2 DEF IInv, ChildrenSurvive
      <4>3. QED
        BY <1>2, <3>2, <4>1, <4>2
    <3>3. CASE i = Depth /\ f.pc = "first"
      BY <1>2, <3>3
    <3>4. CASE i = Depth + 1
      BY <1>2, <3>4
    <3>5. QED
      BY <1>1, <3>1, <3>2, <3>3, <3>4
  <2>2. QED
    BY <1>3, <2>1, SameOperators DEF ChildrenSurvive
<1>9. MergedPrefix'
  <2>1. \A i \in 1 .. (Depth - 1) : Merged(stack[i]) = 0
    BY DEF IInv, Waiting, Merged
  <2>2. \A i \in 1 .. (Depth + 1) : Merged(stack'[i]) = 0
    BY <1>1, <1>2, <2>1 DEF Merged
  <2>3. QED
    BY <1>3, <2>2 DEF MergedPrefix, Merged
<1>10. BlockDecoded'
  BY <1>1, <1>2 DEF BlockDecoded
<1>11. QED
  BY <1>4, <1>5, <1>6, <1>7, <1>8, <1>9, <1>10 DEF IInv

\* The first child is decoded before its parent has anything to lose.
LEMMA CallFirstStep ==
  ASSUME IInv, NEW kr \in 0 .. Top.K, CallFirst(kr)
  PROVE  IInv'
<1> DEFINE f == [Top EXCEPT !.pc = "first", !.kr = kr]
           c == FirstFrame(f)
<1>1. /\ Depth > 0 /\ Top.pc = "enter" /\ Top.K > 0 /\ KindOf(Top) \in {"LEAF_LEFT", "FULL"}
      /\ Call(f, c) /\ sched' = sched /\ n' = n /\ mem' = mem /\ outcome' = outcome
  BY DEF CallFirst
<1>2. /\ Top \in FrameSet /\ Progress(Top) /\ Placed(Top) /\ n \in 0 .. MaxN
      /\ Top.rec \in DOMAIN sched /\ WellFormed(sched)
  BY <1>1, TopFacts
<1>3. Top.K \in Nat /\ Top.K <= MaxN /\ MaxN \in Nat /\ kr \in 0 .. MaxN
  BY <1>2, MaxNAssumption DEF FrameSet
<1>4. /\ f \in FrameSet /\ SamePlace(f, Top) /\ f.pc = "first" /\ f.kr = kr
      /\ f.a = 0 /\ f.b = 0 /\ KindOf(f) = KindOf(Top) /\ f.K > 0
      /\ f.kr <= f.K
  <2>1. Top.a = 0 /\ Top.b = 0
    BY <1>1, <1>2 DEF Progress
  <2>2. f \in FrameSet
    BY <1>2, <1>3 DEF FrameSet
  <2>3. /\ f.rec = Top.rec /\ f.K = Top.K /\ f.out = Top.out /\ f.tmp = Top.tmp
        /\ f.pc = "first" /\ f.kr = kr /\ f.a = Top.a /\ f.b = Top.b
    BY <1>2 DEF FrameSet
  <2> HIDE DEF f
  <2>4. QED
    BY <1>1, <1>3, <2>1, <2>2, <2>3 DEF SamePlace, KindOf
<1>5. Placed(f)
  BY <1>2, <1>4 DEF Placed, SamePlace, AtRoot
<1> HIDE DEF f
<1>6. /\ FirstK(f) \in 0 .. f.K /\ SecondK(f) \in 0 .. f.K
  BY <1>4, SplitFacts
<1>7. Progress(f)
  BY <1>1, <1>4, <1>6 DEF Progress
<1>8. /\ c.K \in 0 .. MaxN /\ c.out \in Addr /\ c.tmp \in Nat
      /\ ~AtRoot(c) /\ Placed(c) /\ Owned(c) \subseteq Owned(f)
  BY <1>2, <1>4, <1>5, FirstPlacement
<1>9. c.rec \in DOMAIN sched /\ c.rec \in Nat
  <2>1. f.rec = Top.rec /\ c.rec = FirstRec(f)
    BY <1>4 DEF SamePlace, FirstFrame, Frame
  <2>2. f.rec + 1 \in DOMAIN sched
    BY <1>1, <1>2, <2>1 DEF WellFormed, KindOf
  <2>3. KindOf(f) = "FULL" => f.rec + sched[f.rec].right \in DOMAIN sched
    BY <1>2, <2>1 DEF WellFormed, KindOf
  <2>4. c.rec \in DOMAIN sched
    BY <1>1, <1>4, <2>1, <2>2, <2>3 DEF FirstRec, LeftRec, RightRec
  <2>5. QED
    BY <1>2, <2>4 DEF WellFormed
<1>10. c.pc = "enter" /\ c.kr = 0 /\ c.a = 0 /\ c.b = 0
  BY DEF FirstFrame, Frame
<1>11. c \in FrameSet
  <2>1. 0 \in 0 .. MaxN
    BY <1>3
  <2>2. c = [rec |-> c.rec, K |-> c.K, out |-> c.out, tmp |-> c.tmp, pc |-> "enter",
             kr |-> 0, a |-> 0, b |-> 0]
    BY DEF FirstFrame, Frame
  <2> HIDE DEF c
  <2>3. QED
    BY <1>8, <1>9, <2>1, <2>2 DEF FrameSet
<1>12. Progress(c)
  BY <1>10 DEF Progress, Inner
<1>13. SamePlace(c, Callee(f))
  BY <1>4 DEF Callee, SamePlace
<1>14. \A x \in Owned(c) : x \notin Live(f)
  BY <1>4 DEF Live
<1>15. /\ f.pc \in {"first", "second"}
       /\ f.pc = "second" => Top.pc = "firstDone" /\ f.kr = Top.kr /\ f.a = Top.a
  BY <1>4
<1> HIDE DEF c
<1>16. QED
  BY <1>1, <1>4, <1>7, <1>8, <1>9, <1>10, <1>11, <1>12, <1>13, <1>14,
     <1>15, CallStep

\* The second child is decoded away from its finished sibling.
LEMMA CallSecondStep == IInv /\ CallSecond => IInv'
<1> SUFFICES ASSUME IInv, CallSecond PROVE IInv'
  OBVIOUS
<1> DEFINE f == [Top EXCEPT !.pc = "second"]
           c == SecondFrame(f)
<1>1. /\ Depth > 0 /\ Top.pc = "firstDone"
      /\ Call(f, SecondFrame(Top)) /\ sched' = sched /\ n' = n /\ mem' = mem
      /\ outcome' = outcome
  BY DEF CallSecond
<1>2. /\ Top \in FrameSet /\ Progress(Top) /\ Placed(Top) /\ n \in 0 .. MaxN
      /\ Top.rec \in DOMAIN sched /\ WellFormed(sched)
  BY <1>1, TopFacts
<1>3. Top.K \in Nat /\ Top.K <= MaxN /\ MaxN \in Nat
  BY <1>2, MaxNAssumption DEF FrameSet
<1>4. /\ Top.kr <= Top.K /\ Top.K > 0 /\ KindOf(Top) = "FULL" /\ Top.a = 0 /\ Top.b = 0
  BY <1>1, <1>2 DEF Progress, Inner
<1>5. /\ f \in FrameSet /\ SamePlace(f, Top) /\ f.pc = "second" /\ f.kr = Top.kr
      /\ f.a = 0 /\ f.b = 0 /\ KindOf(f) = "FULL" /\ f.kr <= f.K
  BY <1>1, <1>2, <1>3, <1>4 DEF FrameSet, SamePlace, KindOf
<1>6. Placed(f)
  BY <1>2, <1>5 DEF Placed, SamePlace, AtRoot
<1> HIDE DEF f
<1>7. SecondFrame(Top) = c
  BY <1>5 DEF SamePlace, SecondFrame, SecondRec, SecondK, SecondOut, SecondTmp, LeftRec,
              RightRec, FirstK, RightFirst, KindOf, AtRoot
<1>8. /\ FirstK(f) \in 0 .. f.K /\ SecondK(f) \in 0 .. f.K
  BY <1>5, SplitFacts
<1>9. Progress(f)
  BY <1>4, <1>5, <1>8 DEF Progress, SamePlace
<1>10. f.K > 0
  BY <1>5, <1>9 DEF Progress, Inner
<1>11. /\ c.K \in 0 .. MaxN /\ c.out \in Addr /\ c.tmp \in Nat
      /\ ~AtRoot(c) /\ Placed(c) /\ Owned(c) \subseteq Owned(f)
      /\ \A x \in Owned(c) : x \notin Span(FirstOut(f), FirstK(f))
  BY <1>2, <1>5, <1>6, <1>10, SecondPlacement
<1>12. c.rec \in DOMAIN sched /\ c.rec \in Nat
  <2>1. f.rec = Top.rec /\ c.rec = SecondRec(f)
    BY <1>5 DEF SamePlace, SecondFrame, Frame
  <2>2. /\ f.rec + 1 \in DOMAIN sched
        /\ f.rec + sched[f.rec].right \in DOMAIN sched
    BY <1>2, <1>4, <2>1 DEF WellFormed, KindOf
  <2>3. c.rec \in DOMAIN sched
    BY <1>5, <2>1, <2>2 DEF SecondRec, LeftRec, RightRec
  <2>4. QED
    BY <1>2, <2>3 DEF WellFormed
<1>13. c.pc = "enter" /\ c.kr = 0 /\ c.a = 0 /\ c.b = 0
  BY DEF SecondFrame, Frame
<1>14. c \in FrameSet
  <2>1. 0 \in 0 .. MaxN
    BY <1>3
  <2>2. c = [rec |-> c.rec, K |-> c.K, out |-> c.out, tmp |-> c.tmp, pc |-> "enter",
             kr |-> 0, a |-> 0, b |-> 0]
    BY DEF SecondFrame, Frame
  <2> HIDE DEF c
  <2>3. QED
    BY <1>11, <1>12, <2>1, <2>2 DEF FrameSet
<1>15. Progress(c)
  BY <1>13 DEF Progress, Inner
<1>16. SamePlace(c, Callee(f))
  BY <1>5 DEF Callee, SamePlace
<1>17. \A x \in Owned(c) : x \notin Live(f)
  <2>1. f.a = 0 /\ FirstOut(f) \in Int /\ FirstK(f) \in Int
    <3>1. f.out \in Int /\ f.K \in Int
      BY <1>5 DEF FrameSet, Addr, Symbols
    <3>2. QED
      BY <1>5, <1>8, <3>1 DEF FirstOut
  <2>2. Live(f) = Span(FirstOut(f), FirstK(f))
    BY <1>5, <2>1 DEF Live, UnreadFirst, Span
  <2>3. QED
    BY <1>11, <2>2
<1> HIDE DEF c
<1>18. f.pc = "second" => Top.pc = "firstDone" /\ f.kr = Top.kr /\ f.a = Top.a
  BY <1>1, <1>4, <1>5
<1>19. QED
  BY <1>1, <1>5, <1>7, <1>9, <1>11, <1>12, <1>13, <1>14, <1>15, <1>16, <1>17, <1>18, CallStep

\* The caller of a finished activation finds its child where it placed it.
LEMMA ReturnStep == IInv /\ Return => IInv'
<1> SUFFICES ASSUME IInv, Return PROVE IInv'
  OBVIOUS
<1>1. /\ Depth > 0 /\ Top.pc = "ret" /\ sched' = sched /\ n' = n /\ mem' = mem
      /\ stack' = [i \in 1 .. (Depth - 1) |->
                     IF i = Depth - 1 THEN Resume(stack[i]) ELSE stack[i]]
  BY DEF Return
<1>0. sched' = sched /\ n' = n /\ mem' = mem /\ outcome' = outcome
  BY DEF Return
<1>2. /\ Depth \in Nat /\ Depth = Len(stack) /\ stack \in Seq(FrameSet)
      /\ Top = stack[Depth] /\ Top \in FrameSet /\ Top.rec \in DOMAIN sched
      /\ Progress(Top) /\ Placed(Top) /\ (AtRoot(Top) <=> Depth = 1)
  BY <1>1, TopFacts
<1>3. \A i \in 1 .. Depth : stack[i] \in FrameSet /\ Progress(stack[i]) /\ Placed(stack[i])
  BY <1>2 DEF IInv
<1>4. ASSUME Whole PROVE \A j \in 0 .. (Top.K - 1) : mem[Top.out + j] = <<Top.rec, j>>
  <2>1. Merged(Top) = Top.K /\ Depth \in 1 .. Depth
    BY <1>1, <1>2 DEF Merged
  <2>2. QED
    BY <1>2, <1>4, <2>1 DEF IInv, MergedPrefix
<1>5. CASE Depth = 1
  <2>1. stack' = <<>>
    BY <1>1, <1>5
  <2>2. Depth' = 0
    BY <2>1 DEF Depth
  <2>3. /\ n \in 0 .. MaxN /\ sched \in Scheds /\ mem \in [Addr -> Int \X Int]
        /\ outcome \in {"whole", "short", "refused"}
    BY DEF IInv, TypeOK
  <2>4. TypeOK'
    <3>1. stack' \in Seq(FrameSet)
      BY <2>1
    <3>2. QED
      BY <1>0, <2>2, <2>3, <3>1 DEF TypeOK
  <2>5. BlockDecoded'
    <3>1. Top.out = Symbols /\ Top.K = n /\ Top.rec = 0
      BY <1>2, <1>5 DEF Placed, AtRoot
    <3>2. QED
      BY <1>0, <1>4, <3>1 DEF BlockDecoded, Symbols, Whole
  <2>6. QED
    BY <2>2, <2>4, <2>5 DEF IInv, Waiting, Nested, ChildrenSurvive, MergedPrefix
<1>6. CASE Depth > 1
  <2> DEFINE d == Depth - 1
             f == stack[d]
             g == Resume(f)
  <2>1. d \in 1 .. Depth /\ d \in 1 .. (Depth - 1) /\ d + 1 = Depth /\ d \in Nat
    BY <1>2, <1>6
  <2>2. f \in FrameSet /\ Progress(f) /\ Placed(f) /\ f.rec \in DOMAIN sched
    BY <1>3, <2>1 DEF IInv, TypeOK
  <2>3. f.pc \in {"first", "second"} /\ SamePlace(Top, Callee(f))
    BY <1>2, <2>1 DEF IInv, Waiting
  <2>4. /\ g \in FrameSet /\ SamePlace(g, f) /\ g.kr = f.kr /\ g.a = 0 /\ g.b = 0
        /\ g.pc = IF f.pc = "first" /\ KindOf(f) = "FULL" THEN "firstDone" ELSE "merge"
    BY <2>2, <2>3 DEF Resume, FrameSet, SamePlace, Progress
  <2>5. KindOf(g) = KindOf(f) /\ KindOf(f) \in {"LEAF_LEFT", "FULL"}
        /\ (f.pc = "second" => KindOf(f) = "FULL")
    BY <2>2, <2>3, <2>4 DEF SamePlace, KindOf, Progress, Inner
  <2>6. /\ FirstK(g) = FirstK(f) /\ SecondK(g) = SecondK(f)
        /\ FirstOut(g) = FirstOut(f) /\ SecondOut(g) = SecondOut(f)
        /\ FirstRec(g) = FirstRec(f) /\ SecondRec(g) = SecondRec(f)
        /\ Owned(g) = Owned(f)
    BY <2>4 DEF SamePlace, KindOf, FirstK, SecondK, RightFirst, FirstOut, SecondOut, AtRoot,
                FirstRec, SecondRec, LeftRec, RightRec, Owned, Region
  <2>7. Progress(g) /\ Placed(g)
    <3>1. f.kr <= f.K /\ f.K > 0 /\ 0 <= FirstK(f) /\ 0 <= SecondK(f)
      <4>1. f.kr <= f.K /\ f.K > 0
        BY <2>2, <2>3 DEF Progress, Inner
      <4>2. QED
        BY <2>2, <4>1, SplitFacts, MaxNAssumption DEF FrameSet
    <3>2. Progress(g)
      BY <2>4, <2>5, <2>6, <3>1 DEF Progress, SamePlace
    <3>3. QED
      BY <2>2, <2>4, <3>2 DEF Placed, SamePlace, AtRoot
  <2>8. /\ stack' \in Seq(FrameSet) /\ Len(stack') = d /\ stack'[d] = g
        /\ \A i \in 1 .. (d - 1) : stack'[i] = stack[i]
    BY <1>1, <1>2, <1>3, <2>1, <2>4
  <2>9. Depth' = d /\ Top' = g
    BY <2>8 DEF Depth, Top
  <2>f. f = stack[d]
    OBVIOUS
  <2> HIDE DEF d, f, g
  <2>10. TypeOK'
    <3>1. \A i \in 1 .. d : stack'[i].rec \in DOMAIN sched
      BY <1>2, <2>1, <2>2, <2>4, <2>8 DEF TypeOK, SamePlace, IInv
    <3>2. n \in 0 .. MaxN /\ sched \in Scheds /\ mem \in [Addr -> Int \X Int]
          /\ outcome \in {"whole", "short", "refused"}
      BY DEF TypeOK, IInv
    <3>3. QED
      BY <1>0, <2>8, <2>9, <3>1, <3>2 DEF TypeOK
  <2>11. \A i \in 1 .. Depth' : Progress(stack[i])' /\ Placed(stack[i])'
    <3>1. \A i \in 1 .. d : Progress(stack'[i]) /\ Placed(stack'[i])
      BY <1>3, <2>1, <2>7, <2>8
    <3>2. QED
      BY <1>0, <2>9, <3>1, SameOperators
  <2>12. Waiting'
    <3>1. \A i \in 1 .. (d - 1) : /\ stack'[i].pc \in {"first", "second"}
                                  /\ SamePlace(stack'[i + 1], Callee(stack'[i]))
      <4> TAKE i \in 1 .. (d - 1)
      <4>1. i \in 1 .. (Depth - 1) /\ i + 1 \in 1 .. d
        BY <2>1
      <4>2. stack[i].pc \in {"first", "second"} /\ SamePlace(stack[i + 1], Callee(stack[i]))
        BY <4>1 DEF IInv, Waiting
      <4>3. SamePlace(stack'[i + 1], stack[i + 1])
        BY <2>1, <2>4, <2>8, <2>f, <4>1 DEF SamePlace
      <4>4. QED
        BY <2>8, <4>2, <4>3 DEF SamePlace
    <3>2. \A i \in 1 .. d : AtRoot(stack'[i]) <=> i = 1
      <4>1. AtRoot(g) <=> AtRoot(f)
        BY <2>4 DEF AtRoot, SamePlace
      <4>2. \A i \in 1 .. Depth : AtRoot(stack[i]) <=> i = 1
        BY DEF IInv, Waiting
      <4>3. \A i \in 1 .. d : AtRoot(stack'[i]) <=> AtRoot(stack[i])
        BY <2>1, <2>8, <2>f, <4>1
      <4>4. QED
        BY <2>1, <4>2, <4>3
    <3>3. g.pc \notin {"first", "second"}
      BY <2>4
    <3>4. QED
      BY <1>0, <2>9, <3>1, <3>2, <3>3, SameOperators DEF Waiting, AtRoot, SamePlace
  <2>13. Nested'
    <3>1. \A i \in 1 .. d : Owned(stack'[i]) = Owned(stack[i])
      BY <2>1, <2>6, <2>8, <2>f
    <3>2. ASSUME NEW j \in 1 .. d, NEW i \in 1 .. (j - 1)
          PROVE  \A x \in Owned(stack'[j]) : x \in Owned(stack'[i]) /\ x \notin Live(stack'[i])
      <4>1. i \in 1 .. (d - 1) /\ i \in 1 .. d /\ j \in 1 .. Depth
        BY <2>1
      <4>2. \A x \in Owned(stack[j]) : x \in Owned(stack[i]) /\ x \notin Live(stack[i])
        BY <4>1 DEF IInv, Nested
      <4>3. QED
        BY <2>8, <3>1, <4>1, <4>2
    <3>3. QED
      BY <1>0, <2>9, <3>2, SameOperators DEF Nested
  <2>14. ChildrenSurvive'
    <3>0. SUFFICES ASSUME Whole PROVE ChildrenSurvive'
      BY <1>0 DEF ChildrenSurvive, Whole
    <3>1. /\ \A x \in UnreadFirst(g) : mem[x] = <<FirstRec(g), x - FirstOut(g)>>
          /\ g.pc = "merge" =>
               \A x \in UnreadSecond(g) : mem[x] = <<SecondRec(g), x - SecondOut(g)>>
      <4>1. /\ f.out \in Int /\ f.tmp \in Int /\ f.K \in Nat /\ FirstK(f) \in Int
            /\ SecondK(f) \in Int /\ FirstOut(f) \in Int /\ SecondOut(f) \in Int
        <5>1. f.out \in Int /\ f.tmp \in Int /\ f.K \in Nat
          BY <2>2, MaxNAssumption DEF FrameSet, Addr, Symbols
        <5>2. FirstK(f) \in Int /\ SecondK(f) \in Int
          BY <2>2, <2>3, SplitFacts DEF Progress, Inner
        <5>3. QED
          BY <5>1, <5>2 DEF FirstOut, SecondOut
      <4>2. CASE f.pc = "first"
        <5>1. /\ Top.rec = FirstRec(f) /\ Top.K = FirstK(f) /\ Top.out = FirstOut(f)
          BY <2>3, <4>2 DEF SamePlace, Callee, FirstFrame, Frame
        <5>2. \A x \in UnreadFirst(g) : mem[x] = <<FirstRec(g), x - FirstOut(g)>>
          <6> TAKE x \in UnreadFirst(g)
          <6>1. x - FirstOut(f) \in 0 .. (FirstK(f) - 1) /\ FirstOut(f) + (x - FirstOut(f)) = x
            BY <2>4, <2>6, <4>1 DEF UnreadFirst, Span
          <6>2. QED
            BY <1>4, <2>6, <3>0, <5>1, <6>1
        <5>3. g.pc = "merge" => UnreadSecond(g) = {}
          BY <2>4, <2>5, <4>2 DEF UnreadSecond
        <5>4. QED
          BY <5>2, <5>3
      <4>3. CASE f.pc = "second"
        <5>1. /\ Top.rec = SecondRec(f) /\ Top.K = SecondK(f) /\ Top.out = SecondOut(f)
          BY <2>3, <4>3 DEF SamePlace, Callee, SecondFrame, Frame
        <5>2. \A x \in UnreadFirst(f) : mem[x] = <<FirstRec(f), x - FirstOut(f)>>
          BY <2>1, <2>f, <3>0, <4>3 DEF IInv, ChildrenSurvive
        <5>3. f.a = 0
          BY <2>2, <4>3 DEF Progress
        <5>4. UnreadFirst(g) = UnreadFirst(f)
          BY <2>4, <2>6, <5>3 DEF UnreadFirst
        <5>5. \A x \in UnreadSecond(g) : mem[x] = <<SecondRec(g), x - SecondOut(g)>>
          <6> TAKE x \in UnreadSecond(g)
          <6>1. /\ x - SecondOut(f) \in 0 .. (SecondK(f) - 1)
                /\ SecondOut(f) + (x - SecondOut(f)) = x
            BY <2>4, <2>5, <2>6, <4>1, <4>3 DEF UnreadSecond, Span
          <6>2. QED
            BY <1>4, <2>6, <3>0, <5>1, <6>1
        <5>6. QED
          BY <2>6, <5>2, <5>4, <5>5
      <4>4. QED
        BY <2>3, <4>2, <4>3
    <3>2. ASSUME NEW i \in 1 .. d
          PROVE  /\ stack'[i].pc \in {"firstDone", "second", "merge"} =>
                      \A x \in UnreadFirst(stack'[i]) :
                         mem[x] = <<FirstRec(stack'[i]), x - FirstOut(stack'[i])>>
                 /\ stack'[i].pc = "merge" =>
                      \A x \in UnreadSecond(stack'[i]) :
                         mem[x] = <<SecondRec(stack'[i]), x - SecondOut(stack'[i])>>
      <4>1. CASE i = d
        BY <2>8, <3>1, <4>1
      <4>2. CASE i # d
        <5>1. i \in 1 .. (d - 1) /\ i \in 1 .. Depth
          BY <2>1, <4>2
        <5>2. QED
          BY <2>8, <3>0, <5>1 DEF IInv, ChildrenSurvive
      <4>3. QED
        BY <4>1, <4>2
    <3>3. QED
      BY <1>0, <2>9, <3>2, SameOperators DEF ChildrenSurvive
  <2>15. MergedPrefix'
    <3>1. \A i \in 1 .. d : Merged(stack'[i]) = 0
      <4> TAKE i \in 1 .. d
      <4>1. CASE i = d
        BY <2>4, <2>8, <4>1 DEF Merged
      <4>2. CASE i # d
        <5>1. i \in 1 .. (d - 1) /\ i \in 1 .. (Depth - 1)
          BY <2>1, <4>2
        <5>2. QED
          BY <2>8, <5>1 DEF IInv, Waiting, Merged
      <4>3. QED
        BY <4>1, <4>2
    <3>2. QED
      BY <1>0, <2>9, <3>1 DEF MergedPrefix, Merged
  <2>16. BlockDecoded'
    BY <2>1, <2>8 DEF BlockDecoded
  <2>17. QED
    BY <2>10, <2>11, <2>12, <2>13, <2>14, <2>15, <2>16 DEF IInv
<1>7. QED
  BY <1>1, <1>2, <1>5, <1>6

\* A new block starts with nothing placed.
LEMMA DecodeBlockStep ==
  ASSUME IInv, NEW k \in 1 .. MaxN, NEW s \in Scheds, DecodeBlock(k, s)
  PROVE  IInv'
<1> DEFINE f == Frame(0, k, Symbols, 0)
<1>1. /\ n' = k /\ sched' = s /\ mem' = [x \in Addr |-> Stale] /\ stack' = <<f>>
      /\ outcome' = "whole"
  BY DEF DecodeBlock
<1>2. MaxN \in Nat /\ MaxN > 0 /\ k \in 0 .. MaxN /\ 0 \in 0 .. MaxN
  BY MaxNAssumption
<1>3. WellFormed(s)
  BY SchedsAssumption
<1>4. /\ f.rec = 0 /\ f.K = k /\ f.out = Symbols /\ f.pc = "enter" /\ f.a = 0 /\ f.b = 0
      /\ f \in FrameSet
  BY <1>2 DEF Frame, FrameSet, Addr, Symbols
<1> HIDE DEF f
<1>5. /\ stack' \in Seq(FrameSet) /\ Len(stack') = 1 /\ stack'[1] = f
  BY <1>1, <1>4
<1>6. Depth' = 1
  BY <1>5 DEF Depth
<1>7. TypeOK'
  <2>1. mem' \in [Addr -> Int \X Int]
    BY <1>1 DEF Stale
  <2>2. \A i \in 1 .. 1 : stack'[i].rec \in DOMAIN s
    BY <1>3, <1>4, <1>5 DEF WellFormed
  <2>3. QED
    BY <1>1, <1>2, <1>5, <1>6, <2>1, <2>2 DEF TypeOK
<1>8. \A i \in 1 .. Depth' : Progress(stack[i])' /\ Placed(stack[i])'
  BY <1>1, <1>4, <1>5, <1>6 DEF Progress, Placed, AtRoot, Inner
<1>9. Waiting'
  BY <1>4, <1>5, <1>6 DEF Waiting, Top, AtRoot
<1>10. Nested'
  BY <1>6 DEF Nested
<1>11. ChildrenSurvive'
  BY <1>4, <1>5, <1>6 DEF ChildrenSurvive
<1>12. MergedPrefix'
  BY <1>4, <1>5, <1>6 DEF MergedPrefix, Merged
<1>13. BlockDecoded'
  BY <1>5 DEF BlockDecoded
<1>14. QED
  BY <1>7, <1>8, <1>9, <1>10, <1>11, <1>12, <1>13 DEF IInv

\* Before the first block nothing is placed.
LEMMA InitInv == Init => IInv
<1> SUFFICES ASSUME Init PROVE IInv
  OBVIOUS
<1>1. n = 0 /\ sched \in Scheds /\ stack = <<>> /\ mem = [x \in Addr |-> Stale]
      /\ outcome = "whole"
  BY DEF Init
<1>2. Depth = 0 /\ stack \in Seq(FrameSet)
  BY <1>1 DEF Depth
<1>3. TypeOK
  <2>1. mem \in [Addr -> Int \X Int]
    BY <1>1 DEF Stale
  <2>2. QED
    BY <1>1, <1>2, <2>1, MaxNAssumption DEF TypeOK
<1>4. BlockDecoded
  BY <1>1 DEF BlockDecoded
<1>5. QED
  BY <1>2, <1>3, <1>4 DEF IInv, Waiting, Nested, ChildrenSurvive, MergedPrefix

\* Every step keeps the invariant.
LEMMA NextInv == IInv /\ [Next]_vars => IInv'
<1> SUFFICES ASSUME IInv, [Next]_vars PROVE IInv'
  OBVIOUS
<1>1. CASE ReturnEmpty
  BY <1>1, ReturnEmptyStep
<1>2. CASE DecodeLeafRegion
  BY <1>2, DecodeLeafRegionStep
<1>3. CASE \E kr \in 0 .. (IF Depth > 0 THEN Top.K ELSE 0) : CallFirst(kr)
  <2>1. PICK kr \in 0 .. (IF Depth > 0 THEN Top.K ELSE 0) : CallFirst(kr)
    BY <1>3
  <2>2. kr \in 0 .. Top.K
    BY <2>1 DEF CallFirst
  <2>3. QED
    BY <2>1, <2>2, CallFirstStep
<1>4. CASE CallSecond
  BY <1>4, CallSecondStep
<1>5. CASE \E fromFirst \in BOOLEAN : MergeStep(fromFirst)
  BY <1>5, MergeStepStep
<1>6. CASE MergeDone
  BY <1>6, MergeDoneStep
<1>7. CASE Return
  BY <1>7, ReturnStep
<1>8. CASE \E k \in 1 .. MaxN, s \in Scheds : DecodeBlock(k, s)
  BY <1>8, DecodeBlockStep
<1>9. CASE UNCHANGED vars
  <2>1. n' = n /\ sched' = sched /\ stack' = stack /\ mem' = mem /\ outcome' = outcome
    BY <1>9 DEF vars
  <2>2. Depth' = Depth
    BY <2>1 DEF Depth
  <2>3. TypeOK' /\ BlockDecoded' /\ MergedPrefix'
    BY <2>1, <2>2 DEF IInv, TypeOK, BlockDecoded, MergedPrefix, Merged, Whole
  <2>4. \A i \in 1 .. Depth' : Progress(stack[i])' /\ Placed(stack[i])'
    BY <2>1, <2>2, SameOperators DEF IInv
  <2>5. Waiting'
    BY <2>1, <2>2, SameOperators DEF IInv, Waiting, Top, AtRoot, SamePlace
  <2>6. Nested'
    BY <2>1, <2>2, SameOperators DEF IInv, Nested
  <2>7. ChildrenSurvive'
    BY <2>1, <2>2, SameOperators DEF IInv, ChildrenSurvive, Whole
  <2>8. QED
    BY <2>3, <2>4, <2>5, <2>6, <2>7 DEF IInv
<1>10. CASE Refuse
  BY <1>10, RefuseStep
<1>11. CASE SkipRegion
  BY <1>11, SkipRegionStep
<1>12. QED
  BY <1>1, <1>2, <1>3, <1>4, <1>5, <1>6, <1>7, <1>8, <1>9, <1>10, <1>11 DEF Next, Step

\* The invariant holds of every behaviour of the walk.
THEOREM Invariance == Spec => []IInv
<1>1. Init => IInv
  BY InitInv
<1>2. IInv /\ [Next]_vars => IInv'
  BY NextInv
<1>3. QED
  BY <1>1, <1>2, PTL DEF Spec

-----------------------------------------------------------------------------
\* What a reader should know.

\* Activations are frames of records of the schedule.
THEOREM TypeCorrect == Spec => []TypeOK
<1>1. IInv => TypeOK
  BY DEF IInv
<1>2. QED
  BY <1>1, Invariance, PTL

\* A decoded child survives until its parent's merge has read it, whatever the
\* table, the block length and the splits.
THEOREM ChildrenAlwaysSurvive == Spec => []ChildrenSurvive
<1>1. IInv => ChildrenSurvive
  BY DEF IInv
<1>2. QED
  BY <1>1, Invariance, PTL

\* A finished decode has put the block's symbols into the caller's buffer.
THEOREM DecodeCorrect == Spec => []BlockDecoded
<1>1. IInv => BlockDecoded
  BY DEF IInv
<1>2. QED
  BY <1>1, Invariance, PTL

\* Every placement satisfies out + 2K <= 2N and tmp + K <= 2N: 2N cells are
\* enough for every block.
THEOREM ArenaSuffices == Spec => []ArenaBound
<1>1. ASSUME IInv, NEW i \in 2 .. Depth
      PROVE  stack[i].out + 2 * stack[i].K <= 2 * n /\ stack[i].tmp + stack[i].K <= 2 * n
  <2>1. Depth \in Nat
    BY <1>1 DEF IInv, TypeOK, Depth
  <2>2. i \in 1 .. Depth /\ i # 1
    BY <2>1
  <2>3. ~AtRoot(stack[i]) /\ Placed(stack[i])
    BY <1>1, <2>2 DEF IInv, Waiting
  <2>4. QED
    BY <2>3 DEF Placed
<1>2. IInv => ArenaBound
  BY <1>1 DEF ArenaBound
<1>3. QED
  BY <1>2, Invariance, PTL

\* No activation ever owns a cell at or past 1.5 N.
THEOREM HighWaterMark == Spec => []HighWater
<1>1. ASSUME IInv, NEW i \in 2 .. Depth
      PROVE  Region(stack[i]) \subseteq 0 .. (n + Half(n) - 1)
  <2>1. Depth \in Nat /\ 1 \in 1 .. Depth /\ i \in 1 .. Depth /\ i # 1 /\ 1 \in 1 .. (i - 1)
    BY <1>1 DEF IInv, TypeOK, Depth
  <2>2. /\ ~AtRoot(stack[i]) /\ AtRoot(stack[1]) /\ Placed(stack[1]) /\ Placed(stack[i])
        /\ stack[1] \in FrameSet /\ stack[i] \in FrameSet
    <3>1. stack \in Seq(FrameSet) /\ Depth = Len(stack)
      BY <1>1 DEF IInv, TypeOK, Depth
    <3>2. stack[1] \in FrameSet /\ stack[i] \in FrameSet
      BY <2>1, <3>1
    <3>3. ~AtRoot(stack[i]) /\ AtRoot(stack[1])
      BY <1>1, <2>1 DEF IInv, Waiting
    <3>4. Placed(stack[1]) /\ Placed(stack[i])
      BY <1>1, <2>1 DEF IInv
    <3>5. QED
      BY <3>2, <3>3, <3>4
  <2>3. \A x \in Owned(stack[i]) : x \in Owned(stack[1])
    BY <1>1, <2>1 DEF IInv, Nested
  <2>4. Owned(stack[1]) = Span(Symbols, n) \cup Span(0, n + Half(n))
    BY <2>2 DEF Owned, Placed
  <2>5. Owned(stack[i]) = Region(stack[i])
    BY <2>2 DEF Owned
  <2>6. \A x \in Region(stack[i]) : x >= 0
    <3>1. stack[i].out >= 0 /\ stack[i].out \in Int /\ stack[i].tmp \in Nat
      BY <2>2 DEF Placed, FrameSet, Addr, Symbols
    <3>2. QED
      BY <3>1 DEF Region, Span
  <2>7. n \in Nat /\ n <= MaxN /\ MaxN \in Nat
    BY <1>1, MaxNAssumption DEF IInv, TypeOK
  <2>8. \A x \in Span(Symbols, n) : x < 0
    BY <2>7 DEF Span, Symbols
  <2>9. \A x \in Region(stack[i]) : x \in Span(0, n + Half(n))
    <3> TAKE x \in Region(stack[i])
    <3>1. x >= 0 /\ x \in Span(Symbols, n) \cup Span(0, n + Half(n))
      BY <2>3, <2>4, <2>5, <2>6
    <3>2. CASE x \in Span(Symbols, n)
      BY <2>7, <3>1, <3>2 DEF Span, Symbols
    <3>3. QED
      BY <3>1, <3>2
  <2>10. QED
    <3>1. Half(n) \in Nat
      BY <2>7, HalfFacts
    <3>2. QED
      BY <2>7, <2>9, <3>1 DEF Span
<1>2. IInv => HighWater
  BY <1>1 DEF HighWater
<1>3. QED
  BY <1>2, Invariance, PTL

\* The scratch suffices for every table, block length and split: the walk's frames are
\* well formed, in the arena and below the high-water.
THEOREM ScratchAlwaysSuffices == Spec => []ScratchSuffices
<1>1. TypeOK /\ ArenaBound /\ HighWater => ScratchSuffices
  BY DEF ScratchSuffices
<1>2. QED
  BY <1>1, TypeCorrect, ArenaSuffices, HighWaterMark, PTL

\* The step that writes into the caller's buffer is the root's, within the block,
\* and what it writes is the final symbol.
LEMMA WriteToSymbols ==
  ASSUME IInv, [Next]_vars, stack # <<>>, NEW x \in Symbols .. -1, mem'[x] # mem[x]
  PROVE  n' = n /\ x < Symbols + n /\ (Whole => mem'[x] = <<0, x - Symbols>>)
<1>1. x \in Int /\ x < 0 /\ x >= Symbols /\ x \in Addr /\ MaxN \in Nat
  BY MaxNAssumption DEF Addr, Symbols
<1>2. CASE DecodeLeafRegion
  <2>1. /\ Depth > 0 /\ n' = n
        /\ mem' = [y \in Addr |-> IF y \in Span(Top.out, Top.K)
                                  THEN <<Top.rec, y - Top.out>> ELSE mem[y]]
    BY <1>2 DEF DecodeLeafRegion
  <2>2. Top \in FrameSet /\ Placed(Top)
    BY <2>1, TopFacts
  <2>3. x \in Span(Top.out, Top.K) /\ mem'[x] = <<Top.rec, x - Top.out>>
    BY <1>1, <2>1
  <2>4. Top.out \in Int /\ Top.K \in Nat
    BY <2>2, <1>1 DEF FrameSet, Addr, Symbols
  <2>5. Top.out <= x /\ x < Top.out + Top.K
    BY <1>1, <2>3, <2>4 DEF Span
  <2>6. AtRoot(Top) /\ Top.rec = 0 /\ Top.K = n
    BY <1>1, <2>2, <2>4, <2>5 DEF Placed
  <2>7. QED
    BY <2>1, <2>3, <2>5, <2>6 DEF AtRoot
<1>3. ASSUME NEW fromFirst \in BOOLEAN, MergeStep(fromFirst)
      PROVE  n' = n /\ x < Symbols + n /\ (Whole => mem'[x] = <<0, x - Symbols>>)
  <2> DEFINE g == IF fromFirst THEN [Top EXCEPT !.a = @ + 1] ELSE [Top EXCEPT !.b = @ + 1]
             x0 == Top.out + (Top.a + Top.b)
  <2>1. /\ Depth > 0 /\ Top.pc = "merge" /\ n' = n /\ sched' = sched /\ SetTop(g)
        /\ IF fromFirst THEN Top.a < FirstK(Top) ELSE Top.b < SecondK(Top)
        /\ \A y \in Addr : y # x0 => mem'[y] = mem[y]
    <3>1. PICK v : mem' = [mem EXCEPT ![x0] = v]
      BY <1>3 DEF MergeStep
    <3>2. DOMAIN mem = Addr
      BY DEF IInv, TypeOK
    <3>3. \A y \in Addr : y # x0 => mem'[y] = mem[y]
      BY <3>1, <3>2
    <3>4. QED
      BY <1>3, <3>3 DEF MergeStep
  <2>2. /\ Top \in FrameSet /\ Placed(Top) /\ Progress(Top) /\ Depth \in Nat /\ Depth = Len(stack)
        /\ stack \in Seq(FrameSet)
    BY <2>1, TopFacts
  <2>3. x = x0
    BY <1>1, <2>1
  <2>4. Top.out \in Int /\ Top.K \in Nat /\ Top.a \in Nat /\ Top.b \in Nat
    BY <1>1, <2>2 DEF FrameSet, Addr, Symbols
  <2>5. AtRoot(Top) /\ Top.rec = 0 /\ Top.K = n
    BY <1>1, <2>2, <2>3, <2>4 DEF Placed
  <2>6. Top.a + Top.b < Top.K
    <3>1. Top.kr <= Top.K /\ Top.a <= FirstK(Top) /\ Top.b <= SecondK(Top)
      BY <2>1, <2>2 DEF Progress, Inner
    <3>2. /\ FirstK(Top) \in 0 .. Top.K /\ SecondK(Top) \in 0 .. Top.K
          /\ SecondK(Top) = Top.K - FirstK(Top)
      BY <2>2, <3>1, SplitFacts
    <3>3. QED
      BY <2>1, <2>4, <3>1, <3>2
  <2>7. /\ g.pc = "merge" /\ g.out = Top.out /\ g.rec = Top.rec
        /\ g.a + g.b = Top.a + Top.b + 1
    <3>1. CASE fromFirst
      <4>1. g = [Top EXCEPT !.a = @ + 1]
        BY <3>1
      <4>2. /\ g.pc = Top.pc /\ g.out = Top.out /\ g.rec = Top.rec
            /\ g.a = Top.a + 1 /\ g.b = Top.b
        BY <2>2, <4>1 DEF FrameSet
      <4>3. QED
        BY <2>1, <2>4, <4>2
    <3>2. CASE ~fromFirst
      <4>1. g = [Top EXCEPT !.b = @ + 1]
        BY <3>2
      <4>2. /\ g.pc = Top.pc /\ g.out = Top.out /\ g.rec = Top.rec
            /\ g.a = Top.a /\ g.b = Top.b + 1
        BY <2>2, <4>1 DEF FrameSet
      <4>3. QED
        BY <2>1, <2>4, <4>2
    <3>3. QED
      BY <1>3, <3>1, <3>2
  <2>8. Depth' = Depth /\ Depth \in 1 .. Depth /\ stack'[Depth] = g
    BY <2>1, <2>2 DEF SetTop, Depth
  <2>9. IInv'
    BY <1>3, MergeStepStep
  <2>0. outcome' = outcome
    BY <1>3 DEF MergeStep
  <2>10. ASSUME Whole
         PROVE
         \A j \in 0 .. (Merged(stack'[Depth]) - 1) :
           mem'[stack'[Depth].out + j] = <<stack'[Depth].rec, j>>
    BY <2>0, <2>8, <2>9, <2>10 DEF IInv, MergedPrefix, Merged, Whole
  <2>11. Merged(g) = Top.a + Top.b + 1
    BY <2>7 DEF Merged
  <2> HIDE DEF g
  <2>12. ASSUME Whole PROVE mem'[Top.out + (Top.a + Top.b)] = <<Top.rec, Top.a + Top.b>>
    <3>1. Top.a + Top.b \in 0 .. (Merged(stack'[Depth]) - 1)
      BY <2>4, <2>8, <2>11
    <3>2. mem'[stack'[Depth].out + (Top.a + Top.b)] = <<stack'[Depth].rec, Top.a + Top.b>>
      BY <2>10, <2>12, <3>1
    <3>3. stack'[Depth].out = Top.out /\ stack'[Depth].rec = Top.rec
      BY <2>7, <2>8
    <3>4. QED
      BY <3>2, <3>3
  <2>13. x - Symbols = Top.a + Top.b /\ x < Symbols + n
    BY <1>1, <2>3, <2>4, <2>5, <2>6 DEF AtRoot
  <2>14. QED
    BY <2>1, <2>3, <2>5, <2>12, <2>13
<1>4. ~(Refuse \/ SkipRegion \/ ReturnEmpty \/ CallSecond \/ MergeDone \/ Return \/ UNCHANGED vars
          \/ \E kr \in 0 .. (IF Depth > 0 THEN Top.K ELSE 0) : CallFirst(kr))
  BY DEF Refuse, SkipRegion, ReturnEmpty, CallSecond, MergeDone, Return, CallFirst, vars
<1>5. ~(\E k \in 1 .. MaxN, s \in Scheds : DecodeBlock(k, s))
  BY DEF DecodeBlock
<1>6. QED
  BY <1>2, <1>3, <1>4, <1>5 DEF Next, Step

\* The caller's buffer is written exactly: within the block, each cell with its
\* final symbol.
THEOREM SymbolsWrittenExactly == Spec => SymbolsExact
<1>1. ASSUME IInv, [Next]_vars
      PROVE  [\A x \in Symbols .. -1 :
                mem'[x] # mem[x] =>
                  \/ n' = n /\ x < Symbols + n /\ (Whole => mem'[x] = <<0, x - Symbols>>)
                  \/ stack = <<>>]_vars
  BY <1>1, WriteToSymbols
<1>2. QED
  BY <1>1, Invariance, PTL DEF Spec, SymbolsExact
=============================================================================
