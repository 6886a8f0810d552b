-------------------------- MODULE RegionCoding_proofs --------------------------
(***************************************************************************)
(* Proofs about the coding of one region, for every region, table, set of  *)
(* enabled coders and outcome of the coders.                               *)
(***************************************************************************)
EXTENDS RegionCoding, WellFoundedInduction, FiniteSetTheorems, TLAPS

-----------------------------------------------------------------------------
\* A nonempty set of numbers up to a bound has a largest one.
LEMMA LargestExists ==
  ASSUME NEW m \in Nat, NEW T \in SUBSET (0 .. m), T # {}
  PROVE  \E i \in T : \A j \in T : j <= i
<1> DEFINE R == OpToRel(<, Nat)
           U == {k \in Nat : m - k \in T}
<1>1. U # {}
  <2>1. PICK i \in T : TRUE
    OBVIOUS
  <2>2. m - i \in Nat /\ m - (m - i) = i
    OBVIOUS
  <2> QED BY <2>1, <2>2
<1>2. U \subseteq Nat /\ IsWellFoundedOn(R, Nat)
  BY NatLessThanWellFounded
<1>3. PICK k \in U : \A l \in U : <<l, k>> \notin R
  <2> HIDE DEF R, U
  <2> QED BY <1>1, <1>2, WFMin
<1>4. \A l \in U : ~(l < k)
  BY <1>3 DEF OpToRel
<1>5. \A j \in T : j <= m - k
  <2>1. SUFFICES ASSUME NEW j \in T PROVE j <= m - k
    OBVIOUS
  <2>2. m - j \in Nat /\ m - (m - j) = j
    OBVIOUS
  <2>3. m - j \in U
    BY <2>2
  <2> QED BY <2>2, <2>3, <1>4, SMTT(30)
<1> QED BY <1>5

-----------------------------------------------------------------------------
\* pivco_fse_select_table returns 0 or the index of a table.
LEMMA SelectTableType ==
  ASSUME NEW r \in Requests
  PROVE  SelectTable(r) \in 0 .. NumTables
<1> DEFINE fit == {i \in 1 .. NumTables : Freq[i] * r.n <= 1000 * Major(r)}
<1>1. NumTables \in Nat
  BY FreqAssumption DEF NumTables
<1>2. CASE fit = {}
  BY <1>1, <1>2 DEF SelectTable
<1>3. CASE fit # {}
  <2>1. fit \in SUBSET (0 .. NumTables)
    BY <1>1
  <2>2. \E i \in fit : \A j \in fit : j <= i
    <3> HIDE DEF fit
    <3> QED BY <1>1, <1>3, <2>1, LargestExists
  <2>3. SelectTable(r) = CHOOSE i \in fit : \A j \in fit : j <= i
    BY <1>3 DEF SelectTable
  <2>4. SelectTable(r) \in fit
    <3> HIDE DEF fit
    <3> QED BY <2>2, <2>3
  <2> QED BY <1>1, <2>4
<1> QED BY <1>2, <1>3

\* What a coder returns is a positive length.
LEMMA OutputsPositive ==
  ASSUME req \in Requests, NEW c, NEW len \in Outputs(c)
  PROVE  len \in Nat /\ len >= 1
BY SizesAssumption DEF Outputs

\* The fields of a request.
LEMMA RequestFields ==
  ASSUME req \in Requests
  PROVE  /\ req.internal \in BOOLEAN /\ req.nbytes \in Nat /\ req.nbytes >= 1
         /\ req.n \in Nat /\ req.left \in Nat /\ req.right \in Nat /\ req.depth \in Nat
         /\ req.internal => req.n > 0 /\ req.n <= 8 * req.nbytes
         /\ Flip(req) \in BOOLEAN
<1>1. req \in [internal : BOOLEAN, root : BOOLEAN, nbytes : Nat \ {0}, n : Nat,
               left : Nat, right : Nat, depth : Nat]
  BY RequestsAssumption
<1> QED BY <1>1, CountsAssumption DEF Flip

\* A payload the speed gate lets pass is shorter than the raw bitmap by more than
\* the two bytes of its length.
LEMMA FastIsSmaller ==
  ASSUME req \in Requests, req.internal, NEW len \in Nat, FastEnough(req, len)
  PROVE  len + 2 < req.nbytes
<1> DEFINE p == req.depth * req.n
<1>1. req.depth \in Nat /\ req.n \in Nat /\ req.nbytes \in Nat /\ req.n > 0 /\ req.n <= 8 * req.nbytes
  BY RequestFields
<1>2. p \in Nat /\ 19 * (req.depth + 1) * req.n = 19 * p + 19 * req.n
  BY <1>1
<1>3. 20 * (p + 8 * (len + 2)) <= 19 * p + 19 * req.n
  BY <1>2 DEF FastEnough
<1> HIDE DEF p
<1> QED BY <1>1, <1>2, <1>3

\* A payload below the bound of its gain is, too.
LEMMA BoundIsSmaller ==
  ASSUME req \in Requests, NEW c \in {"nibble", "k1", "k2", "dHuf0", "dnPH", "snPH"}
  PROVE  /\ LenBound(c, req.nbytes) \in Nat
         /\ \A len \in Nat : len < LenBound(c, req.nbytes) => len + 2 < req.nbytes
<1>1. req.nbytes \in Nat
  BY RequestFields
<1>2. GainInverse[c] \in {4, 5, 10}
  BY DEF GainInverse
<1> DEFINE g == GainInverse[c]
           keep == req.nbytes - req.nbytes \div g
<1>3. keep \in Nat /\ keep <= req.nbytes
  <2>1. CASE g = 4
    BY <1>1, <2>1
  <2>2. CASE g = 5
    BY <1>1, <2>2
  <2>3. CASE g = 10
    BY <1>1, <2>3
  <2> QED BY <1>2, <2>1, <2>2, <2>3
<1>4. LenBound(c, req.nbytes) = IF keep > 2 THEN keep - 2 ELSE 0
  BY DEF LenBound
<1> HIDE DEF keep
<1> QED BY <1>1, <1>3, <1>4

\* Candidates 2 to 7 by their place.
LEMMA CandidateNames ==
  ASSUME NEW i \in 2 .. 7
  PROVE  /\ Coders[i] \in {"nibble", "k1", "k2", "dHuf0", "dnPH", "snPH"}
         /\ i > 5 => Coders[i] \in {"dnPH", "snPH"}
         /\ Coders[i] = "snPH" => i = 7
BY DEF Coders

-----------------------------------------------------------------------------
LEMMA SlotsType ==
  /\ NumTables \in Nat
  /\ \A i \in 2 .. 7 : IdAt(i) \in Slots /\ IdAt(i) >= 1
  /\ \A r \in Requests : SelectTable(r) \in Slots
  /\ 0 \in Slots
  /\ \A s \in Slots : s \in Nat
<1>1. NumTables \in Nat
  BY FreqAssumption DEF NumTables
<1>2. \A r \in Requests : SelectTable(r) \in Slots
  BY <1>1, SelectTableType DEF Slots
<1>3. \A i \in 2 .. 7 : IdAt(i) \in Slots /\ IdAt(i) >= 1
  BY <1>1 DEF IdAt, Slots
<1>4. 0 \in Slots /\ \A s \in Slots : s \in Nat
  BY <1>1 DEF Slots
<1> QED BY <1>1, <1>2, <1>3, <1>4

LEMMA PayloadType ==
  ASSUME NEW id \in Slots, NEW xor \in BOOLEAN, NEW len \in Nat
  PROVE  Payload(id, xor, len) \in [id : Slots, xor : BOOLEAN, len : Nat]
BY DEF Payload

LEMMA JunkType == Junk \in [id : Slots, xor : BOOLEAN, len : Nat]
BY SlotsType, PayloadType DEF Junk

LEMMA InitTypeOK == Init => TypeOK
<1> SUFFICES ASSUME Init PROVE TypeOK
  OBVIOUS
<1>1. req \in Requests /\ table \in [enabled : BOOLEAN, flags : FlagSets, layout : Layouts]
  BY DEF Init
<1>2. pc \in {"pack", "try", "commit", "repack", "read", "done", "failed"} /\ next \in 1 .. 7
  BY DEF Init
<1>3. half \in [0 .. 1 -> [id : Slots, xor : BOOLEAN, len : Nat]] /\ best \in 0 .. 1
  BY JunkType DEF Init
<1>4. bestId \in Slots /\ bestXor \in BOOLEAN /\ bestLen \in Nat
  BY SlotsType DEF Init
<1>5. marker \in [id : Slots, xor : BOOLEAN] /\ cursor \in Nat
  BY SlotsType DEF Init
<1>6. region.form \in {"raw", "coded"} /\ region.payload \in [id : Slots, xor : BOOLEAN, len : Nat]
  BY JunkType DEF Init, Raw
<1> QED BY <1>1, <1>2, <1>3, <1>4, <1>5, <1>6 DEF TypeOK

\* Setting one half, or both, to payloads keeps their type.
LEMMA HalvesType ==
  ASSUME TypeOK, NEW p, NEW q,
         p \in [id : Slots, xor : BOOLEAN, len : Nat], q \in [id : Slots, xor : BOOLEAN, len : Nat]
  PROVE  /\ [half EXCEPT ![1 - best] = p] \in [0 .. 1 -> [id : Slots, xor : BOOLEAN, len : Nat]]
         /\ [half EXCEPT ![best] = p, ![1 - best] = q]
               \in [0 .. 1 -> [id : Slots, xor : BOOLEAN, len : Nat]]
         /\ 1 - best \in 0 .. 1
BY DEF TypeOK

LEMMA StepTypeOK == TypeOK /\ [Next]_vars => TypeOK'
<1> SUFFICES ASSUME TypeOK, [Next]_vars PROVE TypeOK'
  OBVIOUS
<1> USE SlotsType, RequestFields, JunkType
<1>1. CASE Pack
  <2>1. pc' \in {"try", "repack", "read"}
    BY <1>1 DEF Pack
  <2> QED BY <1>1, <2>1 DEF Pack, TypeOK, Raw, encode
<1>2. CASE Skip
  BY <1>2 DEF Skip, Advance, TypeOK, encode
<1>3. CASE TryStatic
  <2>1. half' \in [0 .. 1 -> [id : Slots, xor : BOOLEAN, len : Nat]] /\ bestId' \in Slots
           /\ bestXor' \in BOOLEAN /\ bestLen' \in Nat
    <3>1. CASE half' = [h \in 0 .. 1 |-> Junk] /\ UNCHANGED <<bestId, bestXor, bestLen, results>>
      BY <3>1 DEF TypeOK
    <3>2. ASSUME NEW len \in Outputs("static"),
                 half' = [half EXCEPT ![best] = Payload(SelectTable(req), Flip(req), len),
                                      ![1 - best] = Junk],
                 IF FastEnough(req, len)
                 THEN bestId' = SelectTable(req) /\ bestXor' = Flip(req) /\ bestLen' = len
                 ELSE UNCHANGED <<bestId, bestXor, bestLen>>
          PROVE  half' \in [0 .. 1 -> [id : Slots, xor : BOOLEAN, len : Nat]] /\ bestId' \in Slots
                    /\ bestXor' \in BOOLEAN /\ bestLen' \in Nat
      <4>1. len \in Nat /\ req \in Requests
        BY OutputsPositive DEF TypeOK
      <4>2. SelectTable(req) \in Slots /\ Flip(req) \in BOOLEAN
        BY <4>1
      <4>3. Payload(SelectTable(req), Flip(req), len) \in [id : Slots, xor : BOOLEAN, len : Nat]
        BY <4>1, <4>2, PayloadType
      <4>4. half' \in [0 .. 1 -> [id : Slots, xor : BOOLEAN, len : Nat]]
        BY <3>2, <4>3, HalvesType
      <4>5. bestId' \in Slots /\ bestLen' \in Nat
        BY <3>2, <4>1, <4>2 DEF TypeOK
      <4>6. bestXor' \in BOOLEAN
        BY <3>2, <4>2 DEF TypeOK
      <4> QED BY <4>4, <4>5, <4>6
    <3> QED BY <1>3, <3>1, <3>2 DEF TryStatic
  <2> QED BY <1>3, <2>1 DEF TryStatic, TypeOK
<1>4. CASE TryFitted
  <2>0. next \in 2 .. 7 /\ req \in Requests /\ Flip(req) \in BOOLEAN
    BY <1>4 DEF TryFitted, TypeOK
  <2>1. half' \in [0 .. 1 -> [id : Slots, xor : BOOLEAN, len : Nat]] /\ bestId' \in Slots
           /\ bestXor' \in BOOLEAN /\ bestLen' \in Nat /\ best' \in 0 .. 1
    <3>1. CASE UNCHANGED <<best, bestId, bestXor, bestLen>> /\ half' = [half EXCEPT ![1 - best] = Junk]
      BY <3>1, HalvesType DEF TypeOK
    <3>2. CASE UNCHANGED <<half, best, bestId, bestXor, bestLen>>
      BY <3>2 DEF TypeOK
    <3>3. ASSUME NEW len \in Outputs(Coders[next]),
                 half' = [half EXCEPT ![1 - best] =
                             Payload(IdAt(next), XorOf(Coders[next]), len)],
                 IF len < Limit(Coders[next])
                 THEN /\ best' = Swap /\ bestId' = IdAt(next)
                      /\ bestXor' = XorOf(Coders[next]) /\ bestLen' = len
                 ELSE UNCHANGED <<best, bestId, bestXor, bestLen>>
          PROVE  half' \in [0 .. 1 -> [id : Slots, xor : BOOLEAN, len : Nat]] /\ bestId' \in Slots
                    /\ bestXor' \in BOOLEAN /\ bestLen' \in Nat /\ best' \in 0 .. 1
      <4>1. len \in Nat /\ IdAt(next) \in Slots
        BY <2>0, OutputsPositive
      <4>2. XorOf(Coders[next]) \in BOOLEAN
        BY <2>0 DEF XorOf
      <4>3. Payload(IdAt(next), XorOf(Coders[next]), len) \in [id : Slots, xor : BOOLEAN, len : Nat]
        BY <4>1, <4>2, PayloadType
      <4>4. half' \in [0 .. 1 -> [id : Slots, xor : BOOLEAN, len : Nat]] /\ 1 - best \in 0 .. 1
        BY <3>3, <4>3, HalvesType
      <4>5. bestId' \in Slots /\ bestLen' \in Nat
        BY <3>3, <4>1 DEF TypeOK
      <4>6. bestXor' \in BOOLEAN
        BY <3>3, <4>2 DEF TypeOK
      <4>7. best' \in 0 .. 1
        BY <3>3, <4>4 DEF TypeOK, Swap
      <4> QED BY <4>4, <4>5, <4>6, <4>7
    <3> QED BY <1>4, <3>1, <3>2, <3>3 DEF TryFitted
  <2> QED BY <1>4, <2>1 DEF TryFitted, Advance, TypeOK
<1>5. CASE Commit
  <2>1. half[best] \in [id : Slots, xor : BOOLEAN, len : Nat]
    BY DEF TypeOK
  <2>2. region'.form = "coded" /\ region'.payload = half[best] /\ cursor' = 2 + bestLen
    BY <1>5 DEF Commit
  <2>3. marker' \in [id : Slots, xor : BOOLEAN]
    BY <1>5 DEF Commit, Marker, TypeOK
  <2> QED BY <1>5, <2>1, <2>2, <2>3 DEF Commit, TypeOK, encode
<1>6. CASE Decline
  BY <1>6 DEF Decline, TypeOK, encode
<1>7. CASE Repack
  BY <1>7 DEF Repack, TypeOK, encode, Raw
<1>8. CASE ReadBitmap
  BY <1>8 DEF ReadBitmap, TypeOK, encode
<1>9. CASE ReadFlat
  BY <1>9 DEF ReadFlat, TypeOK, encode
<1>10. CASE FlatNoMemory
  BY <1>10 DEF FlatNoMemory, TypeOK, encode
<1>11. CASE UNCHANGED vars
  BY <1>11 DEF vars, TypeOK
<1> QED BY <1>1, <1>2, <1>3, <1>4, <1>5, <1>6, <1>7, <1>8, <1>9, <1>10, <1>11 DEF Next

\* Slots, lengths, halves and markers stay in their ranges: no coder is counted
\* past the statistics' arrays.
THEOREM TypeCorrect == Spec => []TypeOK
<1>1. Init => TypeOK
  BY InitTypeOK
<1>2. TypeOK /\ [Next]_vars => TypeOK'
  BY StepTypeOK
<1> QED BY <1>1, <1>2, PTL DEF Spec

-----------------------------------------------------------------------------
IInv == TypeOK /\ Staged /\ Packed /\ Readable /\ Fresh /\ Chosen

LEMMA InitIInv == Init => IInv
<1> SUFFICES ASSUME Init PROVE IInv
  OBVIOUS
<1>1. TypeOK
  BY InitTypeOK
<1> QED BY <1>1 DEF Init, IInv, Staged, Packed, Readable, Fresh, Chosen

\* The steps that touch neither what is staged nor what is in the stream.
LEMMA StagedKept ==
  ASSUME IInv, UNCHANGED <<req, encode>>
  PROVE  Staged'
BY DEF IInv, Staged, encode

\* A stream untouched while candidates are tried.
LEMMA StreamKept ==
  ASSUME IInv, pc = "try", pc' \in {"try", "commit"},
         UNCHANGED <<req, table, region, marker, cursor>>
  PROVE  Packed' /\ Readable' /\ Fresh'
<1>1. PackLayout' = PackLayout /\ FlatEligible' = FlatEligible
  BY DEF PackLayout, FlatEligible
<1>2. Packed'
  BY <1>1 DEF IInv, Packed
<1> QED BY <1>2 DEF IInv, Readable, Fresh

\* Candidate 1 leaves its payload in the best half.
LEMMA StaticStaged == IInv /\ TryStatic => Staged'
<1> SUFFICES ASSUME IInv, TryStatic PROVE Staged'
  OBVIOUS
<1>1. req \in Requests /\ req' = req /\ best' = best /\ best \in 0 .. 1 /\ bestId = 0 /\ req.internal
  BY DEF IInv, TypeOK, TryStatic, Chosen, Applies
<1>2. CASE UNCHANGED <<bestId, bestXor, bestLen>>
  BY <1>1, <1>2 DEF Staged
<1>3. ASSUME NEW len \in Outputs("static"), FastEnough(req, len),
             half' = [half EXCEPT ![best] = Payload(SelectTable(req), Flip(req), len),
                                  ![1 - best] = Junk],
             bestId' = SelectTable(req), bestXor' = Flip(req), bestLen' = len
      PROVE  Staged'
  <2>1. len + 2 < req.nbytes
    BY <1>1, <1>3, OutputsPositive, FastIsSmaller
  <2>2. half'[best] = Payload(SelectTable(req), Flip(req), len)
    BY <1>1, <1>3 DEF IInv, TypeOK
  <2> QED BY <1>1, <1>3, <2>1, <2>2 DEF Staged
<1> QED BY <1>2, <1>3 DEF TryStatic

\* A later candidate leaves its payload in the half it swaps to the best, or the
\* best half alone.
LEMMA FittedStaged == IInv /\ TryFitted => Staged'
<1> SUFFICES ASSUME IInv, TryFitted PROVE Staged'
  OBVIOUS
<1> DEFINE c == Coders[next]
<1>1. /\ req \in Requests /\ req' = req /\ best \in 0 .. 1 /\ next \in 2 .. 7
      /\ 1 - best \in 0 .. 1 /\ 1 - best # best /\ DOMAIN half = 0 .. 1
  BY DEF IInv, TypeOK, TryFitted
<1>2. ASSUME UNCHANGED <<best, bestId, bestXor, bestLen>>, half'[best] = half[best]
      PROVE  Staged'
  BY <1>1, <1>2 DEF IInv, Staged
<1>3. CASE UNCHANGED <<best, bestId, bestXor, bestLen>> /\ half' = [half EXCEPT ![1 - best] = Junk]
  <2>1. half'[best] = half[best]
    BY <1>1, <1>3
  <2> QED BY <1>2, <1>3, <2>1
<1>4. CASE UNCHANGED <<half, best, bestId, bestXor, bestLen>>
  BY <1>2, <1>4
<1>5. ASSUME NEW len \in Outputs(c),
             half' = [half EXCEPT ![1 - best] = Payload(IdAt(next), XorOf(c), len)]
      PROVE  half'[best] = half[best] /\ half'[1 - best] = Payload(IdAt(next), XorOf(c), len)
  BY <1>1, <1>5
<1>6. ASSUME NEW len \in Outputs(c),
             half' = [half EXCEPT ![1 - best] = Payload(IdAt(next), XorOf(c), len)],
             len < Limit(c),
             best' = Swap, bestId' = IdAt(next), bestXor' = XorOf(c), bestLen' = len
      PROVE  Staged'
  <2>1. half'[best'] = Payload(bestId', bestXor', bestLen')
    BY <1>5, <1>6 DEF Swap
  <2>2. len \in Nat /\ bestLen \in Nat
    BY <1>1, OutputsPositive DEF IInv, TypeOK
  <2>3. LenBound(c, req.nbytes) \in Nat /\ (len < LenBound(c, req.nbytes) => len + 2 < req.nbytes)
    BY <1>1, <2>2, CandidateNames, BoundIsSmaller
  <2>4. len < LenBound(c, req.nbytes)
    <3> HIDE DEF c
    <3> QED BY <1>6, <2>2, <2>3 DEF Limit
  <2>5. ~req.internal => next <= 5 /\ ~XorOf(c)
    BY <1>1, CandidateNames DEF TryFitted, Applies, XorOf
  <2>6. next <= 5 => IdAt(next) <= IdAt(5)
    BY <1>1, SlotsType DEF IdAt
  <2> QED BY <1>1, <1>6, <2>1, <2>3, <2>4, <2>5, <2>6 DEF Staged, IdAt
<1>7. ASSUME NEW len \in Outputs(c),
             half' = [half EXCEPT ![1 - best] = Payload(IdAt(next), XorOf(c), len)],
             IF len < Limit(c)
             THEN /\ best' = Swap /\ bestId' = IdAt(next)
                  /\ bestXor' = XorOf(c) /\ bestLen' = len
             ELSE UNCHANGED <<best, bestId, bestXor, bestLen>>
      PROVE  Staged'
  <2>1. CASE len < Limit(c)
    BY <1>6, <1>7, <2>1
  <2>2. CASE ~(len < Limit(c))
    BY <1>2, <1>5, <1>7, <2>2
  <2> QED BY <2>1, <2>2
<1> QED BY <1>3, <1>4, <1>7 DEF TryFitted

LEMMA StepIInv == IInv /\ [Next]_vars => IInv'
<1> SUFFICES ASSUME IInv, [Next]_vars PROVE IInv'
  OBVIOUS
<1>0. TypeOK'
  BY StepTypeOK DEF IInv
<1>a. req \in Requests /\ req.internal \in BOOLEAN /\ req.nbytes \in Nat
  BY RequestFields DEF IInv, TypeOK
<1>1. CASE Pack
  <2>1. Staged' /\ Chosen' /\ Fresh'
    <3>1. Staged'
      BY <1>1, StagedKept DEF Pack
    <3>2. Chosen' /\ Fresh'
      BY <1>1 DEF Pack, IInv, Chosen, Fresh, encode
    <3> QED BY <3>1, <3>2
  <2>2. PackLayout' = PackLayout /\ FlatEligible' = FlatEligible
    BY <1>1 DEF Pack, PackLayout, FlatEligible
  <2>3. /\ region' = Raw(IF req.internal THEN Natural ELSE PackLayout) /\ cursor' = req.nbytes
        /\ req' = req /\ table' = table /\ marker' = marker /\ marker = [id |-> 0, xor |-> FALSE]
        /\ pc' \in {"try", "repack", "read"}
        /\ pc' = "try" /\ ~req.internal => FlatEligible
        /\ pc' = "read" /\ ~req.internal => ~FlatEligible
    BY <1>1 DEF Pack, IInv, Readable
  <2>4. Packed'
    BY <2>2, <2>3 DEF Packed, Raw
  <2>5. Readable'
    <3>1. CASE pc' = "read"
      <4>1. ~req.internal => PackLayout = table.layout
        BY <2>3, <3>1 DEF PackLayout
      <4> QED BY <2>3, <3>1, <4>1 DEF Readable
    <3>2. CASE pc' \in {"try", "repack"}
      BY <2>3, <3>2 DEF Readable
    <3> QED BY <2>3, <3>1, <3>2
  <2> QED BY <1>0, <2>1, <2>4, <2>5 DEF IInv
<1>2. CASE Skip
  <2>1. pc = "try" /\ pc' \in {"try", "commit"}
    BY <1>2 DEF Skip, Advance
  <2>2. Chosen'
    BY <1>2 DEF Skip, Advance, Chosen, IInv, TypeOK
  <2>3. Staged'
    BY <1>2, StagedKept DEF Skip
  <2>4. Packed' /\ Readable' /\ Fresh'
    BY <1>2, <2>1, StreamKept DEF Skip
  <2> QED BY <1>0, <2>2, <2>3, <2>4 DEF IInv
<1>3. CASE TryStatic
  <2>1. Packed' /\ Readable' /\ Fresh'
    BY <1>3, StreamKept DEF TryStatic
  <2>2. Chosen'
    BY <1>3 DEF TryStatic, Chosen
  <2> QED BY <1>0, <1>3, <2>1, <2>2, StaticStaged DEF IInv
<1>4. CASE TryFitted
  <2>1. pc = "try" /\ pc' \in {"try", "commit"}
    BY <1>4 DEF TryFitted, Advance
  <2>2. Packed' /\ Readable' /\ Fresh'
    BY <1>4, <2>1, StreamKept DEF TryFitted
  <2>3. Chosen'
    BY <1>4 DEF TryFitted, Advance, Chosen, IInv, TypeOK
  <2> QED BY <1>0, <1>4, <2>2, <2>3, FittedStaged DEF IInv
<1>5. CASE Commit
  <2>1. /\ pc' = "read" /\ marker' = [id |-> bestId, xor |-> bestXor] /\ bestId >= 1
        /\ cursor' = 2 + bestLen /\ req' = req /\ table' = table
        /\ region' = [form |-> "coded", layout |-> region.layout, payload |-> half[best]]
    BY <1>5 DEF Commit, Marker
  <2>2. region.layout = Natural
    BY <1>5 DEF Commit, IInv, Packed, Raw, PackLayout
  <2>3. /\ half[best] = Payload(bestId, bestXor, bestLen) /\ bestLen + 2 < req.nbytes
        /\ ~req.internal => bestId <= IdAt(5) /\ ~bestXor
    BY <2>1 DEF IInv, Staged
  <2>4. bestLen \in Nat
    BY DEF IInv, TypeOK
  <2>5. cursor' - 2 = bestLen /\ cursor' < req.nbytes
    BY <1>a, <2>1, <2>3, <2>4
  <2>6. Readable'
    BY <2>1, <2>2, <2>3, <2>5 DEF Readable, IdAt
  <2>7. Staged'
    BY <1>5, StagedKept DEF Commit
  <2> QED BY <1>0, <2>1, <2>6, <2>7 DEF IInv, Packed, Fresh, Chosen
<1>6. CASE Decline
  <2>1. Staged'
    BY <1>6, StagedKept DEF Decline
  <2>2. Packed' /\ Readable' /\ Fresh' /\ Chosen'
    BY <1>6 DEF Decline, IInv, Packed, Readable, Fresh, Chosen, Raw
  <2> QED BY <1>0, <2>1, <2>2 DEF IInv
<1>7. CASE Repack
  <2>1. Staged'
    BY <1>7, StagedKept DEF Repack
  <2>2. Readable'
    BY <1>7 DEF Repack, IInv, Packed, Readable, Raw, RawLayout
  <2>3. Packed' /\ Fresh' /\ Chosen'
    BY <1>7 DEF Repack, Packed, Fresh, Chosen
  <2> QED BY <1>0, <2>1, <2>2, <2>3 DEF IInv
<1>8. ASSUME pc = "read", pc' \in {"done", "failed"},
             UNCHANGED <<req, table, next, encode, region, marker, cursor>>
      PROVE  IInv'
  <2>1. Staged'
    BY <1>8, StagedKept
  <2>2. Readable'
    BY <1>8 DEF IInv, Readable, IdAt
  <2>3. Packed' /\ Fresh' /\ Chosen'
    BY <1>8 DEF Packed, Fresh, Chosen
  <2> QED BY <1>0, <2>1, <2>2, <2>3 DEF IInv
<1>9. CASE ReadBitmap
  BY <1>8, <1>9 DEF ReadBitmap
<1>10. CASE ReadFlat
  BY <1>8, <1>10 DEF ReadFlat
<1>11. CASE FlatNoMemory
  BY <1>8, <1>11 DEF FlatNoMemory
<1>12. CASE UNCHANGED vars
  <2>1. Staged'
    BY <1>12, StagedKept DEF vars, encode
  <2>2. PackLayout' = PackLayout /\ FlatEligible' = FlatEligible
    BY <1>12 DEF vars, PackLayout, FlatEligible
  <2>3. Packed' /\ Readable' /\ Fresh' /\ Chosen'
    BY <1>12, <2>2 DEF vars, IInv, Packed, Readable, Fresh, Chosen, IdAt
  <2> QED BY <1>0, <2>1, <2>3 DEF IInv
<1> QED BY <1>1, <1>2, <1>3, <1>4, <1>5, <1>6, <1>7, <1>9, <1>10, <1>11, <1>12 DEF Next

LEMMA IInvHolds == Spec => []IInv
<1>1. Init => IInv
  BY InitIInv
<1>2. IInv /\ [Next]_vars => IInv'
  BY StepIInv
<1> QED BY <1>1, <1>2, PTL DEF Spec

-----------------------------------------------------------------------------
\* The decoder gets the encoder's bits in the layout it unpacks them from.
THEOREM RegionRoundTrip == Spec => []RoundTrip
<1>1. Init => RoundTrip
  BY DEF Init, RoundTrip
<1>2. IInv /\ RoundTrip /\ [Next]_vars => RoundTrip'
  <2> SUFFICES ASSUME IInv, RoundTrip, [Next]_vars PROVE RoundTrip'
    OBVIOUS
  <2> USE DEF RoundTrip
  <2>1. CASE ReadBitmap
    <3>1. CASE marker.id = 0
      <4>1. region.form = "raw"
        BY <2>1, <3>1 DEF ReadBitmap, IInv, Readable, Raw
      <4> QED BY <2>1, <3>1, <4>1 DEF ReadBitmap
    <3>2. CASE marker.id # 0
      <4>1. /\ marker.id >= 1
            /\ region.payload = Payload(marker.id, marker.xor, cursor - 2)
        BY <2>1, <3>2 DEF ReadBitmap, IInv, Readable
      <4>2. Decompressed(marker.id, region.payload) /\ marker.xor = region.payload.xor
        BY <2>1, <4>1 DEF Decompressed, Payload, ReadBitmap
      <4> QED BY <2>1, <3>2, <4>2 DEF ReadBitmap
    <3> QED BY <3>1, <3>2
  <2>2. CASE ReadFlat
    <3>1. CASE marker.id = 0
      <4>1. region.form = "raw" /\ region.layout = table.layout
        BY <2>2, <3>1 DEF ReadFlat, IInv, Readable, Raw
      <4> QED BY <2>2, <3>1, <4>1 DEF ReadFlat, UnpackLayout
    <3>2. CASE marker.id # 0
      <4>1. /\ marker.id >= 1 /\ region.layout = Natural
            /\ region.payload = Payload(marker.id, marker.xor, cursor - 2)
            /\ marker.id <= IdAt(5) /\ ~marker.xor
        BY <2>2, <3>2 DEF ReadFlat, IInv, Readable
      <4>2. Decompressed(marker.id, region.payload) /\ ~region.payload.xor
        BY <4>1 DEF Decompressed, Payload
      <4> QED BY <2>2, <3>2, <4>1, <4>2 DEF ReadFlat, UnpackLayout
    <3> QED BY <3>1, <3>2
  <2>3. CASE Pack \/ Skip \/ TryStatic \/ TryFitted \/ Commit \/ Decline \/ Repack \/ FlatNoMemory
    BY <2>3 DEF Pack, Skip, TryStatic, TryFitted, Commit, Decline, Repack, FlatNoMemory, Advance
  <2>4. CASE UNCHANGED vars
    BY <2>4 DEF vars
  <2> QED BY <2>1, <2>2, <2>3, <2>4 DEF Next
<1> QED BY <1>1, <1>2, IInvHolds, PTL DEF Spec

\* It reads exactly the bytes the encoder wrote.
THEOREM RegionInStep == Spec => []InStep
<1>1. Init => InStep
  BY DEF Init, InStep
<1>2. IInv /\ InStep /\ [Next]_vars => InStep'
  <2> SUFFICES ASSUME IInv, InStep, [Next]_vars PROVE InStep'
    OBVIOUS
  <2> USE DEF InStep
  <2>1. CASE ReadBitmap \/ ReadFlat \/ FlatNoMemory
    <3>1. CASE marker.id = 0
      BY <2>1, <3>1 DEF ReadBitmap, ReadFlat, FlatNoMemory, IInv, Readable
    <3>2. CASE marker.id # 0
      <4>1. region.payload = Payload(marker.id, marker.xor, cursor - 2) /\ cursor \in Nat
        BY <2>1, <3>2 DEF ReadBitmap, ReadFlat, FlatNoMemory, IInv, Readable, TypeOK
      <4>2. 2 + region.payload.len = cursor
        BY <4>1 DEF Payload
      <4> QED BY <2>1, <3>2, <4>2 DEF ReadBitmap, ReadFlat, FlatNoMemory
    <3> QED BY <3>1, <3>2
  <2>2. CASE Pack \/ Skip \/ TryStatic \/ TryFitted \/ Commit \/ Decline \/ Repack
    BY <2>2 DEF Pack, Skip, TryStatic, TryFitted, Commit, Decline, Repack, Advance
  <2>3. CASE UNCHANGED vars
    BY <2>3 DEF vars
  <2> QED BY <2>1, <2>2, <2>3 DEF Next
<1> QED BY <1>1, <1>2, IInvHolds, PTL DEF Spec

\* A coded region is smaller than the raw one it replaces.
THEOREM RegionNeverGrows == Spec => []CodedIsSmaller
<1>1. IInv => CodedIsSmaller
  <2> SUFFICES ASSUME IInv PROVE CodedIsSmaller
    OBVIOUS
  <2>1. req.nbytes \in Nat /\ cursor \in Nat
    BY RequestFields DEF IInv, TypeOK
  <2>2. CASE pc \in {"pack", "try", "commit", "repack"}
    BY <2>1, <2>2 DEF IInv, Fresh, Packed, CodedIsSmaller, Raw
  <2>3. CASE pc \in {"read", "done", "failed"}
    BY <2>1, <2>3 DEF IInv, Readable, CodedIsSmaller, Raw
  <2> QED BY <2>2, <2>3 DEF IInv, TypeOK
<1> QED BY <1>1, IInvHolds, PTL

-----------------------------------------------------------------------------
LEMMA PassedKept ==
  ASSUME UNCHANGED <<req, results>>
  PROVE  Passed' = Passed
BY DEF Passed, GateOf

\* One more outcome is one more candidate, if it passes its gate.
LEMMA PassedGrows ==
  ASSUME req' = req, NEW r, results' = results \cup {r}
  PROVE  Passed' = IF GateOf(r.at, r.len) THEN Passed \cup {r} ELSE Passed
BY DEF Passed, GateOf

\* Earlier and SmallestGatedWins survive a step that touches neither the outcomes
\* nor the best so far.
LEMMA WinnerKept ==
  ASSUME Earlier, SmallestGatedWins, UNCHANGED <<req, results, bestId, bestLen>>,
         pc' # "pack", pc' = "try" => pc \in {"pack", "try"} /\ next' >= next,
         next \in 1 .. 7, next' \in 1 .. 7
  PROVE  Earlier' /\ SmallestGatedWins'
<1>1. Passed' = Passed
  BY PassedKept
<1>2. SmallestGatedWins'
  BY <1>1 DEF SmallestGatedWins, IdAt
<1>3. Earlier'
  <2>1. \A r \in results : r.at \in 1 .. 7
    BY DEF Earlier
  <2> QED BY <2>1 DEF Earlier
<1> QED BY <1>2, <1>3

LEMMA StaticWinner ==
  ASSUME IInv, Earlier, SmallestGatedWins, TryStatic
  PROVE  Earlier' /\ SmallestGatedWins'
<1>1. results = {} /\ Passed = {} /\ bestId = 0
  BY DEF Earlier, TryStatic, Passed, IInv, Chosen
<1>2. req \in Requests /\ req' = req /\ pc' = "try" /\ next' = 2 /\ SelectTable(req) >= 1
  BY DEF TryStatic, Applies, IInv, TypeOK
<1>3. CASE UNCHANGED <<bestId, bestXor, bestLen, results>>
  <2>1. Passed' = {}
    BY <1>1, <1>2, <1>3, PassedKept
  <2> QED BY <1>1, <1>2, <1>3, <2>1 DEF Earlier, SmallestGatedWins
<1>4. ASSUME NEW len \in Outputs("static"), results' = {[at |-> 1, len |-> len]},
             IF FastEnough(req, len)
             THEN bestId' = SelectTable(req) /\ bestXor' = Flip(req) /\ bestLen' = len
             ELSE UNCHANGED <<bestId, bestXor, bestLen>>
      PROVE  Earlier' /\ SmallestGatedWins'
  <2> DEFINE r == [at |-> 1, len |-> len]
  <2>1. len \in Nat /\ r.at = 1 /\ r.len = len
    BY <1>2, OutputsPositive
  <2>2. results' = results \cup {r}
    BY <1>1, <1>4
  <2>3. Earlier'
    BY <1>2, <1>4, <2>1 DEF Earlier
  <2>4. GateOf(r.at, r.len) = FastEnough(req, len)
    BY <2>1 DEF GateOf
  <2>5. Passed' = IF FastEnough(req, len) THEN {r} ELSE {}
    <3> HIDE DEF r
    <3> QED BY <1>1, <1>2, <2>2, <2>4, PassedGrows
  <2>6. CASE FastEnough(req, len)
    <3>1. bestLen' = r.len /\ bestId' = SelectTable(req)' /\ Passed' = {r}
      BY <1>2, <1>4, <2>1, <2>5, <2>6
    <3>2. /\ r \in Passed' /\ Passed' # {}
          /\ \A q \in Passed' : r.len < q.len \/ (r.len = q.len /\ r.at <= q.at)
      <4> HIDE DEF r
      <4> QED BY <2>1, <3>1
    <3>3. SmallestGatedWins'
      <4> HIDE DEF r
      <4> QED BY <2>1, <3>1, <3>2 DEF SmallestGatedWins
    <3> QED BY <2>3, <3>3
  <2>7. CASE ~FastEnough(req, len)
    BY <1>1, <1>4, <2>3, <2>5, <2>7 DEF SmallestGatedWins
  <2> QED BY <2>6, <2>7
<1> QED BY <1>3, <1>4 DEF TryStatic

\* The best so far among those that passed.
LEMMA BestIsWinner ==
  ASSUME IInv, Earlier, SmallestGatedWins, Passed # {}
  PROVE  /\ bestId >= 1
         /\ \E w \in Passed :
              /\ \A r \in Passed : w.len < r.len \/ (w.len = r.len /\ w.at <= r.at)
              /\ bestLen = w.len /\ w \in results
              /\ bestId = IF w.at = 1 THEN SelectTable(req) ELSE IdAt(w.at)
<1>1. PICK w \in Passed :
              /\ \A r \in Passed : w.len < r.len \/ (w.len = r.len /\ w.at <= r.at)
              /\ bestLen = w.len
              /\ bestId = IF w.at = 1 THEN SelectTable(req) ELSE IdAt(w.at)
  BY DEF SmallestGatedWins
<1>2. w \in results /\ w.at \in 1 .. 7
  BY DEF Passed, Earlier
<1>3. w.at # 1 => IdAt(w.at) >= 1
  BY <1>2, SlotsType
<1>4. w.at = 1 => SelectTable(req) >= 1
  BY <1>2 DEF Earlier
<1>5. bestId >= 1
  BY <1>1, <1>3, <1>4
<1> QED BY <1>1, <1>2, <1>5

LEMMA FittedWinner ==
  ASSUME IInv, Earlier, SmallestGatedWins, TryFitted
  PROVE  Earlier' /\ SmallestGatedWins'
<1> DEFINE c == Coders[next]
<1>1. /\ req \in Requests /\ req' = req /\ next \in 2 .. 7 /\ pc = "try" /\ bestLen \in Nat
      /\ pc' \in {"try", "commit"} /\ next' \in 1 .. 7 /\ next' >= next
      /\ pc' = "try" => next' = next + 1
  BY DEF TryFitted, Advance, IInv, TypeOK
<1>2. CASE UNCHANGED <<bestId, bestLen, results>>
  BY <1>1, <1>2, WinnerKept
<1>3. ASSUME NEW len \in Outputs(c), results' = results \cup {[at |-> next, len |-> len]},
             IF len < Limit(c)
             THEN bestId' = IdAt(next) /\ bestLen' = len
             ELSE UNCHANGED <<bestId, bestLen>>
      PROVE  Earlier' /\ SmallestGatedWins'
  <2> DEFINE r == [at |-> next, len |-> len]
             bound == LenBound(c, req.nbytes)
  <2>1. len \in Nat /\ r.at = next /\ r.len = len /\ bound \in Nat
    BY <1>1, OutputsPositive, CandidateNames, BoundIsSmaller
  <2>2. Earlier'
    <3>1. results' \subseteq [at : 1 .. 7, len : Nat]
      BY <1>1, <1>3, <2>1 DEF Earlier
    <3>2. pc' = "try" => \A q \in results' : q.at < next'
      BY <1>1, <1>3, <2>1 DEF Earlier
    <3>3. \A q \in results' : q.at = 1 => SelectTable(req)' >= 1
      BY <1>1, <1>3, <2>1 DEF Earlier
    <3> QED BY <1>1, <3>1, <3>2, <3>3 DEF Earlier
  <2>3. Passed' = IF len < bound THEN Passed \cup {r} ELSE Passed
    <3>1. GateOf(r.at, r.len) = (len < bound)
      BY <1>1, <2>1 DEF GateOf
    <3>2. results' = results \cup {r}
      BY <1>3
    <3> HIDE DEF r, bound
    <3> QED BY <1>1, <3>1, <3>2, PassedGrows
  <2>4. Limit(c) = IF bestId >= 1 /\ bestLen < bound THEN bestLen ELSE bound
    BY DEF Limit
  <2>5. CASE len < Limit(c)
    <3> HIDE DEF r, bound, c
    <3>1. len < bound /\ (bestId >= 1 => len < bestLen)
      BY <1>1, <2>1, <2>4, <2>5
    <3>2. Passed' = Passed \cup {r} /\ bestLen' = r.len /\ bestId' = IdAt(r.at)
      BY <1>3, <2>1, <2>3, <2>5, <3>1
    <3>3. \A q \in Passed : r.len < q.len
      <4>1. CASE Passed = {}
        BY <4>1
      <4>2. CASE Passed # {}
        <5>1. bestId >= 1 /\ \A q \in Passed : bestLen <= q.len
          <6>1. \A q \in Passed : q.len \in Nat
            BY DEF Passed, Earlier
          <6> QED BY <1>1, <4>2, <6>1, BestIsWinner
        <5>2. \A q \in Passed : q.len \in Nat
          BY DEF Passed, Earlier
        <5> QED BY <1>1, <2>1, <3>1, <5>1, <5>2
      <4> QED BY <4>1, <4>2
    <3>4. r.at # 1 /\ r.at <= r.at
      BY <1>1, <2>1
    <3>6. \A q \in Passed' : r.len < q.len \/ (r.len = q.len /\ r.at <= q.at)
      BY <3>2, <3>3, <3>4
    <3>7. r \in Passed'
      BY <3>2
    <3>8. bestId' = IF r.at = 1 THEN SelectTable(req)' ELSE IdAt(r.at)
      BY <3>2, <3>4
    <3>9. SmallestGatedWins'
      BY <3>2, <3>6, <3>7, <3>8 DEF SmallestGatedWins, IdAt
    <3> QED BY <2>2, <3>9
  <2>6. CASE ~(len < Limit(c))
    <3> HIDE DEF r, bound, c
    <3>1. UNCHANGED <<bestId, bestLen, req>>
      BY <1>1, <1>3, <2>6
    <3>2. CASE ~(len < bound)
      <4>1. Passed' = Passed
        BY <2>3, <3>2
      <4> QED BY <2>2, <3>1, <4>1 DEF SmallestGatedWins, IdAt
    <3>3. CASE len < bound
      <4>1. bestId >= 1 /\ bestLen <= len /\ Passed' = Passed \cup {r}
        BY <1>1, <2>1, <2>3, <2>4, <2>6, <3>3
      <4>2. Passed # {}
        BY <4>1 DEF SmallestGatedWins
      <4>3. PICK w \in Passed :
              /\ \A q \in Passed : w.len < q.len \/ (w.len = q.len /\ w.at <= q.at)
              /\ bestLen = w.len /\ w \in results
              /\ bestId = IF w.at = 1 THEN SelectTable(req) ELSE IdAt(w.at)
        BY <4>2, BestIsWinner
      <4>4. w.at < r.at /\ w.at \in 1 .. 7
        BY <1>1, <2>1, <4>3 DEF Earlier
      <4>5. w.len < r.len \/ (w.len = r.len /\ w.at <= r.at)
        BY <1>1, <2>1, <4>1, <4>3, <4>4
      <4>6. \A q \in Passed' : w.len < q.len \/ (w.len = q.len /\ w.at <= q.at)
        BY <4>1, <4>3, <4>5
      <4>7. w \in Passed' /\ bestLen' = w.len
            /\ bestId' = IF w.at = 1 THEN SelectTable(req)' ELSE IdAt(w.at)
        BY <3>1, <4>1, <4>3
      <4> QED BY <2>2, <4>6, <4>7 DEF SmallestGatedWins, IdAt
    <3> QED BY <3>2, <3>3
  <2> QED BY <2>5, <2>6
<1> QED BY <1>2, <1>3 DEF TryFitted

\* Earlier and SmallestGatedWins, which are inductive together.
LEMMA WinnerHolds == Spec => [](Earlier /\ SmallestGatedWins)
<1>1. Init => Earlier /\ SmallestGatedWins
  BY DEF Init, Earlier, SmallestGatedWins, Passed
<1>2. IInv /\ IInv' /\ Earlier /\ SmallestGatedWins /\ [Next]_vars => Earlier' /\ SmallestGatedWins'
  <2> SUFFICES ASSUME IInv, IInv', Earlier, SmallestGatedWins, [Next]_vars
               PROVE  Earlier' /\ SmallestGatedWins'
    OBVIOUS
  <2>0. next \in 1 .. 7 /\ next' \in 1 .. 7
    BY DEF IInv, TypeOK
  <2>1. CASE TryStatic
    BY <2>1, StaticWinner
  <2>2. CASE TryFitted
    BY <2>2, FittedWinner
  <2>3. CASE Pack \/ Skip \/ Commit \/ Decline \/ Repack \/ ReadBitmap \/ ReadFlat \/ FlatNoMemory
    <3>1. /\ UNCHANGED <<req, results, bestId, bestLen>> /\ pc' # "pack"
          /\ pc' = "try" => pc \in {"pack", "try"} /\ next' >= next
      <4>1. CASE Pack \/ Skip
        BY <2>0, <4>1 DEF Pack, Skip, Advance, encode
      <4>2. CASE Commit \/ Decline \/ Repack
        BY <4>2 DEF Commit, Decline, Repack, encode
      <4>3. CASE ReadBitmap \/ ReadFlat \/ FlatNoMemory
        BY <4>3 DEF ReadBitmap, ReadFlat, FlatNoMemory, encode
      <4> QED BY <2>3, <4>1, <4>2, <4>3
    <3> QED BY <2>0, <3>1, WinnerKept
  <2>4. CASE UNCHANGED vars
    <3>1. Passed' = Passed
      BY <2>4, PassedKept DEF vars
    <3> QED BY <2>4, <3>1 DEF vars, Earlier, SmallestGatedWins, IdAt
  <2> QED BY <2>1, <2>2, <2>3, <2>4 DEF Next
<1> QED BY <1>1, <1>2, IInvHolds, PTL DEF Spec

\* Of the payloads that pass their own gates the shortest is the best so far, the
\* earliest of equals, after every candidate and when the region is committed.
THEOREM ShortestWins == Spec => []SmallestGatedWins
BY WinnerHolds, PTL

\* BestCommitted: what the encoder commits is the shortest region that passed its coder's
\* gate, and shorter than the raw one.
THEOREM BestIsCommitted == Spec => []BestCommitted
<1>1. TypeOK /\ CodedIsSmaller /\ SmallestGatedWins => BestCommitted
  BY DEF BestCommitted
<1> QED BY <1>1, TypeCorrect, RegionNeverGrows, ShortestWins, PTL

-----------------------------------------------------------------------------
\* Counting touches one counter of one kind.
LEMMA CountKept ==
  ASSUME stats \in [attempt : [Slots -> Nat], commit : [Slots -> Nat]],
         NEW slot \in Slots
  PROVE  /\ Count("attempt", slot).attempt = [stats.attempt EXCEPT ![slot] = @ + 1]
         /\ Count("attempt", slot).commit = stats.commit
         /\ Count("commit", slot).commit = [stats.commit EXCEPT ![slot] = @ + 1]
         /\ Count("commit", slot).attempt = stats.attempt
         /\ Count("attempt", slot) \in [attempt : [Slots -> Nat], commit : [Slots -> Nat]]
         /\ Count("commit", slot) \in [attempt : [Slots -> Nat], commit : [Slots -> Nat]]
         /\ \A s \in Slots : Count("attempt", slot).attempt[s] >= stats.attempt[s]
         /\ Count("attempt", slot).attempt[slot] >= 1
<1>1. /\ stats.attempt \in [Slots -> Nat] /\ stats.commit \in [Slots -> Nat]
      /\ "attempt" \in DOMAIN stats /\ "commit" \in DOMAIN stats
  OBVIOUS
<1>2. /\ Count("attempt", slot).attempt = [stats.attempt EXCEPT ![slot] = @ + 1]
      /\ Count("attempt", slot).commit = stats.commit
      /\ Count("attempt", slot) \in [attempt : [Slots -> Nat], commit : [Slots -> Nat]]
  BY <1>1 DEF Count
<1>3. /\ Count("commit", slot).commit = [stats.commit EXCEPT ![slot] = @ + 1]
      /\ Count("commit", slot).attempt = stats.attempt
      /\ Count("commit", slot) \in [attempt : [Slots -> Nat], commit : [Slots -> Nat]]
  BY <1>1 DEF Count
<1>4. /\ \A s \in Slots : Count("attempt", slot).attempt[s] >= stats.attempt[s]
      /\ Count("attempt", slot).attempt[slot] >= 1
  BY <1>1, <1>2
<1> QED BY <1>2, <1>3, <1>4

\* A try counts itself, whether it becomes the best so far or leaves it alone.
LEMMA TryCounted ==
  ASSUME Counted, pc = "try", pc' \in {"try", "commit"},
         bestId' \in Slots, bestId \in Slots,
         NEW slot \in Slots, stats' = Count("attempt", slot),
         bestId' = bestId \/ bestId' = slot
  PROVE  Counted'
<1>1. stats' \in [attempt : [Slots -> Nat], commit : [Slots -> Nat]]
  BY CountKept DEF Counted
<1>2. stats'.commit = [s \in Slots |-> 0]
  BY CountKept DEF Counted
<1>3. bestId' >= 1 => stats'.attempt[bestId'] >= 1
  <2>1. CASE bestId' = slot
    BY <2>1, CountKept DEF Counted
  <2>2. CASE bestId' = bestId
    <3>1. stats'.attempt[bestId] >= stats.attempt[bestId]
      BY CountKept DEF Counted
    <3>2. stats'.attempt[bestId] \in Nat /\ stats.attempt[bestId] \in Nat
      BY <1>1 DEF Counted
    <3> QED BY <2>2, <3>1, <3>2 DEF Counted
  <2> QED BY <2>1, <2>2
<1> QED BY <1>1, <1>2, <1>3 DEF Counted

\* A choice, of a coder or of none, counts once.
LEMMA ChoiceCounted ==
  ASSUME Counted, pc = "commit", pc' \in {"read", "repack"}, bestId' = bestId,
         NEW slot \in Slots, stats' = Count("commit", slot),
         slot # 0 => bestId >= 1 /\ slot = bestId
  PROVE  Counted'
<1>1. /\ stats' \in [attempt : [Slots -> Nat], commit : [Slots -> Nat]]
      /\ stats'.attempt = stats.attempt
  BY CountKept DEF Counted
<1>2. stats.commit = [s \in Slots |-> 0]
  BY DEF Counted
<1>3. stats'.commit = Unit(slot)
  <2>1. stats'.commit = [stats.commit EXCEPT ![slot] = @ + 1]
    BY CountKept DEF Counted
  <2> QED BY <1>2, <2>1 DEF Unit
<1>4. slot # 0 => stats'.attempt[slot] >= 1
  BY <1>1 DEF Counted
<1>5. \E t \in Slots : stats'.commit = Unit(t) /\ (t # 0 => stats'.attempt[t] >= 1)
  BY <1>3, <1>4
<1>6. bestId' >= 1 => stats'.attempt[bestId'] >= 1
  BY <1>1 DEF Counted
<1> QED BY <1>1, <1>5, <1>6 DEF Counted, Unit

\* A step that counts nothing and chooses nothing.
LEMMA UncountedKept ==
  ASSUME Counted, UNCHANGED <<stats, bestId>>,
         pc' \in {"pack", "repack", "read", "done", "failed"} => results' = {}
           \/ (pc \in {"repack", "read", "done", "failed"} /\ results' = results),
         pc \in {"repack", "read", "done", "failed"} =>
           pc' \in {"repack", "read", "done", "failed"}
  PROVE  Counted'
<1>1. CASE /\ stats.commit = [s \in Slots |-> 0]
           /\ pc \in {"pack", "repack", "read", "done", "failed"} => results = {}
  BY <1>1 DEF Counted
<1>2. CASE /\ pc \in {"repack", "read", "done", "failed"}
           /\ \E slot \in Slots : stats.commit = Unit(slot) /\ (slot # 0 => stats.attempt[slot] >= 1)
  BY <1>2 DEF Counted, Unit
<1> QED BY <1>1, <1>2 DEF Counted

LEMMA CountedStep == IInv /\ IInv' /\ Earlier /\ Counted /\ [Next]_vars => Counted'
<1> SUFFICES ASSUME IInv, IInv', Earlier, Counted, [Next]_vars PROVE Counted'
  OBVIOUS
<1>0. /\ next \in 1 .. 7 /\ req \in Requests /\ bestId \in Slots /\ bestId' \in Slots
  BY DEF IInv, TypeOK
<1>1. CASE Pack
  <2>1. pc = "pack" /\ pc' \in {"try", "repack", "read"} /\ UNCHANGED <<stats, bestId, results>>
    BY <1>1 DEF Pack, encode
  <2>2. results = {}
    BY <2>1 DEF Earlier
  <2> QED BY <2>1, <2>2, UncountedKept
<1>2. CASE Skip
  <2>1. pc = "try" /\ pc' \in {"try", "commit"} /\ UNCHANGED <<stats, bestId, results>>
    BY <1>2 DEF Skip, Advance, encode
  <2> QED BY <2>1, UncountedKept
<1>3. CASE TryStatic
  <2>1. SelectTable(req) \in Slots
    BY <1>0, SlotsType
  <2>2. pc = "try" /\ pc' = "try" /\ stats' = Count("attempt", SelectTable(req))
    BY <1>3 DEF TryStatic
  <2>3. bestId' = bestId \/ bestId' = SelectTable(req)
    BY <1>3 DEF TryStatic
  <2> QED BY <1>0, <2>1, <2>2, <2>3, TryCounted
<1>4. CASE TryFitted
  <2>1. pc = "try" /\ pc' \in {"try", "commit"} /\ next \in 2 .. 7
    BY <1>0, <1>4 DEF TryFitted, Advance
  <2>2. IdAt(next) \in Slots
    BY <2>1, SlotsType
  <2>3. CASE Called(Coders[next])
    <3>1. stats' = Count("attempt", IdAt(next))
      BY <1>4, <2>3 DEF TryFitted
    <3>2. bestId' = bestId \/ bestId' = IdAt(next)
      BY <1>4, <2>3 DEF TryFitted
    <3> QED BY <1>0, <2>1, <2>2, <3>1, <3>2, TryCounted
  <2>4. CASE ~Called(Coders[next])
    <3>1. UNCHANGED <<stats, bestId>>
      BY <1>4, <2>4 DEF TryFitted
    <3> QED BY <2>1, <3>1, UncountedKept
  <2> QED BY <2>3, <2>4
<1>5. CASE Commit
  <2>1. pc = "commit" /\ pc' = "read" /\ bestId' = bestId /\ bestId >= 1
           /\ stats' = Count("commit", bestId)
    BY <1>5 DEF Commit, encode
  <2> QED BY <1>0, <2>1, ChoiceCounted
<1>6. CASE Decline
  <2>1. pc = "commit" /\ pc' = "repack" /\ bestId' = bestId /\ stats' = Count("commit", 0)
    BY <1>6 DEF Decline, encode
  <2> QED BY <2>1, SlotsType, ChoiceCounted
<1>7. CASE Repack \/ ReadBitmap \/ ReadFlat \/ FlatNoMemory
  <2>1. /\ pc \in {"repack", "read"} /\ pc' \in {"read", "done", "failed"}
        /\ UNCHANGED <<stats, bestId, results>>
    BY <1>7 DEF Repack, ReadBitmap, ReadFlat, FlatNoMemory, encode
  <2> QED BY <2>1, UncountedKept
<1>8. CASE UNCHANGED vars
  BY <1>8 DEF vars, Counted, Unit
<1> QED BY <1>1, <1>2, <1>3, <1>4, <1>5, <1>6, <1>7, <1>8 DEF Next

\* A commit counter of 1 in one slot and 0 in the others is one commit.
LEMMA CountedAgrees == Counted => CountersAgree
<1> SUFFICES ASSUME Counted PROVE CountersAgree
  OBVIOUS
<1>1. stats.attempt \in [Slots -> Nat]
  BY DEF Counted
<1>2. CASE /\ stats.commit = [s \in Slots |-> 0]
           /\ pc \in {"pack", "repack", "read", "done", "failed"} => results = {}
  BY <1>1, <1>2 DEF CountersAgree
<1>3. ASSUME pc \in {"repack", "read", "done", "failed"}, NEW slot \in Slots,
             stats.commit = Unit(slot), slot # 0 => stats.attempt[slot] >= 1
      PROVE  CountersAgree
  <2>1. \A s \in Slots : stats.commit[s] = IF s = slot THEN 1 ELSE 0
    BY <1>3 DEF Unit
  <2>2. \A s \in Slots \ {0} : stats.commit[s] <= stats.attempt[s]
    BY <1>1, <1>3, <2>1
  <2>3. {s \in Slots : stats.commit[s] = 1} = {slot}
    BY <1>3, <2>1
  <2>4. Cardinality({slot}) = 1
    BY FS_Singleton
  <2>5. Cardinality({s \in Slots : stats.commit[s] = 1}) = 1
    BY <2>3, <2>4
  <2> QED BY <2>2, <2>5 DEF CountersAgree
<1> QED BY <1>2, <1>3 DEF Counted

\* Counted, the invariant of g_pivco_fse_attempt and g_pivco_fse_commit.
THEOREM CountersInvariant == Spec => []Counted
<1>1. Init => Counted
  <2> SUFFICES ASSUME Init PROVE Counted
    OBVIOUS
  <2>1. stats = [attempt |-> [s \in Slots |-> 0], commit |-> [s \in Slots |-> 0]]
           /\ results = {} /\ bestId = 0
    BY DEF Init
  <2> QED BY <2>1 DEF Counted
<1>2. IInv /\ IInv' /\ Earlier /\ Counted /\ [Next]_vars => Counted'
  BY CountedStep
<1> QED BY <1>1, <1>2, IInvHolds, WinnerHolds, PTL DEF Spec

\* CountersAgree: a coder is counted as committed no more often than as tried, and
\* a region on which some coder returned a payload is counted as decided once.
THEOREM CountersAlwaysAgree == Spec => []CountersAgree
BY CountersInvariant, CountedAgrees, PTL
=============================================================================
