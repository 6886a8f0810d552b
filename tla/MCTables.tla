------------------------------ MODULE MCTables ------------------------------
(***************************************************************************)
(* Sixteen symbols, of which up to thirteen are used, and codes of at most *)
(* four bits.                                                              *)
(***************************************************************************)
EXTENDS Tables

MCSymbols == 0 .. 15

\* Frequencies of up to seven symbols whose trees reach six levels: the limiter clamps up
\* to four leaves, overshoots and shortens again.  The first symbol is unused or the
\* heaviest, and there are chains, bushes and ties.
MCFreqs ==
  {[s \in MCSymbols |-> CASE s = 0 -> heavy [] s \in 1 .. 3 -> light[s]
                           [] s \in 4 .. 6 -> rest[s] [] OTHER -> 0] :
     heavy \in {0, 45}, light \in [1 .. 3 -> {1, 2, 4}], rest \in [4 .. 6 -> {0, 1, 9, 20}]}

\* A heavy symbol above nine: its code is the only one that can grow, which frees more than
\* two codes that then shorten again.
Lopsided ==
  {[s \in MCSymbols |-> CASE s = 0 -> 45 [] s \in 1 .. twos -> 2 [] s \in (twos + 1) .. 9 -> 3
                           [] OTHER -> 0] : twos \in 0 .. 9}

\* Thirteen symbols whose tree is one long spine, each leaf just heavier than the subtree of
\* the last but one: the least frequencies that fill the last of the twelve bins.  And the
\* spine's neighbours, one of its symbols occurring more often.
Spine == <<1, 1, 1, 1, 1, 4, 6, 10, 16, 26, 42, 68, 110>>
Deep ==
  {[s \in MCSymbols |-> IF s > 12 THEN 0 ELSE IF s = extra THEN Spine[s + 1] + by ELSE Spine[s + 1]] :
     extra \in 0 .. 12, by \in {0, 1, 4, 30}}

PlainJobs == [freq : MCFreqs \cup Lopsided \cup Deep, effort : {"plain"}]

\* For the joint pass, two to eight symbols of heavy, middling and light ones.  The heavy
\* ones all saturate, the heaviest first.
RECURSIVE Weights(_, _)
Weights(n, from) ==
  IF n = 0 THEN {<<>>}
  ELSE UNION {{<<w>> \o t : t \in Weights(n - 1, w)} : w \in {w \in {1, 4, 30} : w >= from}}
JointFreqs ==
  UNION {{[s \in MCSymbols |-> IF s >= n THEN 0 ELSE IF w[s + 1] = 30 THEN 37 - s ELSE w[s + 1]] :
            w \in Weights(n, 1)} : n \in 2 .. 8}
MCJobs == PlainJobs \cup [freq : JointFreqs, effort : Efforts \ {"plain"}]

\* Every vector of lengths 0 .. MaxLen + 1 of five symbols, and every vector of lengths
\* 0 .. MaxLen of eight that grow with the symbol: complete codes, over- and under-full ones, flat
\* subtrees of up to eight symbols.
Few == 0 .. 4
AllSmall == {[s \in Symbols |-> IF s \in Few THEN f[s] ELSE 0] : f \in [Few -> 0 .. MaxLen + 1]}
RECURSIVE Growing(_, _)
Growing(n, from) ==
  IF n = 0 THEN {<<>>}
  ELSE UNION {{<<l>> \o t : t \in Growing(n - 1, l)} : l \in from .. MaxLen}
Long == {[s \in Symbols |-> IF s < 8 THEN t[s + 1] ELSE 0] : t \in Growing(8, 0)}
MCLengths == AllSmall \cup Long
=============================================================================
