----------------------------- MODULE MCFileCodec -----------------------------
(***************************************************************************)
(* Every file of up to six bytes over three values, and of eight over two, *)
(* in blocks of two, with one table, one a block and one for two blocks.   *)
(***************************************************************************)
EXTENDS FileCodec

MCAlphabet == 1 .. 3
MCInputs   == UNION {[1 .. n -> MCAlphabet] : n \in 0 .. 6} \cup [1 .. 8 -> 1 .. 2]

\* The Huffman lengths of up to three symbols: one bit for the last in sorted
\* order, two for the others, one each when there are no more than two.
After(f, a, b) == f[a] > f[b] \/ (f[a] = f[b] /\ a >= b)
MCBuild(f) ==
  LET used == {a \in MCAlphabet : f[a] > 0}
  IN  [a \in MCAlphabet |->
         IF a \notin used THEN 0
         ELSE IF Cardinality(used) < 3 \/ \A b \in used : After(f, a, b) THEN 1 ELSE 2]

\* What the proofs ask of a table build, over the counts these files can have.
ASSUME BuildAssumption ==
  \A f \in [MCAlphabet -> 0 .. 8] :
    MCBuild(f) \in [MCAlphabet -> Nat] /\ CanCode(f, MCBuild(f))
=============================================================================
