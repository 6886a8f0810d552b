--------------------------- MODULE MCShakeLengths ---------------------------
\* Three blocks over four symbols, one of which holds over a quarter of the
\* segment; under a code of three bits for a and one for b, block 1 does not
\* encode.
EXTENDS ShakeLengths, TLC

MCSymbols == {"a", "b", "c", "f"}
Weight(s, b) == CASE s = "a" -> 3 - b [] s = "b" -> 2 * b [] s = "c" -> 1 [] OTHER -> 4
MCBlockCost(l, b) ==
  IF b = 1 /\ l["a"] = 3 /\ l["b"] = 1 THEN SizeMax
  ELSE MapThenSumSet(LAMBDA s : l[s] * Weight(s, b), Coded)

MCHash(l) == l

CodeOf(x, y, z) == ("a" :> x) @@ ("b" :> y) @@ ("c" :> z) @@ ("f" :> 2)
Freq == ("a" :> 3) @@ ("b" :> 3) @@ ("c" :> 3) @@ ("f" :> 12)

MCInputs ==
  {[freq |-> Freq, lens |-> CodeOf(3, 3, 1), steps |-> 12],
   [freq |-> Freq, lens |-> CodeOf(2, 2, 2), steps |-> 12],
   [freq |-> Freq, lens |-> CodeOf(3, 1, 3), steps |-> 12],
   [freq |-> Freq, lens |-> CodeOf(2, 2, 2), steps |-> 0],
   [freq |-> [Freq EXCEPT !["b"] = 9, !["c"] = 0], lens |-> CodeOf(2, 2, 2), steps |-> 12]}
=============================================================================
