---------------------------- MODULE MCBitStreams ----------------------------
EXTENDS BitStreams

\* Context coders: bytes of three bits and tables of sixteen states.  Short regions
\* have one state; a region of six bytes or more has three segments, the last one short.
Skewed == <<1, 4, 12, 15>>

\* Recipes for runs, for alternation and for neither.
K1Recipes == {<<a, b>> : a, b \in {1, 4}} \cup {<<2, 3>>}
K2Recipes == {<<1, 1, 4, 4>>, <<4, 2, 3, 4>>, <<4, 1, 4, 1>>}
AsRecipes(S, order) == {[k \in 0 .. 2 ^ order - 1 |-> r[k + 1]] : r \in S}
MCCoders == {[order |-> 1, canonical |-> FALSE, recipes |-> AsRecipes(K1Recipes, 1)],
             [order |-> 2, canonical |-> TRUE, recipes |-> AsRecipes(K2Recipes, 2)]}

\* Regions of one byte value but for one byte.
MCRegions ==
  UNION {{[j \in 1 .. n |-> IF j = d THEN v ELSE u] : u \in {0, 7}, v \in {5, 7}, d \in 0 .. n} :
           n \in {1, 7, 13}}

\* Wide coders: a word of four bytes, which two symbols between flushes fit and three
\* do not.  The shapes have a body shorter than, as long as and longer than the cadence.
MCShapes == {[cursors |-> 2, unroll |-> 1, unit |-> 1], [cursors |-> 2, unroll |-> 2, unit |-> 1],
             [cursors |-> 4, unroll |-> 1, unit |-> 1], [cursors |-> 4, unroll |-> 1, unit |-> 2]}

\* The frequent symbol has just less than half the slots, half of them, and more.
MCCounts == {[v \in Bytes |-> CASE v = 0 -> 7 [] v = 1 -> 3 [] OTHER -> 1],
             [v \in Bytes |-> CASE v = 0 -> 8 [] v = 1 -> 2 [] OTHER -> 1],
             [v \in Bytes |-> CASE v = 0 -> 9 [] OTHER -> 1]}

\* Frequent symbols with a run of rarer ones anywhere.
MCInputs ==
  UNION {{[j \in 1 .. n |-> IF j \in d .. d + r - 1 THEN v ELSE 0] :
            d \in 1 .. n, r \in {0, 1, 4}, v \in {1, 5}} : n \in {3, 13, 16, 18, 22}}

\* Traditional coder: bytes of two bits, words of four bytes.  A code of every length
\* and the code of a lone symbol; words of two symbols, too short for four streams, of
\* one turn of the loop and of more.
MCCodes == {[s \in {"a", "b", "c", "d"} |->
               CASE s = "a" -> <<0>> [] s = "b" -> <<1, 0>> [] s = "c" -> <<1, 1, 0>> [] OTHER -> <<1, 1, 1>>],
            [s \in {"a"} |-> <<0>>]}
MCWords == [c \in MCCodes |->
              UNION {{[j \in 1 .. n |-> IF j % 5 \in {p, q} THEN v ELSE u] :
                        u, v \in DOMAIN c, p \in 0 .. 2, q \in 2 .. 4} : n \in {0, 1, 3, 6, 9, 19}}]
=============================================================================
