--------------------------- MODULE MCRegionCoding ---------------------------
EXTENDS RegionCoding

Bitmap(nbytes, n, right, depth) ==
  [internal |-> TRUE, root |-> FALSE, nbytes |-> nbytes, n |-> n, left |-> n - right,
   right |-> right, depth |-> depth]
Flat(nbytes, root) ==
  [internal |-> FALSE, root |-> root, nbytes |-> nbytes, n |-> 0, left |-> 0, right |-> 0,
   depth |-> 0]

\* A large bitmap skewed either way, one near even, regions below some coders'
\* thresholds, and flat regions staged on the stack and on the heap.
RequestsDef ==
  {Bitmap(2048, 16384, 4000, 0), Bitmap(2048, 16384, 12500, 1), Bitmap(2048, 16384, 8200, 0),
   Bitmap(300, 2400, 1900, 5), Bitmap(17, 130, 10, 2), Bitmap(1, 3, 1, 1),
   Flat(9000, FALSE), Flat(2048, TRUE), Flat(16, TRUE), Flat(3, FALSE)}
FlagSetsDef == {{Coders[i] : i \in 1 .. 7}, {"static", "snPH"}, {"k1", "dnPH"}, {}}
\* Lengths around the limits of each gain and short ones.
LensDef == [b \in {r.nbytes : r \in RequestsDef} |->
              CASE b = 2048 -> {10, 1533, 1637, 1841, 2500}
                [] b = 9000 -> {10, 7197, 7198}
                [] b = 300  -> {10, 237, 267, 299, 310}
                [] OTHER    -> {1, 8, 10, 12}]
\* The program's thresholds, but for the k=1 coder's, lowered from 16 as a build
\* may so that the smallest bitmap leaves it no room.
MinBytesDef == [static |-> 32, nibble |-> 8, k1 |-> 1, k2 |-> 16, dHuf0 |-> 2048,
                dnPH |-> 1024, snPH |-> 256]
FreqDef == <<500, 600, 750, 900>>
=============================================================================
