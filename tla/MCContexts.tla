----------------------------- MODULE MCContexts -----------------------------
(* Contexts with the program's own sizes.  Blocks: one symbol; the last size *)
(* the probe cap serves and the first it does not; the last size the         *)
(* encoder's preallocation serves and the first it does not; the largest.    *)
EXTENDS Contexts
MCBlockSizes == {1, 16124, 16125, 61187, 61188, 65535}
=============================================================================
