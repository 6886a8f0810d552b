------------------------------ MODULE Registers ------------------------------
(***************************************************************************)
(* What the merges and the partitions have in common: the backend the      *)
(* library is built for and the shape of its registers.  A mask byte has   *)
(* Half bits and a register 2 * Half lanes.                                *)
(***************************************************************************)
EXTENDS Integers

CONSTANT Half  \* bits of a mask byte: 8
ASSUME HalfAssumption == Half \in Nat \ {0}

VARIABLE backend

Lanes == 2 * Half
Backends == {"scalar", "neon", "x86", "avx512"}
=============================================================================
