------------------------------ MODULE Alphabet ------------------------------
(***************************************************************************)
(* What the making of a code and of the tables from it have in common.     *)
(***************************************************************************)
EXTENDS Integers, FiniteSets

CONSTANTS Symbols,  \* 0 .. PIVCO_MAX_SYMBOLS - 1
          MaxLen    \* PIVCO_MAX_CODE_LEN
ASSUME AlphabetAssumption ==
  IsFiniteSet(Symbols) /\ Symbols \subseteq Nat /\ MaxLen \in Nat \ {0}

VARIABLE lens  \* code_lens: the length of each symbol's code, 0 for none

Zeros == [s \in Symbols |-> 0]
=============================================================================
