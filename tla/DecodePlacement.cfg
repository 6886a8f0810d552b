SPECIFICATION Spec
CONSTANTS
  MaxN = 8
  Scheds <- MCScheds
INVARIANTS ScratchSuffices ChildrenSurvive BlockDecoded
PROPERTIES SymbolsExact
