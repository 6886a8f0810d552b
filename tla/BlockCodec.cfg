CONSTANTS
  Scheds <- MCScheds
  Layouts <- MCLayouts
  KrtCodes <- MCKrtCodes
  Words <- MCWords
  MaxN = 4
  MaxLen = 5

SPECIFICATION Spec
INVARIANTS EncodeScratch WalksAgree
PROPERTY TransferSpec
