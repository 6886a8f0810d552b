CONSTANTS
  Alphabet  <- MCAlphabet
  Inputs    <- MCInputs
  BlockSize = 2
  SegBlocks = {0, 1, 2}
  TableBits = 1
  Build     <- MCBuild
SPECIFICATION Spec
INVARIANTS TablesFit RoundTrip OnlyCutRefused
PROPERTY Terminates
