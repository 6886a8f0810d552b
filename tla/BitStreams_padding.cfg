SPECIFICATION StreamsSpec
CONSTANTS
  Bits = 3
  TableLog = 4
  Segs = 3
  SplitMin = 8
  Group = 2
  PTab <- Skewed
  PScale = 16
  Coders <- MCCoders
  Regions <- MCRegions
  Word = 12
  Cadence = 2
  Shapes <- MCShapes
  Counts <- MCCounts
  Inputs <- MCInputs
  OctetBits = 2
  Window = 8
  MaxCodeLen = 3
  Codes <- MCCodes
  Words <- MCWords
INVARIANT PaddingSuffices
CHECK_DEADLOCK FALSE
