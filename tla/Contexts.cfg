CONSTANTS
  WireMaxN = 65535
  MaxCodeLen = 11
  HistScratch = 65600
  Overread = 16
  ProbeCap = 262144
  DecodePad = 18880
  BlockSizes <- MCBlockSizes
  Layouts = {"vertical", "natural"}
  Tables = {1, 2}
  BadTables = {2}
  MaxRegions = 2

SPECIFICATION Spec
INVARIANTS MemorySound NestingSound
