SPECIFICATION Spec
CONSTANTS
  Coded <- MCSymbols
  MaxCodeLen = 3
  NBlk = 3
  Starts = 4
  Burst = 2
  Screen = 2
  Tries = 2
  SizeMax = 1000
  BlockCost <- MCBlockCost
  Hash <- MCHash
  SeenCap = 3
  Inputs <- MCInputs
INVARIANTS PricesAreTrue LeadersRace RaceRules ResultDue
PROPERTY Returns
CHECK_DEADLOCK FALSE
