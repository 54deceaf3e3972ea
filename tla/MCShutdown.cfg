SPECIFICATION Spec
CONSTANTS
  Txs = {"t1"}
  Coins = {"c1"}
  Inputs <- MCInputs
  NetBlocks <- MCNetBlocks
  NetTips <- MCNetTips
  MaxHeight = 2
  MaxEvents = 1
  MaxRounds = 2
  NetCap = 1
  MinedCap = 1
PROPERTIES
  ShutdownCompletes
  TipEventuallyOffered
