SPECIFICATION Spec
CONSTANTS
  Txs = {"t1", "t3"}
  Coins = {"c1"}
  Inputs <- MCInputs
  NetBlocks = {}
  NetTips = {}
  MaxHeight = 2
  MaxEvents = 0
  MaxRounds = 2
  NetCap = 1
  MinedCap = 1
PROPERTY
  MiningGoesOn
