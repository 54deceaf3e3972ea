SPECIFICATION HeardSpec
CONSTANTS
  Txs = {"t1"}
  Coins = {"c1"}
  Inputs <- MCInputs
  NetBlocks <- MCNetBlocks
  NetTips = {}
  MaxHeight = 1
  MaxEvents = 1
  MaxRounds = 0
  NetCap = 1
  MinedCap = 1
PROPERTY
  TipReachesPeers
