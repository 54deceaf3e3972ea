SPECIFICATION Spec
CONSTANTS
  Txs = {"t1"}
  Coins = {"c1"}
  Inputs <- MCInputs
  NetBlocks <- MCNetBlocks
  NetTips <- MCNetTips
  MaxHeight = 2
  MaxEvents = 2
  MaxRounds = 2
  NetCap = 1
  MinedCap = 1
INVARIANTS
  TypeOK
  StaleRoundNoticed
  PoolIsUnconfirmed
  ReadyOnlyWhileHealthy
