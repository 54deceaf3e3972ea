SPECIFICATION Spec
CONSTANTS
  Blocks <- RepeatTree
  Misshapen = {}
  FutureDated = {}
  Genesis = "g"
  Parent <- MCParent
  Height <- MCHeight
  Work <- MCWork
  Anchor <- MCAnchor
  BadBlocks = {}
  Coinbase <- MCCoinbase
  Payments <- MCPayments
  Inputs <- MCInputs
  Outputs <- MCOutputs
  Value <- MCValue
  Owner <- MCOwner
  Author <- MCAuthor
  InitialSubsidy = 2
  DecayInterval = 2
  DecayStep = 1
  MaxU64 = 15
  BranchWork <- MCBranchWork
  FirstOf <- MCFirstOf
  LedgerAt <- MCLedgerAt
  ValidBlocks <- MCValidBlocks
INVARIANT
  RewindRestores
