SPECIFICATION FairSpec
CONSTANTS
  Blocks <- FullTree
  Misshapen = {"z"}
  FutureDated = {"b2"}
  Genesis = "g"
  Parent <- MCParent
  Height <- MCHeight
  Work <- MCWork
  Anchor <- MCAnchor
  BadBlocks = {"h2"}
  Coinbase <- MCCoinbase
  Payments <- MCPayments
  Inputs <- MCInputs
  Outputs <- MCOutputs
  Value <- MCValue
  Owner <- MCOwner
  Author <- MCAuthor
  InitialSubsidy = 2
  DecayInterval = 2
  DecayStep = 1
  MaxU64 = 15
  BranchWork <- MCBranchWork
  FirstOf <- MCFirstOf
  LedgerAt <- MCLedgerAt
  ValidBlocks <- MCValidBlocks
INVARIANTS
  TypeOK
  SelfChecksHold
  LedgerIsReplay
  IndexMatchesStorage
  ForkRegistrySound
  OverlayShowsBranch
  TxIndexCanonical
  SupplyBounded
PROPERTIES
  WorkStrictlyIncreases
  TransitionDescribesDiff
  Implements
  HandledBlockWeighs
