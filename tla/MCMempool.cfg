SPECIFICATION Spec
CONSTANTS
  Txs = {"a", "b", "c", "e", "f", "q", "r", "w", "x", "y"}
  NonPayments = {"y"}
  Signer <- MCSigner
  NoAccount = "none"
  Ins <- MCIns
  Outs <- MCOuts
  Outpoints <- MCOutpoints
  ValueOf <- MCValue
  OwnerOf <- MCOwner
  FixedFee = 0
  InputCost = 1
  OutputCost = 0
  ByteCost = 1
  SizeOf <- MCSize
  MaxSize = 3
  BaseFeeDelta = 2
  PercentIncrease = 10
  ExpiryTime = 0
  MaxClock = 1
  Ledgers <- MCLedgers
  Blocks <- MCBlocks
  U64 = 100
  NoTx = NoTx
INVARIANTS
  TypeOK
  IndexesExact
  ConflictFree
  TemplateComplete
PROPERTY
  ReplacementOutbids
