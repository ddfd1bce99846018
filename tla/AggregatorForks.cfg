SPECIFICATION Spec
CONSTANTS
  Txs <- AllTxs
  CollateralQuantity = 5
  NotPraos = NotPraos
  NoTransactions = NoTransactions
  Bodies <- ForkBodies
  MaxBlocks = 4
  MaxSlot = 4
  K = 3
  ResumeDepth = 1
  MaxFailures = 1
INVARIANTS
  NoForeignBlock
  BlockIdsFollowSlots
  LatestBlockOnChain
PROPERTIES
  ImplementsIndex
CHECK_DEADLOCK FALSE
