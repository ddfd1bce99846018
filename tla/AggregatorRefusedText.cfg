SPECIFICATION Spec
CONSTANTS
  Txs <- AllTxs
  CollateralQuantity = 5
  NotPraos = NotPraos
  NoTransactions = NoTransactions
  Bodies <- RefusedTextBodies
  MaxBlocks = 2
  MaxSlot = 2
  K = 0
  ResumeDepth = 0
  MaxFailures = 0
INVARIANTS
  BlocksSynced
CHECK_DEADLOCK FALSE
