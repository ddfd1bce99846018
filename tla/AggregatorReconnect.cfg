SPECIFICATION ReconnectSpec
CONSTANTS
  Txs = {}
  CollateralQuantity = 5
  NotPraos = NotPraos
  NoTransactions = NoTransactions
  Bodies <- EmptyBlocks
  MaxBlocks = 2
  MaxSlot = 2
  K = 1
  ResumeDepth = 1
  MaxFailures = 1
INVARIANTS
  NoRevertedBlock
CHECK_DEADLOCK FALSE
