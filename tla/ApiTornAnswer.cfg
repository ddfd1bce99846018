SPECIFICATION ApiSpec
CONSTANTS
  Txs <- ApiTxs
  CollateralQuantity = 5
  NotPraos = NotPraos
  NoTransactions = NoTransactions
  Bodies <- ResultsBodies
  MaxBlocks = 3
  MaxSlot = 3
  K = 0
  ResumeDepth = 0
  MaxFailures = 0
  Requested = {"create"}
  MaxVerdicts = 2
INVARIANTS
  AnswersAddUp
CHECK_DEADLOCK FALSE
