SPECIFICATION ApiSpec
CONSTANTS
  Txs <- ApiTxs
  CollateralQuantity = 5
  NotPraos = NotPraos
  NoTransactions = NoTransactions
  Bodies <- FeesBodies
  MaxBlocks = 3
  MaxSlot = 3
  K = 0
  ResumeDepth = 0
  MaxFailures = 0
  Requested = {"create"}
  MaxVerdicts = 2
INVARIANTS
  FeesAreThosePaid
CHECK_DEADLOCK FALSE
