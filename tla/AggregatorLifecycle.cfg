SPECIFICATION FairSpec
CONSTANTS
  Txs <- AllTxs
  CollateralQuantity = 5
  NotPraos = NotPraos
  NoTransactions = NoTransactions
  Bodies <- LifecycleBodies
  MaxBlocks = 4
  MaxSlot = 4
  K = 2
  ResumeDepth = 2
  MaxFailures = 1
INVARIANTS
  TypeOK
  BlocksSynced
  VoteIdsFollowChain
  NeverStuck
  ClosedAtMostOnce
PROPERTIES
  RollbackIsExact
  ImplementsIndex
  EventuallySynced
CHECK_DEADLOCK FALSE
