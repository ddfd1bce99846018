SPECIFICATION ApiSpec
CONSTANTS
  Txs <- ApiTxs
  CollateralQuantity = 5
  NotPraos = NotPraos
  NoTransactions = NoTransactions
  Bodies <- ApiBodies
  MaxBlocks = 3
  MaxSlot = 3
  K = 1
  ResumeDepth = 1
  MaxFailures = 0
  Requested = {"join"}
  MaxVerdicts = 1
INVARIANTS
  TallyIsLastVotes
  UserVotesMatchTally
  ActiveUntilClosed
  VotableUntilVoted
  ListedUntilCancelled
CHECK_DEADLOCK FALSE
