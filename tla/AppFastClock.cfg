SPECIFICATION Spec
CONSTANTS
  Txs = {}
  CollateralQuantity = 5
  NotPraos = NotPraos
  NoTransactions = NoTransactions
  ProposalsAddress = "dao"
  WalletOf <- MCWalletOf
  Genesis <- MCGenesis
  TxIds <- MCTxIds
  Windows <- MCWindows
  Beneficiaries = {"dao"}
  ClockError <- MCFastClock
  Backdate = 2
  Ttl = 3
  MaxPlans = 3
  MaxExtra = 1
  MaxSlot = 3
INVARIANTS
  NoVoteAfterConclusion
CHECK_DEADLOCK FALSE
