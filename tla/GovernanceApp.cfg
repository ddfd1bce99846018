SPECIFICATION Spec
CONSTANTS
  Txs = {}
  CollateralQuantity = 5
  NotPraos = NotPraos
  NoTransactions = NoTransactions
  ProposalsAddress = "dao"
  WalletOf <- MCWalletOf
  Genesis <- MCGenesis
  TxIds <- MCTxIds
  Windows <- MCWindows
  Beneficiaries = {"dao"}
  ClockError <- MCClockError
  Backdate = 1
  Ttl = 2
  MaxPlans = 3
  MaxExtra = 1
  MaxSlot = 3
INVARIANTS
  CreatedProposalsAreListed
  ClosingsTakeEffect
  OrphansAreNew
  VotesCountInTime
  ConclusionsNearEnd
CHECK_DEADLOCK FALSE
