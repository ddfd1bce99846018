SPECIFICATION FairSpec
CONSTANTS
  MaxSockets = 6
  MaxFailures = 3
INVARIANTS
  OneSynchronization
  ClientsAreConnected
PROPERTIES
  EventuallyConnected
  SignalEnds
CHECK_DEADLOCK FALSE
