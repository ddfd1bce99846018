SPECIFICATION FairSpec
CONSTANTS
  MaxSockets = 4
  MaxFailures = 1
PROPERTIES
  InitializationRetried
CHECK_DEADLOCK FALSE
