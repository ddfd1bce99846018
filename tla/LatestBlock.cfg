SPECIFICATION FairSpec
CONSTANTS
  MaxBlocks = 4
  MaxRollbacks = 3
  MaxReads = 3
  MaxCrashes = 1
INVARIANTS
  SettlesOnNewest
  UnknownOnlyIfEmptied
PROPERTIES
  EventuallySettles
CHECK_DEADLOCK FALSE
