SPECIFICATION Spec
CONSTANTS
  MaxBlocks = 2
  MaxRollbacks = 1
  MaxReads = 2
  MaxCrashes = 0
INVARIANTS
  SetCorrectlyAtTheEnd
CHECK_DEADLOCK FALSE
