SPECIFICATION ValidationSpec
CONSTANTS
  Claims <- Overclaimed
  Snapshot <- Snapshots
  Outputs <- Holdings
  AgeLimit = 1
  ChunkSize = 2
  MaxHeight = 4
  MaxRows = 1
  MaxRollbacks = 0
  MaxLag = 0
  MaxFailures = 0
INVARIANTS
  VerdictsCorrect
