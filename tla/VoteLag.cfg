SPECIFICATION ValidationSpec
CONSTANTS
  Claims <- Rightly
  Snapshot <- Snapshots
  Outputs <- Received
  AgeLimit = 1
  ChunkSize = 2
  MaxHeight = 4
  MaxRows = 1
  MaxRollbacks = 0
  MaxLag = 3
  MaxFailures = 0
INVARIANTS
  HoldersAreVerified
