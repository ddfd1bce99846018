SPECIFICATION FairValidation
CONSTANTS
  Claims <- Three
  Snapshot <- Snapshots
  Outputs <- Holdings
  AgeLimit = 1
  ChunkSize = 2
  MaxHeight = 3
  MaxRows = 3
  MaxRollbacks = 1
  MaxLag = 1
  MaxFailures = 1
INVARIANTS
  ValidationTypeOK
  SettledVerdictsCorrect
  UpdatesSucceed
PROPERTIES
  EveryVoteJudged
