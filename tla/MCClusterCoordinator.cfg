SPECIFICATION MCSpec
CONSTANTS
  NumTasks = 4
  NumWorkers = 2
  MaxRetries = 1
  MaxSteps = 3
INVARIANTS
  TypeOK
  StartsFollowResults
  ResultsMatchAttempts
  SnapshotsAccount
  CompletedMeansEverything
  BarrierSeparatesSteps
  CommitOrderIsCanonical
PROPERTIES
  RunEnds
