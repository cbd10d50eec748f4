SPECIFICATION MCSpec
CONSTANTS
  Version = {1, 2, 3}
  Absent = Absent
  Torn = Torn
  MaxOps = 4
  MaxFaults = 2
  MaxCrashes = 2
INVARIANTS
  TypeOK
  ActiveVersionIsKept
  FailedUpdateIsContained
  CompletedCanBeUndone
  RolledBackAgrees
  RollbackRestoresDocuments
PROPERTIES
  UpdateActivatesWholeVersion
