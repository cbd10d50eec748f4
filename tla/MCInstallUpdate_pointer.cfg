SPECIFICATION MCSpec
CONSTANTS
  Version = {1, 2, 3}
  Absent = Absent
  Torn = Torn
  MaxOps = 1
  MaxFaults = 1
  MaxCrashes = 0
INVARIANTS
  FailedSwitchRestoresPointer
