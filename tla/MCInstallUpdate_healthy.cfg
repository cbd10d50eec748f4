SPECIFICATION MCSpec
CONSTANTS
  Version = {1, 2, 3}
  Absent = Absent
  Torn = Torn
  MaxOps = 3
  MaxFaults = 0
  MaxCrashes = 0
INVARIANTS
  HealthyReportIsTrue
