SPECIFICATION MCSpec
CONSTANTS
  NumSeeds = 2
  MaxProposals = 3
  Proposals <- MCProposals
  Limits <- MCLimits
  Scenarios <- MCScenarios
INVARIANTS
  TypeOK
  ErrorsHaveACause
  UnitsAreIndependent
  RecordsAreGrounded
  LimitsAreKept
  ConvergenceIsEarned
