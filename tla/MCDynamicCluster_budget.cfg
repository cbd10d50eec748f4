SPECIFICATION MCSpec
CONSTANTS
  NumSeeds = 2
  MaxProposals = 1
  Proposals <- MCProposals
  Limits <- MCLimits
  Scenarios <- MCScenarios
INVARIANT
  BudgetTerminationIsNotConvergence
