\* A failed request around midnight.
CONSTANTS
  j1 = j1
  j2 = j2
  j3 = j3
  g1 = g1
  g2 = g2
  Judges = {j1, j2}
  Generations = {g1}
  MaxActive <- TwoJudgesOneGeneration
  Limit = 3
  JudgeCost = 1
  GenerationCost = 2
  MaxDays = 2
  MaxBudgetCrashes = 1
SPECIFICATION BudgetSpec
INVARIANT FailureReleases
\* The requests end.
CHECK_DEADLOCK FALSE
