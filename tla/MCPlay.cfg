SPECIFICATION PlaySpec
CONSTANTS
  Positions <- MCPositions
  Own <- MCOwn
  Targets <- MCTargets
  Kind <- MCKind
  Options <- MCOptions
  After <- MCAfter
  Configs <- MCConfigs
  Budgets <- MCBudgets
  Extension = 1
  MaxActions = 1
  MatchIndexes = {0, 1}
  Searched <- MCSearched
INVARIANTS CommonRandomNumbers IterationsAreRootVisits AvailCoversVisits OnlyThePredictedTree DeckScoresSeatChooses
CHECK_DEADLOCK FALSE
