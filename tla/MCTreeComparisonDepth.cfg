CONSTANTS
  Trees <- MCTrees
  MaxLabelled = 1
  MaxNodes = 4
  MaxDepths = {1, 100}
  Predictors = {1, 2}
  MaxReports = 0
SPECIFICATION Spec
INVARIANT DepthRestored
