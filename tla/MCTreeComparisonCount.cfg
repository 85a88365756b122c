CONSTANTS
  Trees <- MCTrees
  MaxLabelled = 1
  MaxNodes = 2
  MaxDepths = {1, 100}
  Predictors = {1, 2}
  MaxReports = 1
SPECIFICATION Spec
INVARIANT CompletionsCounted
