CONSTANTS
  Trees <- MCTrees
  MaxLabelled = 3
  MaxNodes = 5
SPECIFICATION Spec
INVARIANT SameExecution
