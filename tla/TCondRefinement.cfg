CONSTANTS
  Trees <- MCTrees
  MaxLabelled = 3
  MaxNodes = 5
SPECIFICATION HFairSpec
INVARIANT CursorStaysVisible
INVARIANT ChecksHold
PROPERTY OperationsEnd
PROPERTY ImplementsReference
