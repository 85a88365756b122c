CONSTANTS
  Trees <- MCTrees
  MaxLabelled = 2
  MaxNodes = 4
  MaxDepths = {1, 100}
  Predictors = {1, 2}
  MaxReports = 2
SPECIFICATION FairSpec
INVARIANT EveryPlaceCounted
INVARIANT StatisticsAreExact
PROPERTY ComparisonEnds
