CONSTANTS
  Substitutions <- MCSubstitutions
  SingleNodes <- MCSingleNodes
  Types <- MCTypes
  OtherStores <- MCOtherStores
  MaxNodes = 4
  MaxTogether = 4
SPECIFICATION Spec
INVARIANTS Consistent SubtreesAreMaximal WalksAsInWhole
PROPERTY ImplementsPlantedTree
