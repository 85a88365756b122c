CONSTANTS
  Files <- MCFiles
  Filters <- MCFilters
  MaxEntries = 2
  MaxNumber = 7
  Uninitialized = {0, 5}
  Programs <- MCPrograms
  Samples <- MCSamples
  Flags <- MCFlags
  Fingerprints <- MCFingerprints
  TEQ_LABEL_INDEX_START <- MCTeqStart
  TEQ_MAX_LABEL_INDEX = 2
  TypeBit = 32
  MaxTrained = 3
  MaxEvaluated = 2
SPECIFICATION EvaluationSpec
INVARIANT ProgramsSurviveTheirFile
INVARIANT ChecksHold
INVARIANT CountsAreExact
INVARIANT ProbabilitiesAreSound
INVARIANT OnlyUncertainSamplesAreErrors
PROPERTY BranchLoopEnds
