CONSTANTS
  Data <- MCData
  MaxNodes = 6
  k1 = k1
  k2 = k2
  k3 = k3
  k4 = k4
  k5 = k5
  s1 = s1
  s2 = s2
  s3 = s3
  s4 = s4
  Keys = {k1, k2, k3, k4, k5}
  MaxValue = 1
  EMPTY_KEY = EMPTY_KEY
  DELETED_KEY = DELETED_KEY
  HashFunctions <- MCHashFunctions
  HT_MIN_BUCKETS = 4
  HT_DEFAULT_STARTING_BUCKETS = 4
  HT_OCCUPANCY_PCT = 50
  HT_EMPTY_PCT = 20
  MaxSize = 256
  MaxBuckets = 16
  MaxCopiedKeys = 3
  Strings = {s1, s2, s3, s4}
  Length <- MCLength
  StringHashes <- MCStringHashes
SPECIFICATION ContainersSpec
INVARIANTS FreeListIsExact TablesAreMaps
PROPERTIES LiveNodesUntouched ImplementsMap ResizingSettles NumbersStayValid

