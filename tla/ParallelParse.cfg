CONSTANTS
  Threads = {t1, t2, t3}
  Requests <- MCRequests
  MaxTreeSize = 2
  MaxLines = 2
  MaxOffset = 2
  MaxRecords = 2
SPECIFICATION FairSpec
INVARIANT TreesExclusive
INVARIANT SlotsAreExact
INVARIANT SameAsSequential
PROPERTY CallEnds
