CONSTANTS
  Threads = {t1, t2}
  Files <- MCFiles
  Inputs <- MCInputs
  Blank = Blank
  NoThread = NoThread
  RecordA = RecordA
  RecordB = RecordB
  MaxPasses = 3
SPECIFICATION FairSpec
INVARIANTS EachRecordOnce LaterPassesRepeat
PROPERTY PassesEnd
