CONSTANTS
  IntBits = 4
  LargestBits = 5
  Symbols <- MCSymbols
  Words <- MCWords
  stackLimit_g = 4
  rightMargin_ = 12
  Texts <- MCTexts
  Lines <- MCLines
  Leftovers <- MCLeftovers
  Values <- MCValues
  Compared <- MCCompared
  MaxChildren = 2
  LabelledNodes = 3
  ShapeNodes = 6
SPECIFICATION FairSpec
INVARIANT ReadsWhatIsWritten
INVARIANT AcceptedTextIsKept
INVARIANT ValuesAreConsistent
INVARIANT TreesAreParsed
INVARIANT AnswersMoveLeft
PROPERTY LoadingEnds
