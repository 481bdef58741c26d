SPECIFICATION Spec
CONSTANTS
  Dim = 1
  RootLength = 32
  Precision = 1
  Null = Null
  Lengths = {32, 16, 8, 4}
  Finest = 4
  Threads = {t1, t2}
  Attempts = 2
  MaxActiveSets = 2
  MaxLevels = 2
  MaxCalls = 2
  Seeds <- OnlyHigh
  Points <- Two
  Calls <- TheCalls
CHECK_DEADLOCK FALSE
PROPERTY AnswersHold
