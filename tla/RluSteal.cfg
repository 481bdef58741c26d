SPECIFICATION TxnSpec
CONSTANTS
  a = a
  b = b
  c = c
  NThreads = 3
  Objs = {a, b, c}
  NoObj = NoObj
  Unallocated = {}
  Vals = {0, 1, 2}
  InitVal = 0
  NoVal = NoVal
  MaxWriteSets = 2
  MaxActiveSets = 1
  MaxVersion = 99
  MaxSections = 1
  Groups <- PairAndOne
  Reads <- OneReader
  Writes <- TwoWriters
  TolerateFailure = FALSE
SYMMETRY Symmetry
PROPERTIES StealAfterPublish
