SPECIFICATION TxnSpec
CONSTANTS
  a = a
  b = b
  c = c
  NThreads = 2
  Objs = {a, b}
  NoObj = NoObj
  Unallocated = {}
  Vals = {0, 1, 2}
  InitVal = 0
  NoVal = NoVal
  MaxWriteSets = 2
  MaxActiveSets = 1
  MaxVersion = 99
  MaxSections = 1
  Groups <- Pair
  Reads <- AllGroups
  Writes <- AllGroups
  TolerateFailure = TRUE
INVARIANTS NoAssertFails
