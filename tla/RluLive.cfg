SPECIFICATION FairSpec
CONSTANTS
  a = a
  b = b
  c = c
  NThreads = 2
  Objs = {c}
  NoObj = NoObj
  Unallocated = {}
  Vals = {0, 1, 2, 3, 4}
  InitVal = 0
  NoVal = NoVal
  MaxWriteSets = 4
  MaxActiveSets = 2
  MaxVersion = 99
  MaxSections = 2
  Groups <- Single
  Reads <- Nothing
  Writes <- AllGroups
  TolerateFailure = FALSE
PROPERTIES QuiescenceReached LocksReleased
