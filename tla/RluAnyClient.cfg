SPECIFICATION Spec
CONSTANTS
  NThreads = 2
  Objs = {a}
  NoObj = NoObj
  Unallocated = {}
  Vals = {0}
  InitVal = 0
  NoVal = NoVal
  MaxWriteSets = 2
  MaxActiveSets = 1
  MaxVersion = 99
  MaxSections = 2
SYMMETRY Symmetry
INVARIANTS TypeOK LocksMatchLogs RingFresh ViewsLive FinishedUnreferenced
