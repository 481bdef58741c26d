SPECIFICATION ReclaimSpec
CONSTANTS
  r = r
  m = m
  Nil = Nil
  Root = r
  NThreads = 2
  Objs = {r, m}
  NoObj = NoObj
  Unallocated <- Children
  Vals <- Slot
  InitVal = Nil
  NoVal = NoVal
  MaxWriteSets = 2
  MaxActiveSets = 1
  MaxVersion = 99
  MaxSections = 2
CONSTRAINT Unraced
INVARIANTS NoUseAfterFree FreesOnce
