CONSTANTS
  NWorkers = 2
  NPoints = 2
  MaxThreads = 4
  None = None
SPECIFICATION RegistrySpec
INVARIANTS WithinBuffer
