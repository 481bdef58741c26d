SPECIFICATION FairSpec
CONSTANTS
  Dim = 2
  RootLength = 32
  Precision = 1
  MaxLevels = 4
  Null = Null
  Lengths = {32, 16, 8, 4}
  Finest = 4
  Points <- Plane
INVARIANTS PointersAlive Linked LevelsNested Compressed OnlyLevelsLost SearchFindsOnOneLevel
PROPERTIES IsASet CallsReturn
