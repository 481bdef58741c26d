CONSTANTS
  Dim = 1
  RootLength = 32
  Precision = 1
  MaxLevels = 2
  Null = Null
  Lengths = {32, 16, 8, 4}
  Finest = 4
  Points <- Three
SPECIFICATION Spec
INVARIANT SearchFinds
