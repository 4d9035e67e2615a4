CONSTANTS
  Images = {p1, p2}
  Handlers = {h1, h2}
  NoCover = NoCover
  EnabledOps <- AllOps
  MaxBatch = 2
  MaxCrossed = 1
  MaxDoubled = 1
  MayFail = TRUE
SPECIFICATION Spec
SYMMETRY Symmetric
VIEW View
INVARIANTS OneOfEach ListedAsConfirmed ListedAreStored VariantsArrive
PROPERTIES CoverKept
CHECK_DEADLOCK FALSE
