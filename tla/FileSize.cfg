CONSTANTS
  a = a
  b = b
  c = c
  d1 = d1
  d2 = d2
  h1 = h1
  NULL = NULL
  Names <- ThreeNames
  Data <- TwoData
  Handles <- OneHandle
  NumSectors = 5
  NumDirEntries = 3
  Straddling = 2
  NumDirect = 2
  Sizes = {2, 3}
  MaxCrashes = 0
SPECIFICATION Spec
INVARIANT FilesFitHeader
SYMMETRY MCSymmetry
