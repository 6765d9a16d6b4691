CONSTANTS
  a = a
  b = b
  c = c
  d1 = d1
  d2 = d2
  h1 = h1
  NULL = NULL
  Names <- ThreeNames
  Data <- TwoData
  Handles <- OneHandle
  NumSectors = 5
  NumDirEntries = 3
  Straddling = 2
  NumDirect = 2
  Sizes = {0, 2}
  MaxCrashes = 2
  SectorSize = 2
  Bytes = {0, 1}
  MaxLength = 5
  FileHeaders <- MCFileHeaders
  Positions = {0, 1, 5}
  Sources <- MCSources
SPECIFICATION MCSpec
INVARIANTS FilesIntact FreeMapExact
PROPERTIES StoreSpec ByteFileSpec
SYMMETRY MCSymmetry
