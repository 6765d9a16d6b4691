SPECIFICATION Spec
CONSTANTS
  ProgramSizes = {3, 5}
  UserStackPages = 2
  MachinePages = 4
  MapBits = 6
  tableSize = 4
  MaxThreads = 3
  MaxCalls = 4
  NumPages = 3
  StackPages = 1
  NumPhysPages = 3
  TLBSize = 2
  Algorithms = {1, 2}
  MaxSpaces = 2
  MaxAccesses <- MCMaxAccesses
  MaxSwitches = 1
  SectionSizes = {0, 1, 2}
  Gaps = {0, 1}
  HeaderWords = 1
  PageWords = 3
  StackWords = 4
  MEMSIZE = 9
INVARIANTS
  MemoryIntact
  ContextOwn FramesAccounted HandlesSound
  ImageRight
PROPERTIES
  FaultServed
  ForkedRuns
  RefinesExecute ArithmeticExact
CHECK_DEADLOCK FALSE
