SPECIFICATION ExeSpec
CONSTANTS
  SectionSizes = {0, 1, 2}
  Gaps = {0, 1}
  HeaderWords = 1
  PageWords = 3
  StackWords = 4
  MEMSIZE = 9
INVARIANT PageIsLoaded
CHECK_DEADLOCK FALSE
