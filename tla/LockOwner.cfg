SPECIFICATION Spec
CONSTANTS
  t1 = t1
  t2 = t2
  t3 = t3
  s1 = s1
  TheLock = TheLock
  NULL = NULL
  Threads = {t1, t2, t3}
  Semaphores = {TheLock, s1}
  Conditions = {c1}
  FirstThread = t1
  OtherThreads <- Others
  InitialValue <- StartValues
  MaxValue = 2
INVARIANTS
  HolderIsOwner
CHECK_DEADLOCK FALSE
