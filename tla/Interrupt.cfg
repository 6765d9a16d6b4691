SPECIFICATION FairSpec
CONSTANTS
  t1 = t1
  t2 = t2
  t3 = t3
  Threads <- MCThreads
  FirstThread = t1
  OtherThreads <- MCOtherThreads
  UserTick = 1
  SystemTick = 2
  TimerDelays = {1, 4}
  DiskDelays = {1, 5}
  ConsoleTime = 3
INVARIANTS
  NothingOverdue
  ModeRight
  HaltMeansCompleted
PROPERTIES
  DiskWakes
  TimerSlices
