SPECIFICATION LifeSpec
CONSTANTS
  Threads = {main, t1, t2, t3}
  MainThread = main
  NoThread = NULL
INVARIANTS
  FinishedIsRemembered
CHECK_DEADLOCK FALSE
