SPECIFICATION Spec
CONSTANTS
  Threads <- MCThreads
  Conditions <- MCConditions
  Semaphores = {dp, lock, semaphore, listLock}
  N = 3
  Rounds = 2
  dp = dp
  Sectors = {0}
  Data = {"a", "b"}
  None = None
  MaxCalls = 2
  FirstThread = 0
  OtherThreads <- MCOtherThreads
  lock = lock
  semaphore = semaphore
  Items = {1, 2, 3}
  NoItem = NoItem
  Producers = {2}
  Consumers = {0, 1}
  Mappers = {3}
  FirstCaller = 1
  OtherCallers <- MCOtherCallers
  listLock = listLock
  listEmpty = 0
INVARIANTS
  NeighboursNeverBothEat
  PickupReturnsEating
  OneRequestAtATime
  ItemHasTaker
PROPERTIES
  ImplementsStore
  ImplementsFifo
  AllFinish
