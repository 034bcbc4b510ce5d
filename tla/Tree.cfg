CONSTANTS
  Depth = 2
  Thread = {t1, t2, t3}
  NoThread = NoThread
  Programs = {"dealloc"}
  MAX_MUTEXES = 4
  MaxTrees = 2
SPECIFICATION FairSpec
INVARIANTS PathOwned 
PROPERTIES SomeoneEnters ImplementsMutex
CHECK_DEADLOCK FALSE
