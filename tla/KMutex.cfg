CONSTANTS
  NTHREAD = 3
  MAX_MUTEXES = 2
  Calls = {"alloc","lock","unlock","dealloc","kthread_create"}
  MaxMid = 2
  MaxTid = 3
SPECIFICATION FairSpec
INVARIANTS NoLostWakeup
PROPERTIES ImplementsMutex FreeMutexTaken
CHECK_DEADLOCK FALSE
