CONSTANTS
  NTHREAD = 3
  MAX_MUTEXES = 1
  Calls = {"alloc","lock","unlock","dealloc","kthread_create","kthread_exit","kthread_join","exec"}
  MaxMid = 2
  MaxTid = 4
SPECIFICATION Spec
INVARIANTS LockedNamesOwner VictimsOffCpu
CHECK_DEADLOCK FALSE
