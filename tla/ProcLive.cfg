CONSTANTS
  NPROC = 2
  NTHREAD = 2
  CPU = {c1}
  Calls = {"fork","wait","kthread_create","exit","kthread_exit","kthread_join"}
  KillPids = {}
  MaxIds = 7
SPECIFICATION FairSpec
PROPERTIES  ChildReaped JoinReturns
CHECK_DEADLOCK FALSE
