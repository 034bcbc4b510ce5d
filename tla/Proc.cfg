CONSTANTS
  NPROC = 3
  NTHREAD = 3
  CPU = {c1, c2}
  Calls = {"fork","wait","kthread_create","kthread_exit","kthread_join","exit","exec","nomem","kill","io","fault"}
  KillPids = {2,3}
  MaxIds = 8
SPECIFICATION Spec
VIEW LiveView
INVARIANTS CpusRunThreads ProcessHasThread NoMissedWakeup SoleThread  ParentAlive
CHECK_DEADLOCK FALSE
