CONSTANTS
  NPROC = 2
  NTHREAD = 1
  NOFILE = 2
  NFILE = 3
  NPIPE = 1
  Calls = {"read", "write", "close", "dup", "pipe", "open", "fork", "exit"}
SPECIFICATION Spec
INVARIANTS RefsCounted NoUseAfterFree
