CONSTANTS
  Thread = {t1, t2}
  Name = {"a", "b"}
  Path <- MCPath
  NINUM = 3
  NBLOCK = 3
  Calls = {"open", "create", "mkdir", "unlink", "link", "chdir", "close", "write"}
  MaxCalls = 5
SPECIFICATION Spec
INVARIANTS EntriesCounted RefsCounted BlocksOwnedOnce
SYMMETRY Symmetry
CHECK_DEADLOCK FALSE
