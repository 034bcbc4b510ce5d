CONSTANTS
  Thread = {t1, t2}
  PIPESIZE = 2
  W = 4
  Counts = {1, 3}
SPECIFICATION FairSpec
INVARIANTS RingIntact SleepsForAReason
PROPERTIES NobodyWaitsForNobody
CHECK_DEADLOCK FALSE
