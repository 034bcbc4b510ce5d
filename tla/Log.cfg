CONSTANTS
  Thread = {t1, t2}
  Block = {b1, b2}
  NoBlock = NoBlock
  Value = {0, 1}
  MAXOPBLOCKS = 2
  LOGSIZE = 4
  nlog = 4
  MaxCrashes = 2
SPECIFICATION FairSpec
INVARIANTS PinnedUntilInstalled
PROPERTIES ImplementsAtomicDisk WaiterRuns
