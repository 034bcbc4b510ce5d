CONSTANTS
  Thread = {t1, t2}
  Block = {n1, n2, n3, n4}
  Value = {v1, v2}
  NBUF = 3
  MaxPinned = 1
  MaxErrors = 1
  None = None
SPECIFICATION Spec
SYMMETRY Symmetry
INVARIANTS OneBufferPerBlock ReadsLatest NothingLost
