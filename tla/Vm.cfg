CONSTANTS
  NPROC = 2
  NTHREAD = 2
  NPAGES = 18
  PGSIZE = 2
  NPTENTRIES = 2
  NPDENTRIES = 3
  GrowBy = {3}
  ShrinkBy = {3}
  Images = {1}
  ArgLengths = {1, 2}
  UserAddrs = {4}
  Races = {}
SPECIFICATION Spec
INVARIANTS PagesOwnedOnce SizeMatches  
VIEW PageView
