SPECIFICATION Spec
CONSTANTS
  Threads = {t1, t2}
  Main = t1
  Allocators = {t1, t2}
  Header = 3
  Granule = 2
  MaxRequest = 2
  Limit = 16
INVARIANTS BlocksDisjoint
