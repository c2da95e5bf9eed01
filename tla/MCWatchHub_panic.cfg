SPECIFICATION Spec
CONSTANTS
  c1 = c1
  c2 = c2
  Conns = {c1}
  MaxRev = 1
  MaxBatch = 2
  ReadyCap = 1
  ChanCap = 1
  HistoryCap = 2
INVARIANT NeverPanics
