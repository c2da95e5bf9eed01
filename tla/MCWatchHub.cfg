SPECIFICATION FairSpec
CONSTANTS
  c1 = c1
  c2 = c2
  Conns = {c1, c2}
  MaxRev = 4
  MaxBatch = 2
  ReadyCap = 4
  ChanCap = 1
  HistoryCap = 2
INVARIANTS TypeOK NoGap NothingLost
PROPERTY Delivered
