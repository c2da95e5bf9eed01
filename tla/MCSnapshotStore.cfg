SPECIFICATION Spec
CONSTANTS
  s1 = s1
  s2 = s2
  Local = Local
  Streams = {s1, s2}
  SnapOf <- SameSnapshot
  Chunks = 2
  Keep = 2
  Exclusive = TRUE
  MaxIndex = 5
  MaxFaults = 1
INVARIANTS TypeOK RetainedWhole AssembledWhole
PROPERTY LatestNeverBack
CHECK_DEADLOCK FALSE
