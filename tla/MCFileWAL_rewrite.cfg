SPECIFICATION Spec
CONSTANTS
  MaxIndex = 3
  MaxTerm = 2
  MaxBatch = 2
  SegmentCap = 2
  CrashIn = {"idle", "append", "rewrite"}
  FailIn = {}
PROPERTY DurableLog
