SPECIFICATION Spec
CONSTANTS
  MaxIndex = 4
  MaxTerm = 2
  MaxBatch = 2
  SegmentCap = 2
  CrashIn = {"idle", "append", "truncate"}
  FailIn = {"truncate"}
INVARIANTS TypeOK MirrorMatchesDisk ReportedOnDisk
PROPERTY DurableLog
