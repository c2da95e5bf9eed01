SPECIFICATION FairSpec
CONSTANTS
  a = a
  b = b
  Keys = {a, b}
  MaxIndex = 5
  Touch <- TouchAlternately
  SnapshotEntries = 2
  Retain = 1
  CrashAt = {"boot", "replay", "start", "idle", "hardstate", "apply", "snapshot", "compact", "advance"}
  MaxCrashes = 2
INVARIANTS TypeOK Recoverable RecoveredExact SnapshotCut AppliedWithinCommit NoUnderflow RetainHonoured StatusHonestOnceResumed
PROPERTY CatchesUp
