SPECIFICATION FairSpec
CONSTANTS
  r1 = r1
  r2 = r2
  Requests = {r1, r2}
  MaxKey = 2
  TTLOf <- OneTTL
  DefaultTTL = 1
  Limit = 1
  MaxTime = 3
  MaxLog = 2
  MaxFaults = 2
INVARIANTS TypeOK SweepComplete
PROPERTY ExpiredRemoved
