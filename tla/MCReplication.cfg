SPECIFICATION FairSpec
CONSTANTS
  n1 = n1
  n2 = n2
  i1 = i1
  i2 = i2
  Other = Other
  Nodes = {n1, n2}
  Insts = {i1, i2}
  MaxRev = 2
  MaxFaults = 2
  MaxPending = 2
INVARIANTS TypeOK NothingSkipped
PROPERTY Converges
CHECK_DEADLOCK FALSE
