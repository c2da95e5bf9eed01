SPECIFICATION Spec
CONSTANTS
  r1 = r1
  r2 = r2
  r3 = r3
  k1 = k1
  k2 = k2
  k3 = k3
  Readers = {r1, r2, r3}
  Contexts = {k1, k2, k3}
  KeyOf <- KeyShared
  MaxIndex = 1
INVARIANTS TypeOK WaiterWritable OwnContextLinearizable
