SPECIFICATION Spec
CONSTANTS
  Instances = {i1, i2}
  NoHolder = NoHolder
  TTL = 5
  Second = 2
  VerifyDelay = 2
  MaxLatency = 1
  MaxTime = 9
INVARIANTS
  TypeOK
  MutualExclusion
PROPERTY
  ImplementsLease
SYMMETRY Symmetric
CHECK_DEADLOCK FALSE
