CONSTANTS
  r1 = r1
  r2 = r2
  r3 = r3
  k1 = k1
  k2 = k2
  en = en
  fr = fr
  b1 = b1
  b2 = b2
  b3 = b3
  None = None
  Requests = {r1, r2, r3}
  Keys = {k1, k2}
  KeyOf <- KeyOne
  Variants = {en, fr, None}
  VariantOf <- VariantTwo
  Buffers = {b1, b2, b3}
  Settings <- MCSettings
  TTL = 1
  Stale = 1
  MaxCalls = 3
SPECIFICATION FairSpec
INVARIANTS WholeResponse StoredWhole
PROPERTIES GoroutinesEnd HandlerReturns
CHECK_DEADLOCK FALSE
