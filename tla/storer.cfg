SPECIFICATION Spec
CONSTANTS
  Keys = {k1}
  NoKey = NoKey
  Variants = {en, fr}
  NoVary = NoVary
  Writers = {w1, w2}
  Readers = {r1}
  Removers = {p1}
  Hashed = FALSE
  Exclusive = TRUE
  Durations = {1}
  Stale = 1
  MaxWrites = 2
  MaxTime = 2
INVARIANTS
  TypeOK
  MappingDescribesValue
  NoLostStore
  NoReadOfInvalidated
PROPERTY
  FreshIsFound
SYMMETRY Symmetric
CHECK_DEADLOCK FALSE
