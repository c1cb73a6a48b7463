SPECIFICATION FairSpec
CONSTANTS
  Built = {"badger", "otter", "redis"}
  Families <- Same
  Responses = {r1, r2}
  MaxLoads = 4
  MaxRestarts = 1
INVARIANT Purgeable
PROPERTY AdminServes
CHECK_DEADLOCK FALSE
