SPECIFICATION Spec
CONSTANTS
  Hosts = {h1}  Paths = {p1}  Tails = {"?", "more"}  Slots = {"plain", "vary"}
  Writers = {w1, w2}
  Types = {"uri-prefix", "origin"}  Purge = {TRUE, FALSE}
  MaxWrites = 2  MaxEvicts = 1
INVARIANTS InvalidationReaches EvictionKeepsLive
PROPERTY EvictsOnlyExpired
CHECK_DEADLOCK FALSE
