SPECIFICATION Spec
CONSTANTS
  k1 = k1  k2 = k2  a = a  ab = ab  path = path  empty = empty
  Keys <- MCKeys  Tags <- MCTags  NoTag = empty  Uri <- MCUri
  Begins <- Apart  Named <- MCNamed  Matches <- MCMatches
  Responses <- MCResponses  PurgeLists <- TwoLists
  Kinds = {"purge", "invalidate", "flush"}
  Storers = {h1, h2}  Purgers = {p1}
  Provider = "cloudflare"  MaxPerBatch = 2
  KeepStale = TRUE
  MaxWrites = 2  MaxPurges = 2
INVARIANTS TypeOK IndexComplete PurgeReaches CdnTold
SYMMETRY Alike
CHECK_DEADLOCK FALSE
