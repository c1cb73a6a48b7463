SPECIFICATION ParsersSpec
CONSTANTS
  Documents <- MCDocuments
  Inputs <- MCInputs
  NoBlock = NoBlock
INVARIANTS AsWritten LifetimesPositive
CHECK_DEADLOCK FALSE
