SPECIFICATION Spec
CONSTANTS
  NumCells = 3
  Parallel = 2
  MaxRuns = 2
INVARIANTS
  PoolIsExact
  PairIsOwn
  OkIsKept
  ValidatedIsWhole
PROPERTY
  RunEnds
CHECK_DEADLOCK FALSE
