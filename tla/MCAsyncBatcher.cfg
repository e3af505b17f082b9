SPECIFICATION FairSpec
CONSTANTS
  c1 = c1
  c2 = c2
  c3 = c3
  Callers = {c1, c2, c3}
  Rows <- MCRows
  MaxBatch = 2
INVARIANT OwnAnswer
PROPERTY CallReturns
PROPERTY StopReturns
CHECK_DEADLOCK FALSE
