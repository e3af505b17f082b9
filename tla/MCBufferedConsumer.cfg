CONSTANTS
  Consumers = {c1, c2}
  Pools <- ThreadsOrNone
  Callers = {p1, p2}
  MaxItems = 3
  MaxQueueSize = 2
  FnThrows = FALSE
SPECIFICATION FairSpec
INVARIANT ExactlyOnce
INVARIANT BoundedFifo
PROPERTY WaitMeansDone
PROPERTY EveryItemHandled
PROPERTY EveryCallReturns
PROPERTY DestructorReturns
