CONSTANTS
  Producers = {c1, c2}
  Getters = {g1}
  MaxQueueSize = 2
  Source = 5
SPECIFICATION ZFairSpec
INVARIANT ZTypeOK
INVARIANT ConfirmedKept
PROPERTY ConfirmedDelivered
