CONSTANTS
  Producers = {c1, c2, c3}
  Getters = {g1, g2}
  MaxQueueSize = 2
  Source = 4
SPECIFICATION FairSpec
INVARIANT ExactlyOnce
INVARIANT EndIsFinal
PROPERTY GetReturns
