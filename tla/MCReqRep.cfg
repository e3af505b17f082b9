CONSTANTS
  e1 = e1
  e2 = e2
  NoReply = NoReply
  Failed = Failed
  Endpoint = {e1, e2}
  Request = {r1, r2}
  Reply = {confirm, deny}
  MaxConcurrent = 1
  MaxRetries = 1
  EndpointLists <- SomeServers
SPECIFICATION FairSpec
INVARIANT AllResent
PROPERTY ImplementsAtLeastOnce
PROPERTY EveryFutureReady
