CONSTANTS
  NoReply = NoReply
  Failed = Failed
  MaxConcurrent = 2
  Request = {r1, r2, r3}
  MaxSends = 3
SPECIFICATION SenderFairSpec
INVARIANT NoItemLost
 
PROPERTY StopReleasesSender
