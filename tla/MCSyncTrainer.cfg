SPECIFICATION Spec
CONSTANTS
  Games = {g1, g2}
  NoOwner = NoOwner
  NumBuffers = 2
  ReturnsLength = 2
  TrainerBatchSize = 1
  MaxUpdates = 2
  MaxFrames = 3
SYMMETRY Symmetry
INVARIANT NoInternalError
INVARIANT EpisodesSeparated
 
INVARIANT WaitersNotified
CHECK_DEADLOCK FALSE
