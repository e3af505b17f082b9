CONSTANTS
  Threads = {t1, t2, t3}
  MaxPrio = 2
  NoThread = NoThread
SPECIFICATION MutexFairSpec
INVARIANT NoLostWakeup
INVARIANT OvertakenOnce
PROPERTY Progress
PROPERTY ImplementsMutex
