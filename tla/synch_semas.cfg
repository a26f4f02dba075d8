\* A lock, a semaphore upped by threads and by a device, and sleepers.
SPECIFICATION SynchSpec
CONSTANTS
  m = m a = a b = b c = c A = A B = B sem = sem
  Thread = {m, a, b}
  Main = m
  Idle = Idle
  None = None
  PRI_MIN = 1 PRI_MAX = 2 PRI_DEFAULT = 1
  TIME_SLICE = 1
  MaxTicks = 1
  MaxOps <- Ops22
  SleepTicks = {1}
  Lock = {A}
  Sema = {sem}
  Rank <- OneLockRank
  InitValue <- SemaZero
  MaxValue = 1
  NewPriorities = {1}
INVARIANTS SynchTypeOK SynchElemExclusive NoLostWakeup LockPermit
PROPERTIES HighestWaiterWoken ImplementsMutex
\* The kernel really stops: when it panics and when every thread has exited.
CHECK_DEADLOCK FALSE
