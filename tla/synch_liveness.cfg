\* Three threads and two locks.
SPECIFICATION SynchFairSpec
CONSTANTS
  m = m a = a b = b c = c A = A B = B sem = sem
  Thread = {m, a, b}
  Main = m
  Idle = Idle
  None = None
  PRI_MIN = 1 PRI_MAX = 2 PRI_DEFAULT = 1
  TIME_SLICE = 1
  MaxTicks = 0
  MaxOps <- Ops22
  SleepTicks = {}
  Lock = {A, B}
  Sema = {}
  Rank <- TwoLockRank
  InitValue <- SemaZero
  MaxValue = 1
  NewPriorities = {}
INVARIANT NoDeadlock
PROPERTY EveryoneFinishes
\* The kernel really stops: when it panics and when every thread has exited.
CHECK_DEADLOCK FALSE
