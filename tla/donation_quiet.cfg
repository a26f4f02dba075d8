\* Donation for one lock when no tick interrupts it.
SPECIFICATION QuietSpec
CONSTANTS
  m = m a = a b = b c = c A = A B = B sem = sem
  Thread = {m, a, b}
  Main = m
  Idle = Idle
  None = None
  PRI_MIN = 1 PRI_MAX = 3 PRI_DEFAULT = 1
  TIME_SLICE = 1
  MaxTicks = 0
  MaxOps <- Ops42
  SleepTicks = {}
  Lock = {A}
  Sema = {}
  Rank <- OneLockRank
  InitValue <- SemaZero
  MaxValue = 1
  NewPriorities = {}
INVARIANTS HolderRunsAtWaiterPriority DonationRelinquished
\* The kernel really stops: when it panics and when every thread has exited.
CHECK_DEADLOCK FALSE
