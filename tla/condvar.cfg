\* Three threads, one monitor, the timer at every point.
SPECIFICATION CondSpec
CONSTANTS
  m = m a = a b = b sm = sm sa = sa sb = sb
  Thread = {m, a, b}
  Main = m
  Idle = Idle
  None = None
  PRI_MIN = 1 PRI_MAX = 2 PRI_DEFAULT = 1
  TIME_SLICE = 1
  MaxTicks = 0
  MaxOps <- Ops422
  SleepTicks = {}
  Lock = {A}
  Sema = {sm, sa, sb}
  Rank <- NoRank
  InitValue <- Zero
  MaxValue = 1
  NewPriorities = {}
  Cond = {C}
  CondLock <- LockOf
  WaiterSema <- SemaOf
INVARIANTS CondTypeOK CondElemLive
PROPERTIES ImplementsMonitor HighestAsleepSignaled
\* The kernel really stops: after a fault.
CHECK_DEADLOCK FALSE
