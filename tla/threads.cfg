\* Three threads of two priorities, clock and timer at every point.
SPECIFICATION FairSpec
CONSTANTS
  m = m a = a b = b
  Thread = {m, a, b}
  Main = m
  Idle = Idle
  None = None
  PRI_MIN = 1 PRI_MAX = 2 PRI_DEFAULT = 1
  TIME_SLICE = 2
  MaxTicks = 2
  MaxOps <- Ops22
  SleepTicks <- Sleeps
INVARIANTS TypeOK ElemExclusive
PROPERTIES DispatchHighest NeverWokenEarly NoneOverslept SleepersWake RoundRobin
