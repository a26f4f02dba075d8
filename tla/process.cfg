\* The initial thread, initd and two processes that they fork.
SPECIFICATION FairSpec
CONSTANTS
  None = None
  Main = 1
  MaxTid = 4
  Status <- ExitArguments
INVARIANTS ProcTypeOK ChildrenHavePages ParentStaysInFork
PROPERTIES ImplementsFamily BlockedGoesOn CollectedFreed
\* The machine is switched off; or initd waits for a thread that never runs.
CHECK_DEADLOCK FALSE
