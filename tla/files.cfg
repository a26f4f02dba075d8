\* Two processes, two names, four sectors.
SPECIFICATION FewOrderlySpec
CONSTANTS
  None = None
  MaxCalls = 6
  p1 = p1 p2 = p2
  Process = {p1, p2}
  Name = {n1, n2}
  Program = n1
  ProgramLength = 1
  LastSector = 5
  Slots = 2
  Value = {0, 1}
  Garbage <- SomeGarbage
  LastFd = 3
  MaxPos = 1
  MaxLost = 1
  Length = {0, 1}
SYMMETRY Symmetry
INVARIANTS FilesTypeOK SectorsOwnedOnce CountsMatch SynSemaKept
PROPERTIES LeaksOnlyByUndo ImplementsStore
\* The machine may be off; a process may wait for syn_sema for ever.
CHECK_DEADLOCK FALSE
