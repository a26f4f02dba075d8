\* mm.c.
SPECIFICATION FewSpec
CONSTANTS
  Kinds = {"buddy"}
  MaxBrk = 46
  Chunk = 16
  Roots = 10
  Requests = {1, 10}
  Fill <- TagLike
  MaxLive = 3
  MaxCalls = 2
INVARIANT PayloadsDisjoint
\* The client has made its calls.
CHECK_DEADLOCK FALSE
