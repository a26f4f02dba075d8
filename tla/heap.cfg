\* Three allocators, a heap of a few chunks.
SPECIFICATION FewSpec
CONSTANTS
  Kinds = {"nextfit", "explicit", "segregate"}
  MaxBrk = 44
  Chunk = 16
  Roots = 6
  Requests = {1, 6, 10}
  Fill <- TagLike
  MaxLive = 3
  MaxCalls = 5
INVARIANTS TagsConsistent Coalesced ListsExact PayloadsDisjoint FailsOnlyWhenFull
PROPERTIES GrowsOnlyWhenFull ImplementsAllocator
\* The client has made its calls.
CHECK_DEADLOCK FALSE
