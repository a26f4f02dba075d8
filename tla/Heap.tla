--------------------------------- MODULE Heap ---------------------------------
(***************************************************************************)
(* The malloc implementations, which differ in how they find a free block: *)
(*   nextfit   nextfit.c: from where the last search ended                 *)
(*   explicit  explicit.c: a circular list of the free blocks              *)
(*   segregate segregateList.c: a list of free blocks for each class       *)
(*   buddy     mm.c: lists by class, of blocks whose size is a power of 2  *)
(* The heap is an array of words of 4 bytes, as in the code: a block bp of *)
(* size words has a header at bp-1, a footer at bp+size-2 and its payload  *)
(* between them; a free block keeps its links in its first two words.      *)
(* Sizes are counted in words and are even, so a tag is size + alloc.      *)
(***************************************************************************)
EXTENDS Integers, FiniteSets, SequencesExt

CONSTANTS Kinds,     \* the implementations
          MaxBrk,    \* the words mem_sbrk has
          Chunk,     \* CHUNKSIZE in words
          Roots,     \* the number of classes of the segregated lists
          Requests,  \* the sizes the client asks for, in words
          Fill,      \* what the client writes into a block of each size
          MaxLive    \* bound on the blocks the client has

ASSUME HeapAssumption ==
  /\ Kinds \subseteq {"nextfit", "explicit", "segregate", "buddy"}
  /\ Chunk \in Nat /\ Chunk % 2 = 0 /\ Chunk >= 4
  /\ Roots \in Nat /\ Roots % 2 = 0 /\ Roots >= 4
  /\ MaxBrk \in Nat /\ MaxBrk >= Roots + 4 + Chunk /\ MaxLive \in Nat
  /\ Requests \subseteq Nat \ {0} /\ Fill \in [Requests -> Int]

VARIABLES kind, mem, brk, next_p, \* next_p is nextfit's
          live                    \* the client's blocks: the words it asked for
vars == <<kind, mem, brk, next_p, live>>

Addr == 0 .. MaxBrk - 1
NULL == 0
heap_listp == 2

(* A heap as a value: what an operation makes of h, with its result in bp. *)
Heap == [mem |-> mem, brk |-> brk, next_p |-> next_p, bp |-> NULL]

PACK(size, alloc) == size + alloc
GET_SIZE(h, a) == h.mem[a] - (h.mem[a] % 2)
GET_ALLOC(h, a) == h.mem[a] % 2
HDRP(bp) == bp - 1
FTRP(h, bp) == bp + GET_SIZE(h, HDRP(bp)) - 2
NEXT_BLKP(h, bp) == bp + GET_SIZE(h, HDRP(bp))
PREV_BLKP(h, bp) == bp - GET_SIZE(h, bp - 2)
PRE_EXPLICIT(h, bp) == h.mem[bp]
NEX_EXPLICIT(h, bp) == h.mem[bp + 1]

(* Header and footer of the block bp. *)
Tag(h, bp, size, alloc) ==
  [h EXCEPT !.mem[HDRP(bp)] = PACK(size, alloc), !.mem[bp + size - 2] = PACK(size, alloc)]

-----------------------------------------------------------------------------
(* The free lists. *)

my_pow[val \in Nat] == IF val = 0 THEN 1 ELSE 2 * my_pow[val - 1]

(* mm.c stops two classes before its last root. *)
LastClass == IF kind = "buddy" THEN Roots - 3 ELSE Roots - 1

(* The highest bit of the 4 * v bytes, or the last class. *)
findPosition(v) ==
  CHOOSE c \in 0 .. LastClass : my_pow[c] <= 4 * v /\ (c = LastClass \/ 4 * v < my_pow[c + 1])
Root(h, bp) == heap_listp + findPosition(GET_SIZE(h, HDRP(bp)))

insertExplicit(h, bp) ==
  LET first == NEX_EXPLICIT(h, heap_listp) IN
    [h EXCEPT !.mem[bp + 1] = first, !.mem[bp] = heap_listp,
              !.mem[first] = bp, !.mem[heap_listp + 1] = bp]

insertSegregateList(h, bp) ==
  LET root == Root(h, bp)  first == h.mem[root]
      linked == [h EXCEPT !.mem[bp + 1] = first, !.mem[root] = bp]
  IN IF first = NULL THEN linked ELSE [linked EXCEPT !.mem[first] = bp]

insert(h, bp) ==
  CASE kind = "nextfit" -> h
    [] kind = "explicit" -> insertExplicit(h, bp)
    [] OTHER -> insertSegregateList(h, bp)

Unlink(h, bp) ==
  LET pre == PRE_EXPLICIT(h, bp)  nex == NEX_EXPLICIT(h, bp)
      forward == [h EXCEPT !.mem[pre + 1] = nex]
  IN IF nex = NULL THEN forward ELSE [forward EXCEPT !.mem[nex] = pre]

deleteExplicit(h, bp) ==
  CASE kind = "nextfit" -> h
    [] kind = "explicit" -> Unlink(h, bp)
    [] OTHER -> IF h.mem[Root(h, bp)] = bp
                THEN [h EXCEPT !.mem[Root(h, bp)] = NEX_EXPLICIT(h, bp)]
                ELSE Unlink(h, bp)

(* What next leads to from bp on, up to the first of the ends. *)
Path(next, bp, ends) ==
  LET at[i \in Nat] == IF i = 0 THEN bp ELSE next[at[i - 1]]
      length == CHOOSE n \in 0 .. MaxBrk : at[n] \in ends /\ \A i \in 0 .. n - 1 : at[i] \notin ends
  IN [i \in 1 .. length |-> at[i - 1]]

(* The free blocks of a list, from bp on. *)
Chain(h, bp) == Path([a \in 2 .. MaxBrk - 2 |-> NEX_EXPLICIT(h, a)], bp, {NULL, heap_listp})

(* The blocks from bp up to stop, or to the end of the heap if it comes first. *)
Walk(h, bp, stop) ==
  LET inside == {a \in 2 .. MaxBrk : GET_SIZE(h, HDRP(a)) # 0}
  IN Path([a \in inside |-> NEXT_BLKP(h, a)], bp, ((2 .. MaxBrk) \ inside) \cup {stop})

-----------------------------------------------------------------------------
(* Seeded fault: a search that does not come round to the start. *)
SearchOnce(h, round) == Walk(h, h.next_p, h.brk)

(* nextfit goes on from where it stopped to the end of the heap, then from *)
(* the start to where it had stopped.                                      *)
SearchRound(h, round) ==
  IF round = 1 THEN Walk(h, h.next_p, h.brk) ELSE Walk(h, heap_listp, h.next_p)

(* Seeded fault: only the list of asize's own class is searched. *)
SearchOwnClass(h, asize) ==
  CASE kind = "nextfit" -> [round \in {1, 2} |-> SearchRound(h, round)]
    [] kind = "explicit" -> [round \in {1} |-> Chain(h, NEX_EXPLICIT(h, heap_listp))]
    [] OTHER -> [class \in {findPosition(asize)} |-> Chain(h, h.mem[heap_listp + class])]

(* The lists find_fit goes through, in order: the segregated ones are those *)
(* of the class of asize and above.                                        *)
SearchLists(h, asize) ==
  CASE kind = "nextfit" -> [round \in {1, 2} |-> SearchRound(h, round)]
    [] kind = "explicit" -> [round \in {1} |-> Chain(h, NEX_EXPLICIT(h, heap_listp))]
    [] OTHER -> [class \in findPosition(asize) .. Roots - 1 |-> Chain(h, h.mem[heap_listp + class])]

(* Only nextfit meets blocks in use. *)
Fits(h, bp, asize) ==
  /\ kind = "nextfit" => GET_ALLOC(h, HDRP(bp)) = 0
  /\ asize <= GET_SIZE(h, HDRP(bp))

(* Where in a list the blocks are that fit. *)
Fitting(h, list, asize) == {i \in DOMAIN list : Fits(h, list[i], asize)}

find_fit(h, asize) ==
  LET lists == SearchLists(h, asize)
      holding == {i \in DOMAIN lists : Fitting(h, lists[i], asize) # {}}
      list == lists[Min(holding)]
  IN IF holding = {} THEN NULL ELSE list[Min(Fitting(h, list, asize))]

(* Seeded fault: next_p stays when the block it points to is merged. *)
SearchUnmoved(h, bp, merged) == h

(* nextfit searches on from a block that has been merged. *)
SearchFrom(h, bp, merged) == IF kind = "nextfit" /\ merged THEN [h EXCEPT !.next_p = bp] ELSE h

(* Seeded fault: the free block before is left alone. *)
coalesce_right(h, bp) ==
  LET next == NEXT_BLKP(h, bp)
      takeNext == GET_ALLOC(h, HDRP(next)) = 0
      size == GET_SIZE(h, HDRP(bp)) + (IF takeNext THEN GET_SIZE(h, HDRP(next)) ELSE 0)
      merged == Tag(IF takeNext THEN deleteExplicit(h, next) ELSE h, bp, size, 0)
  IN [insert(SearchFrom(merged, bp, takeNext), bp) EXCEPT !.bp = bp]

coalesce_neighbours(h, bp) ==
  LET prev == PREV_BLKP(h, bp)  next == NEXT_BLKP(h, bp)
      takePrev == GET_ALLOC(h, FTRP(h, prev)) = 0
      takeNext == GET_ALLOC(h, HDRP(next)) = 0
      size == GET_SIZE(h, HDRP(bp)) + (IF takePrev THEN GET_SIZE(h, HDRP(prev)) ELSE 0)
                                    + (IF takeNext THEN GET_SIZE(h, HDRP(next)) ELSE 0)
      left == IF takePrev THEN prev ELSE bp
      h1 == IF takePrev THEN deleteExplicit(h, prev) ELSE h
      h2 == IF takeNext THEN deleteExplicit(h1, next) ELSE h1
      merged == Tag(h2, left, size, 0)
  IN [insert(SearchFrom(merged, left, takePrev \/ takeNext), left) EXCEPT !.bp = left]

(* mm.c: merges as long as the buddy, found by the bit of the offset that  *)
(* the size sets, has a free header of the same size.                      *)
coalesce_buddies(h, bp) ==
  LET offset(a) == a - (heap_listp + Roots + 1)
      merge(g, class) ==
        LET size == GET_SIZE(g, HDRP(g.bp))
            left == IF (offset(g.bp) \div size) % 2 = 1 THEN g.bp - size ELSE g.bp
            right == left + size
            pair == deleteExplicit(deleteExplicit(g, left), right)
        IN IF /\ GET_ALLOC(g, HDRP(left)) = 0 /\ GET_ALLOC(g, HDRP(right)) = 0
              /\ GET_SIZE(g, HDRP(left)) = GET_SIZE(g, HDRP(right))
           THEN [insert(Tag(pair, left, 2 * size, 0), left) EXCEPT !.bp = left]
           ELSE g
  IN FoldLeft(merge, [insert(h, bp) EXCEPT !.bp = bp], [class \in 1 .. Roots |-> class])

coalesce(h, bp) ==
  IF kind = "buddy" THEN coalesce_buddies(h, bp) ELSE coalesce_neighbours(h, bp)

(* mem_sbrk, which fails at the end of its memory; the old epilogue becomes *)
(* the header of the new block.                                             *)
extend_heap(h, words) ==
  LET class == findPosition(words)
      size == IF kind = "buddy"
              THEN (IF (4 * words) % my_pow[class] = 0 THEN my_pow[class] ELSE my_pow[class + 1]) \div 4
              ELSE words
      bp == h.brk
      grown == Tag([h EXCEPT !.brk = h.brk + size], bp, size, 0)
  IN IF bp + size > MaxBrk THEN [h EXCEPT !.bp = NULL]
     ELSE coalesce([grown EXCEPT !.mem[bp + size - 1] = PACK(0, 1)], bp)

(* Seeded fault: the rest of the block is not entered in a list. *)
place_losing(h, bp, asize) ==
  LET csize == GET_SIZE(h, HDRP(bp))  rest == bp + asize  taken == deleteExplicit(h, bp)
  IN IF csize - asize >= 4
     THEN [Tag(Tag(taken, bp, asize, 1), rest, csize - asize, 0) EXCEPT !.next_p = rest]
     ELSE [Tag(taken, bp, csize, 1) EXCEPT !.next_p = bp]

place_split(h, bp, asize) ==
  LET csize == GET_SIZE(h, HDRP(bp))  rest == bp + asize  taken == deleteExplicit(h, bp)
  IN IF csize - asize >= 4
     THEN [insert(Tag(Tag(taken, bp, asize, 1), rest, csize - asize, 0), rest) EXCEPT !.next_p = rest]
     ELSE [Tag(taken, bp, csize, 1) EXCEPT !.next_p = bp]

(* mm.c halves the block down to the class of asize, whose blocks may be   *)
(* smaller than asize.                                                     *)
place_halve(h, bp, asize) ==
  LET csize == findPosition(GET_SIZE(h, HDRP(bp)))
      halve(g, class) ==
        LET half == my_pow[class] \div 4
        IN insert(Tag(Tag(g, bp, half, 0), bp + half, half, 0), bp + half)
      halved == FoldLeft(halve, deleteExplicit(h, bp), [i \in 1 .. csize - findPosition(asize) |-> csize - i])
  IN Tag(halved, bp, GET_SIZE(halved, HDRP(bp)), 1)

place(h, bp, asize) ==
  [IF kind = "buddy" THEN place_halve(h, bp, asize) ELSE place_split(h, bp, asize) EXCEPT !.bp = bp]

-----------------------------------------------------------------------------
(* ALIGN(size + DSIZE), which is also nextfit's 2*DSIZE for small sizes. *)
Aligned(n) == IF n % 2 = 0 THEN n + 2 ELSE n + 3

(* place in the block that extend_heap got, if it got one. *)
PlaceExtended(extended, asize) ==
  IF extended.bp = NULL THEN extended ELSE place(extended, extended.bp, asize)

mm_malloc(h, n) ==
  LET asize == Aligned(n)  fit == find_fit(h, asize)
  IN IF fit # NULL THEN place(h, fit, asize)
     ELSE PlaceExtended(extend_heap(h, IF asize > Chunk THEN asize ELSE Chunk), asize)

mm_free(h, bp) == coalesce(Tag(h, bp, GET_SIZE(h, HDRP(bp)), 0), bp)

(* memcpy of the smaller of the new size and the old block's, into q. *)
Copy(h, p, q, n) ==
  LET size == IF n < GET_SIZE(h, HDRP(p)) THEN n ELSE GET_SIZE(h, HDRP(p))
  IN [h EXCEPT !.mem = [a \in Addr |-> IF a \in q .. q + size - 1 THEN h.mem[a - q + p] ELSE h.mem[a]]]

(* Seeded fault: the old block is freed before it is copied. *)
MoveAfterFree(new, p, n) ==
  IF new.bp = NULL THEN new ELSE [Copy(mm_free(new, p), p, new.bp, n) EXCEPT !.bp = new.bp]

(* From the old block to the new one, if there is a new one. *)
MoveTo(new, p, n) ==
  IF new.bp = NULL THEN new ELSE [mm_free(Copy(new, p, new.bp, n), p) EXCEPT !.bp = new.bp]

Moved(h, p, n) == MoveTo(mm_malloc(h, n), p, n)

(* Seeded fault: the free block after a growing one stays in its list. *)
GrownListed(h, bp, next) ==
  [Tag(h, bp, GET_SIZE(h, HDRP(bp)) + GET_SIZE(h, HDRP(next)), 1) EXCEPT !.bp = bp]

Grown(h, bp, next) ==
  [Tag(deleteExplicit(h, next), bp, GET_SIZE(h, HDRP(bp)) + GET_SIZE(h, HDRP(next)), 1) EXCEPT !.bp = bp]

(* Only segregateList.c tries to stay in place. *)
mm_realloc(h, bp, n) ==
  LET oldsize == GET_SIZE(h, HDRP(bp))  next == NEXT_BLKP(h, bp) IN
    CASE kind = "segregate" /\ Aligned(n) <= oldsize -> [h EXCEPT !.bp = bp]
      [] /\ kind = "segregate" /\ Aligned(n) > oldsize
         /\ GET_ALLOC(h, HDRP(next)) = 0
         /\ Aligned(n) <= oldsize + GET_SIZE(h, HDRP(next)) -> Grown(h, bp, next)
      [] OTHER -> Moved(h, bp, n)

-----------------------------------------------------------------------------
Set(h) ==
  /\ mem' = h.mem /\ brk' = h.brk
  /\ next_p' = IF kind = "nextfit" THEN h.next_p ELSE next_p
  /\ UNCHANGED kind

PrologueSize == CASE kind = "nextfit" -> 2 [] kind = "explicit" -> 4 [] OTHER -> Roots + 2

(* mm_init *)
Prologue ==
  LET size == PrologueSize
      links == IF kind = "explicit" THEN [a \in {2, 3} |-> 5 - a] ELSE [a \in {} |-> NULL]
  IN [mem |-> [a \in Addr |->
        CASE a \in {1, size} -> PACK(size, 1)
          [] a = size + 1 -> PACK(0, 1)
          [] a \in DOMAIN links -> links[a]
          [] OTHER -> 0],
      brk |-> size + 2, next_p |-> heap_listp, bp |-> NULL]

Init ==
  /\ kind \in Kinds
  /\ LET h == extend_heap(Prologue, Chunk) IN mem = h.mem /\ brk = h.brk /\ next_p = h.next_p
  /\ live = [p \in {} |-> 0]

(* The client writes into the block it gets, everywhere it may. *)
Filled(h, n) == [h EXCEPT !.mem = [a \in Addr |-> IF a \in h.bp .. h.bp + n - 1 THEN Fill[n] ELSE h.mem[a]]]

(* The heap is h and the client has its block h.bp of n words for the old ones. *)
Given(h, n, old) ==
  /\ Set(h)
  /\ live' = [p \in (DOMAIN live \ old) \cup {h.bp} |-> IF p = h.bp THEN n ELSE live[p]]

Allocated(h, n) == IF h.bp = NULL THEN Set(h) /\ UNCHANGED live ELSE Given(Filled(h, n), n, {})

Malloc(n) ==
  /\ Cardinality(DOMAIN live) < MaxLive
  /\ Allocated(mm_malloc(Heap, n), n)

Free(p) ==
  /\ Set(mm_free(Heap, p))
  /\ live' = [q \in DOMAIN live \ {p} |-> live[q]]

Reallocated(h, p, n) == IF h.bp = NULL THEN Set(h) /\ UNCHANGED live ELSE Given(h, n, {p})

Realloc(p, n) == Reallocated(mm_realloc(Heap, p, n), p, n)

Next ==
  \/ \E n \in Requests : Malloc(n)
  \/ \E p \in DOMAIN live : Free(p) \/ \E n \in Requests : Realloc(p, n)

Spec == Init /\ [][Next]_vars

-----------------------------------------------------------------------------
Elems(seq) == {seq[i] : i \in DOMAIN seq}
Blocks == Elems(Walk(Heap, heap_listp, brk)) \ {heap_listp}
FreeBlocks == {bp \in Blocks : GET_ALLOC(Heap, HDRP(bp)) = 0}

(* The boundary tags: from block to block one gets exactly to the end of   *)
(* the heap, header and footer agree, the blocks in use are the client's   *)
(* and nextfit's pointer is on a block, whatever the client has written    *)
(* and whatever merging has left behind.                                   *)
TagsConsistent ==
  /\ \A bp \in Blocks : mem[HDRP(bp)] = mem[FTRP(Heap, bp)]
  /\ \A bp \in Blocks : NEXT_BLKP(Heap, bp) \in Blocks \cup {brk}
  /\ Blocks \ FreeBlocks = DOMAIN live
  /\ kind = "nextfit" => next_p \in Blocks \cup {heap_listp}

(* coalesce leaves no two free blocks side by side. *)
Coalesced == \A bp \in FreeBlocks : NEXT_BLKP(Heap, bp) \notin FreeBlocks

(* The lists hold every free block once, each in the list of its class,    *)
(* and the links back agree with the links forward.                        *)
Lists ==
  CASE kind = "nextfit" -> {}
    [] kind = "explicit" -> {Chain(Heap, NEX_EXPLICIT(Heap, heap_listp))}
    [] OTHER -> {Chain(Heap, mem[heap_listp + c]) : c \in 0 .. Roots - 1}
ListsExact ==
  /\ kind # "nextfit" => FreeBlocks = UNION {Elems(l) : l \in Lists}
  /\ \A l \in Lists : \A i \in 2 .. Len(l) : PRE_EXPLICIT(Heap, l[i]) = l[i - 1]
  /\ kind = "segregate" =>
       \A c \in 0 .. Roots - 1 : \A bp \in Elems(Chain(Heap, mem[heap_listp + c])) :
         Root(Heap, bp) = heap_listp + c

NothingFits(n) == \A bp \in FreeBlocks : GET_SIZE(Heap, HDRP(bp)) < Aligned(n)

Serves(n) == Malloc(n) \/ \E p \in DOMAIN live : Realloc(p, n)

(* The heap grows for a request only when no free block can hold that very *)
(* request: find_fit misses none, wherever its lists or next_p have got to.*)
GrowsOnlyWhenFull == [][\A n \in Requests : Serves(n) /\ brk' # brk => NothingFits(n)]_vars

(* malloc returns NULL only for want of memory: no free block can hold the *)
(* request and mem_sbrk has less left than extend_heap asks it for.        *)
FailsOnlyWhenFull ==
  \A n \in Requests : mm_malloc(Heap, n).bp = NULL =>
    NothingFits(n) /\ brk + (IF Aligned(n) > Chunk THEN Aligned(n) ELSE Chunk) > MaxBrk

(* No payload overlaps another (mdriver.c: "The payload must not overlap   *)
(* any other payloads").                                                   *)
PayloadsDisjoint ==
  \A p, q \in DOMAIN live : p # q => (p .. p + live[p] - 1) \cap (q .. q + live[q] - 1) = {}

(* Whatever is allocated, freed and moved, a block keeps its contents.     *)
A == INSTANCE Allocator WITH
       Address <- Addr, Length <- Requests, Word <- Int,
       block <- [p \in DOMAIN live |-> [i \in 1 .. live[p] |-> mem[p + i - 1]]]
ImplementsAllocator == A!Spec
=============================================================================
