------------------------------ MODULE HeapProofs ------------------------------
(***************************************************************************)
(* Proofs about Heap, for every kind but mm.c's buddies and for every size *)
(* of the heap.  A heap h is described by the set B of its blocks, which   *)
(* the code never computes: Tiled says that B fills the heap, Listed that  *)
(* the lists hold a set of blocks, Clean what every operation leaves.      *)
(* Each operation of the code has a lemma that says what it makes of a     *)
(* clean heap, in the order in which the operations call each other.       *)
(***************************************************************************)
EXTENDS Heap, TLAPS, WellFoundedInduction

(* A heap as the operations pass it on. *)
Typed(h) == h \in [mem : [Addr -> Int], brk : 0 .. MaxBrk, next_p : Nat, bp : Nat]

Size(h, b) == GET_SIZE(h, HDRP(b))
Alloc(h, b) == GET_ALLOC(h, HDRP(b))

(* The blocks B fill the heap from the prologue to the epilogue, without a *)
(* gap and without overlapping, and each has its tag at both ends.         *)
Tiled(h, B) ==
  /\ Typed(h) /\ B \subseteq Nat /\ heap_listp \in B
  /\ h.mem[h.brk - 1] = PACK(0, 1) /\ Alloc(h, heap_listp) = 1 /\ Size(h, heap_listp) = PrologueSize
  /\ \A b \in B :
       /\ b >= heap_listp /\ b < h.brk /\ Size(h, b) >= 2 /\ (b # heap_listp => Size(h, b) >= 4)
       /\ b + Size(h, b) \in B \cup {h.brk} /\ b + Size(h, b) <= h.brk
       /\ h.mem[b + Size(h, b) - 2] = h.mem[b - 1]
  /\ \A b, c \in B : b < c => b + Size(h, b) <= c
  /\ \A c \in B \cup {h.brk} : c = heap_listp \/ \E b \in B : b + Size(h, b) = c

FreeIn(h, B) == {b \in B : Alloc(h, b) = 0}
UsedIn(h, B) == {b \in B : b # heap_listp /\ Alloc(h, b) = 1}

-----------------------------------------------------------------------------
(* A tag is an even size and a bit. *)
LEMMA TagParts ==
  ASSUME NEW h, NEW x, NEW s \in Int, NEW a \in {0, 1}, s % 2 = 0, h.mem[x] = PACK(s, a)
  PROVE  GET_SIZE(h, x) = s /\ GET_ALLOC(h, x) = a
BY DEF GET_SIZE, GET_ALLOC, PACK

(* What is read off a word is a number, even or a bit. *)
LEMMA Sizes ==
  ASSUME NEW h, NEW x, h.mem[x] \in Int
  PROVE  /\ GET_SIZE(h, x) \in Int /\ GET_SIZE(h, x) % 2 = 0 /\ GET_ALLOC(h, x) \in {0, 1}
         /\ h.mem[x] = PACK(GET_SIZE(h, x), GET_ALLOC(h, x))
BY DEF GET_SIZE, GET_ALLOC, PACK

(* The size and the bit are read off one word. *)
LEMMA SameWord ==
  ASSUME NEW g, NEW h, NEW x, g.mem[x] = h.mem[x]
  PROVE  GET_SIZE(g, x) = GET_SIZE(h, x) /\ GET_ALLOC(g, x) = GET_ALLOC(h, x)
BY DEF GET_SIZE, GET_ALLOC

(* Nothing is written outside X. *)
Unchanged(h, g, X) == \A x \in Addr \ X : g.mem[x] = h.mem[x]

(* The header and the footer are written. *)
TagWritten(h, g, bp, size, alloc) ==
  /\ Typed(g) /\ g.brk = h.brk /\ g.next_p = h.next_p /\ g.bp = h.bp
  /\ g.mem[bp - 1] = PACK(size, alloc) /\ g.mem[bp + size - 2] = PACK(size, alloc)
  /\ Unchanged(h, g, {bp - 1, bp + size - 2})
  /\ Size(g, bp) = size /\ Alloc(g, bp) = alloc

(* Tag writes the header and the footer and nothing else. *)
LEMMA TagWrites ==
  ASSUME NEW h, Typed(h), NEW bp \in Nat, NEW size \in Int, NEW alloc \in {0, 1},
         bp >= 1, size >= 2, size % 2 = 0, bp + size - 2 < MaxBrk
  PROVE  TagWritten(h, Tag(h, bp, size, alloc), bp, size, alloc)
<1> DEFINE g == Tag(h, bp, size, alloc)
<1>1. bp - 1 \in Addr /\ bp + size - 2 \in Addr /\ PACK(size, alloc) \in Int
  BY HeapAssumption DEF Addr, PACK
<1>2. /\ g = [h EXCEPT !.mem = g.mem]
      /\ g.mem = [[h.mem EXCEPT ![bp - 1] = PACK(size, alloc)] EXCEPT ![bp + size - 2] = PACK(size, alloc)]
  BY DEF Tag, HDRP, Typed
<1>3. h.mem \in [Addr -> Int]
  BY DEF Typed
<1>4. /\ g.mem \in [Addr -> Int]
      /\ g.mem[bp - 1] = PACK(size, alloc) /\ g.mem[bp + size - 2] = PACK(size, alloc)
      /\ \A x \in Addr \ {bp - 1, bp + size - 2} : g.mem[x] = h.mem[x]
  <2> HIDE DEF g
  <2> QED BY <1>1, <1>2, <1>3
<1>5. Typed(g) /\ g.brk = h.brk /\ g.next_p = h.next_p /\ g.bp = h.bp
  <2> HIDE DEF g
  <2> QED BY <1>2, <1>4 DEF Typed
<1>6. Size(g, bp) = size /\ Alloc(g, bp) = alloc
  <2> HIDE DEF g
  <2> QED BY <1>4, TagParts DEF Size, Alloc, HDRP
<1>7. TagWritten(h, g, bp, size, alloc)
  <2> HIDE DEF g
  <2> QED BY <1>4, <1>5, <1>6 DEF TagWritten, Unchanged
<1> QED BY <1>7 DEF g

-----------------------------------------------------------------------------
(* Where the blocks lie. *)
LEMMA Bounds ==
  ASSUME NEW h, NEW B, Tiled(h, B), NEW b \in B
  PROVE  /\ b \in Nat /\ b >= 2 /\ Size(h, b) \in Int /\ Size(h, b) % 2 = 0 /\ Size(h, b) >= 2
         /\ b + Size(h, b) <= h.brk /\ b < h.brk /\ h.brk <= MaxBrk /\ h.brk \in Nat /\ b # h.brk
         /\ b - 1 \in Addr /\ b + Size(h, b) - 2 \in Addr /\ h.brk - 1 \in Addr
         /\ Alloc(h, b) \in {0, 1} /\ h.mem[b - 1] = PACK(Size(h, b), Alloc(h, b))
<1>1. h.mem \in [Addr -> Int] /\ h.brk \in 0 .. MaxBrk /\ h.brk \in Nat
  BY HeapAssumption DEF Tiled, Typed
<1>2. b \in Nat /\ b >= 2 /\ b < h.brk /\ Size(h, b) >= 2 /\ b + Size(h, b) <= h.brk
  BY DEF Tiled, heap_listp
<1>3. b - 1 \in Addr
  BY <1>1, <1>2, HeapAssumption DEF Addr
<1>4. Size(h, b) \in Int /\ Size(h, b) % 2 = 0 /\ Alloc(h, b) \in {0, 1}
      /\ h.mem[b - 1] = PACK(Size(h, b), Alloc(h, b))
  BY <1>1, <1>3, Sizes DEF Size, Alloc, HDRP
<1>5. MaxBrk \in Nat
  BY HeapAssumption
<1>6. b + Size(h, b) - 2 \in Addr /\ h.brk - 1 \in Addr /\ h.brk <= MaxBrk /\ b # h.brk
  BY <1>1, <1>2, <1>4, <1>5 DEF Addr
<1> QED BY <1>1, <1>2, <1>3, <1>4, <1>6

-----------------------------------------------------------------------------
(* The tags say it all. *)
LEMMA SameTags ==
  ASSUME NEW h, NEW B, Tiled(h, B), NEW g, Typed(g), g.brk = h.brk,
         g.mem[h.brk - 1] = h.mem[h.brk - 1],
         \A b \in B : /\ g.mem[b - 1] = h.mem[b - 1]
                      /\ g.mem[b + Size(h, b) - 2] = h.mem[b + Size(h, b) - 2]
  PROVE  /\ Tiled(g, B) /\ FreeIn(g, B) = FreeIn(h, B) /\ UsedIn(g, B) = UsedIn(h, B)
         /\ \A b \in B : Size(g, b) = Size(h, b) /\ Alloc(g, b) = Alloc(h, b)
<1>1. \A b \in B : Size(g, b) = Size(h, b) /\ Alloc(g, b) = Alloc(h, b)
  BY SameWord DEF Size, Alloc, HDRP
<1>2. heap_listp \in B
  BY DEF Tiled
<1>3. Tiled(g, B)
  BY <1>1, <1>2 DEF Tiled
<1> QED BY <1>1, <1>3 DEF FreeIn, UsedIn

Around(B, l, r) == {b \in B : b < l \/ b >= r}

(* Nothing is written into the tags of the blocks outside l .. r. *)
TagsOutside(h, g, B, l, r) ==
  /\ g.mem[h.brk - 1] = h.mem[h.brk - 1]
  /\ \A b \in B : b < l \/ b >= r =>
       /\ g.mem[b - 1] = h.mem[b - 1]
       /\ g.mem[b + Size(h, b) - 2] = h.mem[b + Size(h, b) - 2]

(* The blocks N fill the words from l to r. *)
Fills(g, N, l, r) ==
  /\ N \subseteq Nat /\ l \in N
  /\ \A n \in N : /\ l <= n /\ n < r /\ Size(g, n) >= 4
                  /\ n + Size(g, n) \in N \cup {r} /\ n + Size(g, n) <= r
                  /\ g.mem[n + Size(g, n) - 2] = g.mem[n - 1]
  /\ \A n, m \in N : n < m => n + Size(g, n) <= m
  /\ \A c \in N \cup {r} : c = l \/ \E n \in N : n + Size(g, n) = c

(* The sizes of the blocks C are the same, and which are in use. *)
SameSizes(h, g, C) == \A b \in C : Size(g, b) = Size(h, b) /\ Alloc(g, b) = Alloc(h, b)

(* The blocks between l and r give way to other blocks that fill the same  *)
(* words.                                                                  *)
LEMMA Replaced ==
  ASSUME NEW h, NEW B, Tiled(h, B), NEW g, Typed(g), g.brk = h.brk,
         NEW l \in B, l # heap_listp, NEW r \in B \cup {h.brk}, l < r, NEW N, Fills(g, N, l, r),
         TagsOutside(h, g, B, l, r)
  PROVE  /\ Tiled(g, Around(B, l, r) \cup N)
         /\ SameSizes(h, g, Around(B, l, r))
<1> USE DEF Fills, TagsOutside, Around
<1> DEFINE C == Around(B, l, r)
<1>1. \A b \in C : Size(g, b) = Size(h, b) /\ Alloc(g, b) = Alloc(h, b)
  BY SameWord DEF Size, Alloc, HDRP
<1>2. /\ B \subseteq Nat /\ h.brk \in Nat /\ heap_listp = 2 /\ heap_listp \in B
      /\ \A b \in B : b >= 2 /\ b < h.brk /\ Size(h, b) \in Int /\ Size(h, b) >= 2 /\ b + Size(h, b) <= h.brk
      /\ \A b, c \in B : b < c => b + Size(h, b) <= c
  BY Bounds DEF Tiled, heap_listp
<1>3. r \in Nat /\ r <= h.brk /\ l \in Nat /\ l > 2 /\ (r # h.brk => r \in B)
  <2>1. l \in Nat /\ l >= 2 /\ l # 2
    BY <1>2
  <2>2. CASE r = h.brk
    BY <2>1, <2>2, <1>2
  <2>3. CASE r \in B
    <3>1. r \in Nat /\ r < h.brk
      BY <2>3, <1>2
    <3> QED BY <2>1, <2>3, <3>1, <1>2
  <2> QED BY <2>2, <2>3
<1>4. \A n \in N : Size(g, n) \in Int
  <2> TAKE n \in N
  <2>1. n - 1 \in Addr /\ g.mem \in [Addr -> Int]
    <3>1. h.brk \in 0 .. MaxBrk /\ MaxBrk \in Nat
      BY HeapAssumption DEF Typed
    <3>2. n \in Nat /\ l <= n /\ n < r
      OBVIOUS
    <3>3. n - 1 \in 0 .. MaxBrk - 1
      BY <1>2, <1>3, <3>1, <3>2
    <3> QED BY <3>3 DEF Addr, Typed
  <2> QED BY <2>1, Sizes DEF Size, HDRP
<1>5. /\ heap_listp \in C /\ C \subseteq B
      /\ \A b \in C : b < l \/ b >= r
      /\ \A b \in B : b < l \/ b >= r => b \in C
  BY <1>2, <1>3
<1> HIDE DEF C
<1>6. \A b \in C \cup N : b \in Nat /\ b >= 2 /\ b < h.brk /\ Size(g, b) \in Int /\ Size(g, b) >= 2 /\ b + Size(g, b) <= h.brk
  BY <1>1, <1>2, <1>3, <1>4, <1>5
<1>7. \A b \in C \cup N : b # heap_listp => Size(g, b) >= 4
  BY <1>1, <1>5 DEF Tiled
<1>8. \A b \in C \cup N : g.mem[b + Size(g, b) - 2] = g.mem[b - 1]
  BY <1>1, <1>5 DEF Tiled
<1>9. \A b \in C \cup N : b + Size(g, b) \in C \cup N \cup {g.brk}
  <2> TAKE b \in C \cup N
  <2>1. CASE b \in N
    BY <2>1, <1>2, <1>3, <1>5
  <2>2. CASE b \in C
    <3>1. b + Size(h, b) \in B \cup {h.brk} /\ b + Size(g, b) = b + Size(h, b)
      BY <2>2, <1>1, <1>5 DEF Tiled
    <3>2. b < l => b + Size(h, b) <= l
      BY <2>2, <1>2, <1>5
    <3>3. b >= r => b + Size(h, b) >= r
      BY <2>2, <1>2, <1>3, <1>5
    <3> QED BY <2>2, <3>1, <3>2, <3>3, <1>2, <1>3, <1>5
  <2> QED BY <2>1, <2>2
<1>10. \A b, c \in C \cup N : b < c => b + Size(g, b) <= c
  <2> TAKE b, c \in C \cup N
  <2>1. CASE b \in C /\ c \in C
    BY <2>1, <1>1, <1>2, <1>5
  <2>2. CASE b \in C /\ c \in N
    <3>1. b < c => b < l
      BY <2>2, <1>2, <1>3, <1>5
    <3>2. b < l => b + Size(h, b) <= l
      BY <2>2, <1>2, <1>5
    <3> QED BY <2>2, <3>1, <3>2, <1>1, <1>2, <1>3, <1>5
  <2>3. CASE b \in N /\ c \in C
    <3>1. b < r /\ l <= b /\ (c < l \/ c >= r) /\ c \in Nat /\ b \in Nat
      BY <2>3, <1>2, <1>5
    <3> QED BY <2>3, <3>1, <1>3, <1>4
  <2>4. CASE b \in N /\ c \in N
    BY <2>4
  <2> QED BY <2>1, <2>2, <2>3, <2>4
<1>11. \A c \in C \cup N \cup {g.brk} : c = heap_listp \/ \E b \in C \cup N : b + Size(g, b) = c
  <2> SUFFICES ASSUME NEW c \in C \cup N \cup {h.brk}, c # heap_listp
               PROVE  \E b \in C \cup N : b + Size(g, b) = c
    OBVIOUS
  <2>1. CASE (c \in N /\ c # l) \/ c = r
    <3>1. c \in N \cup {r} /\ c # l
      BY <2>1, <1>3
    <3> QED BY <3>1
  <2>2. CASE c # r /\ (c \in C \cup {h.brk} \/ c = l)
    <3>1. c \in B \cup {h.brk} /\ (c <= l \/ c > r) /\ c \in Nat
      BY <2>2, <1>2, <1>3, <1>5
    <3>2. PICK b \in B : b + Size(h, b) = c
      BY <3>1 DEF Tiled
    <3>3. b < l \/ b >= r
      <4>1. CASE c <= l
        BY <4>1, <3>2, <1>2, <3>1, <1>3
      <4>2. CASE c > r
        <5>1. r \in B
          BY <4>2, <3>1, <1>2, <1>3
        <5>2. ~(b < r)
          BY <4>2, <5>1, <1>2, <3>2
        <5>3. b \in Nat /\ r \in Nat
          BY <1>2, <1>3
        <5> QED BY <5>2, <5>3
      <4> QED BY <4>1, <4>2, <3>1
    <3> QED BY <3>2, <3>3, <1>1, <1>5
  <2> QED BY <2>1, <2>2
<1>12. Alloc(g, heap_listp) = 1 /\ Size(g, heap_listp) = PrologueSize /\ g.mem[g.brk - 1] = PACK(0, 1)
  BY <1>1, <1>5 DEF Tiled
<1>13. Tiled(g, C \cup N)
  <2>1. C \cup N \subseteq Nat /\ heap_listp \in C \cup N
    BY <1>5, <1>2
  <2> QED BY <2>1, <1>2, <1>6, <1>7, <1>8, <1>9, <1>10, <1>11, <1>12 DEF Tiled
<1> QED BY <1>1, <1>13 DEF C, SameSizes

(* mem_sbrk gives one block more. *)
LEMMA Extended ==
  ASSUME NEW h, NEW B, Tiled(h, B), NEW g, Typed(g), NEW size \in Int, size >= 4, g.brk = h.brk + size,
         \A b \in B : /\ g.mem[b - 1] = h.mem[b - 1]
                      /\ g.mem[b + Size(h, b) - 2] = h.mem[b + Size(h, b) - 2],
         Size(g, h.brk) = size, g.mem[h.brk + size - 2] = g.mem[h.brk - 1],
         g.mem[h.brk + size - 1] = PACK(0, 1)
  PROVE  /\ Tiled(g, B \cup {h.brk})
         /\ \A b \in B : Size(g, b) = Size(h, b) /\ Alloc(g, b) = Alloc(h, b)
<1>1. \A b \in B : Size(g, b) = Size(h, b) /\ Alloc(g, b) = Alloc(h, b)
  BY SameWord DEF Size, Alloc, HDRP
<1>2. /\ B \subseteq Nat /\ h.brk \in Nat /\ heap_listp = 2 /\ heap_listp \in B /\ h.brk > 2
      /\ \A b \in B : b >= 2 /\ b < h.brk /\ Size(h, b) \in Int /\ Size(h, b) >= 2 /\ b + Size(h, b) <= h.brk
      /\ \A b, c \in B : b < c => b + Size(h, b) <= c
  BY Bounds DEF Tiled, heap_listp
<1>3. \A b \in B \cup {h.brk} : b \in Nat /\ b >= 2 /\ b < g.brk /\ Size(g, b) >= 2 /\ b + Size(g, b) <= g.brk
                                 /\ (b # heap_listp => Size(g, b) >= 4)
  BY <1>1, <1>2 DEF Tiled
<1>4. \A b \in B \cup {h.brk} : b + Size(g, b) \in B \cup {h.brk} \cup {g.brk} /\ g.mem[b + Size(g, b) - 2] = g.mem[b - 1]
  BY <1>1 DEF Tiled
<1>5. \A b, c \in B \cup {h.brk} : b < c => b + Size(g, b) <= c
  BY <1>1, <1>2
<1>6. \A c \in B \cup {h.brk} \cup {g.brk} : c = heap_listp \/ \E b \in B \cup {h.brk} : b + Size(g, b) = c
  BY <1>1 DEF Tiled
<1>7. Alloc(g, heap_listp) = 1 /\ Size(g, heap_listp) = PrologueSize /\ g.mem[g.brk - 1] = PACK(0, 1)
  BY <1>1, <1>2 DEF Tiled
<1>8. B \cup {h.brk} \subseteq Nat /\ heap_listp \in B \cup {h.brk}
  BY <1>2
<1> QED BY <1>1, <1>2, <1>3, <1>4, <1>5, <1>6, <1>7, <1>8 DEF Tiled

-----------------------------------------------------------------------------
(* The words that hold the heads of the lists, and what ends a list. *)
ListHeads == IF kind = "explicit" THEN {heap_listp + 1} ELSE heap_listp .. heap_listp + Roots - 1
HeadOf(h, b) == IF kind = "explicit" THEN heap_listp + 1 ELSE Root(h, b)
End == IF kind = "explicit" THEN heap_listp ELSE NULL

(* Each block of F is first in its list or comes after the one before it,  *)
(* and what comes after it comes back to it; rank falls along a list.      *)
Linked(h, F, rank) ==
  /\ \A b \in F : HeadOf(h, b) \in ListHeads /\ rank[b] \in Nat
  /\ \A b \in F :
       \/ h.mem[HeadOf(h, b)] = b /\ (kind = "explicit" => h.mem[b] = heap_listp)
       \/ h.mem[b] \in F /\ HeadOf(h, h.mem[b]) = HeadOf(h, b) /\ h.mem[h.mem[b] + 1] = b
  /\ \A b \in F :
       \/ h.mem[b + 1] = End
       \/ /\ h.mem[b + 1] \in F /\ HeadOf(h, h.mem[b + 1]) = HeadOf(h, b) /\ h.mem[h.mem[b + 1]] = b
          /\ rank[h.mem[b + 1]] < rank[b] /\ h.mem[HeadOf(h, b)] # h.mem[b + 1]
  /\ \A x \in ListHeads : h.mem[x] = End \/ (h.mem[x] \in F /\ HeadOf(h, h.mem[x]) = x)

(* The free blocks F are those the lists hold. *)
Listed(h, F) ==
  kind # "nextfit" =>
    \E rank, n : n \in Nat /\ (\A b \in F : rank[b] < n) /\ Linked(h, F, rank)

(* The words the lists are made of. *)
Links(F) ==
  IF kind = "nextfit" THEN {} ELSE ListHeads \cup {heap_listp} \cup F \cup {b + 1 : b \in F}

(* Blocks that leave room for each other's links and for the heads. *)
Separate(F) ==
  kind # "nextfit" =>
    /\ F \subseteq Nat
    /\ \A b \in F : b > heap_listp + 2 /\ b + 1 < MaxBrk /\ \A x \in ListHeads : x < b - 1
    /\ \A b, c \in F : b < c => b + 4 <= c

(* The heads of the lists are words of the heap. *)
LEMMA HeadWords ==
  ASSUME kind \in {"explicit", "segregate"}
  PROVE  ListHeads \subseteq Addr /\ heap_listp \in Addr /\ End \notin ListHeads /\ NULL \in Addr
BY HeapAssumption DEF ListHeads, Addr, heap_listp, End, NULL

(* A block taken out between its neighbours leaves the others linked. *)
LEMMA Unlinked ==
  ASSUME kind \in {"explicit", "segregate"}, NEW h, Typed(h), NEW g, Typed(g), NEW F, Separate(F),
         NEW rank, Linked(h, F, rank), NEW b \in F,
         NEW w, w = IF h.mem[HeadOf(h, b)] = b THEN HeadOf(h, b) ELSE h.mem[b] + 1,
         g.mem[w] = h.mem[b + 1],
         h.mem[b + 1] \in F =>
           IF h.mem[HeadOf(h, b)] = b THEN kind = "explicit" => g.mem[h.mem[b + 1]] = heap_listp
           ELSE g.mem[h.mem[b + 1]] = h.mem[b],
         \A x \in Addr : x # w /\ x # h.mem[b + 1] => g.mem[x] = h.mem[x],
         \A c \in F : HeadOf(g, c) = HeadOf(h, c)
  PROVE  Linked(g, F \ {b}, rank)
<1> DEFINE pre == h.mem[b]  nex == h.mem[b + 1]  head == HeadOf(h, b)  first == h.mem[head] = b
<1>1. /\ F \subseteq Nat /\ \A c \in F : c \in Addr /\ c + 1 \in Addr /\ c - 1 \in Addr
      /\ \A c, d \in F : c # d + 1 /\ (c + 1 = d + 1 => c = d)
      /\ \A c \in F, x \in ListHeads : c # x /\ c + 1 # x
      /\ ListHeads \subseteq Addr /\ End \notin F /\ \A c \in F : c + 1 # End
  <2>1. ListHeads \subseteq Addr /\ MaxBrk \in Nat /\ heap_listp = 2 /\ End \in {0, 2} /\ ListHeads \subseteq Int
    BY HeapAssumption, HeadWords DEF heap_listp, End, NULL, Addr
  <2>2. F \subseteq Nat /\ \A c \in F : c > 4 /\ c + 1 < MaxBrk /\ \A x \in ListHeads : x < c - 1
    BY <2>1 DEF Separate
  <2>3. \A c, d \in F : c # d + 1
    BY <2>2 DEF Separate
  <2>4. \A c \in F : c \in Addr /\ c + 1 \in Addr /\ c - 1 \in Addr
    BY <2>1, <2>2 DEF Addr
  <2> QED BY <2>1, <2>2, <2>3, <2>4
<1>2. head \in ListHeads /\ (nex = End \/ nex \in F)
  BY DEF Linked
<1>3. first \/ pre \in F
  BY DEF Linked
<1>4. nex # b /\ (~first => pre # b)
  <2>1. rank[b] \in Nat
    BY DEF Linked
  <2>2. nex # b
    BY <2>1, <1>1, <1>2 DEF Linked
  <2>3. ~first => h.mem[pre + 1] = b
    BY DEF Linked
  <2> QED BY <2>2, <2>3
<1>5. \A c \in F \ {b} : c # nex => g.mem[c] = h.mem[c]
  BY <1>1, <1>2, <1>3
<1>6. \A c \in F \ {b} : first \/ c # pre => g.mem[c + 1] = h.mem[c + 1]
  BY <1>1, <1>2, <1>3
<1>7. \A x \in ListHeads : ~first \/ x # head => g.mem[x] = h.mem[x]
  <2>1. \A x \in ListHeads : x # nex
    BY <1>1, <1>2, HeadWords
  <2> QED BY <1>1, <1>3, <2>1
<1>8. first => g.mem[head] = nex
  OBVIOUS
<1>9. ~first => g.mem[pre + 1] = nex
  OBVIOUS
<1>10. nex \in F => IF first THEN kind = "explicit" => g.mem[nex] = heap_listp ELSE g.mem[nex] = pre
  OBVIOUS
<1> HIDE DEF pre, nex, head, first
<1>11. \A c \in F \ {b} : HeadOf(g, c) \in ListHeads /\ rank[c] \in Nat
  BY DEF Linked
<1>12. nex \in F => /\ HeadOf(h, nex) = head /\ h.mem[nex] = b /\ rank[nex] < rank[b] /\ h.mem[head] # nex
  BY <1>1 DEF Linked, nex, head
<1>13. ~first => /\ pre \in F /\ HeadOf(h, pre) = head /\ h.mem[pre + 1] = b
                 /\ rank[b] < rank[pre]
  <2> SUFFICES ASSUME ~first PROVE pre \in F /\ HeadOf(h, pre) = head /\ h.mem[pre + 1] = b /\ rank[b] < rank[pre]
    OBVIOUS
  <2>1. pre \in F /\ HeadOf(h, pre) = head /\ h.mem[pre + 1] = b
    BY DEF Linked, pre, head, first
  <2>2. b # End
    BY <1>1
  <2> QED BY <2>1, <2>2 DEF Linked
<1>14. ASSUME NEW c \in F \ {b}
       PROVE  \/ g.mem[HeadOf(g, c)] = c /\ (kind = "explicit" => g.mem[c] = heap_listp)
              \/ g.mem[c] \in F \ {b} /\ HeadOf(g, g.mem[c]) = HeadOf(g, c) /\ g.mem[g.mem[c] + 1] = c
  <2>1. CASE c = nex /\ first
    BY <2>1, <1>8, <1>10, <1>12
  <2>2. CASE c = nex /\ ~first
    BY <2>2, <1>9, <1>10, <1>12, <1>13, <1>4
  <2>3. CASE c # nex
    <3>1. g.mem[c] = h.mem[c] /\ HeadOf(g, c) = HeadOf(h, c) /\ HeadOf(h, c) \in ListHeads
      BY <2>3, <1>5 DEF Linked
    <3>2. CASE h.mem[HeadOf(h, c)] = c /\ (kind = "explicit" => h.mem[c] = heap_listp)
      <4>1. ~first \/ HeadOf(h, c) # head
        BY <3>2 DEF first
      <4> QED BY <4>1, <3>1, <3>2, <1>7
    <3>3. CASE h.mem[c] \in F /\ HeadOf(h, h.mem[c]) = HeadOf(h, c) /\ h.mem[h.mem[c] + 1] = c
      <4>1. h.mem[c] # b
        BY <3>3, <2>3 DEF nex
      <4>2. ~first => h.mem[c] # pre
        BY <3>3, <1>13
      <4> QED BY <4>1, <4>2, <3>1, <3>3, <1>6
    <3> QED BY <3>2, <3>3 DEF Linked
  <2> QED BY <2>1, <2>2, <2>3
<1>15. ASSUME NEW c \in F \ {b}
       PROVE  \/ g.mem[c + 1] = End
              \/ /\ g.mem[c + 1] \in F \ {b} /\ HeadOf(g, g.mem[c + 1]) = HeadOf(g, c) /\ g.mem[g.mem[c + 1]] = c
                 /\ rank[g.mem[c + 1]] < rank[c] /\ g.mem[HeadOf(g, c)] # g.mem[c + 1]
  <2>1. CASE ~first /\ c = pre
    <3>1. g.mem[c + 1] = nex
      BY <2>1, <1>9
    <3>2. CASE nex \in F
      <4>1. g.mem[nex] = c /\ nex \in F \ {b} /\ HeadOf(g, nex) = HeadOf(g, c)
        BY <2>1, <3>2, <1>10, <1>12, <1>13, <1>4
      <4>2. rank[nex] < rank[c]
        <5>1. rank[nex] \in Nat /\ rank[b] \in Nat /\ rank[c] \in Nat
          BY <3>2 DEF Linked
        <5> QED BY <5>1, <2>1, <3>2, <1>12, <1>13
      <4>3. g.mem[HeadOf(g, c)] # nex
        <5>1. HeadOf(g, c) = head /\ g.mem[head] = h.mem[head]
          BY <2>1, <1>7, <1>13, <1>2
        <5> QED BY <5>1, <3>2, <1>12
      <4> QED BY <3>1, <4>1, <4>2, <4>3
    <3> QED BY <3>1, <3>2, <1>2 DEF nex
  <2>2. CASE first \/ c # pre
    <3>1. g.mem[c + 1] = h.mem[c + 1] /\ HeadOf(g, c) = HeadOf(h, c) /\ HeadOf(h, c) \in ListHeads
      BY <2>2, <1>6 DEF Linked
    <3>2. CASE h.mem[c + 1] # End
      <4> DEFINE d == h.mem[c + 1]
      <4>1. /\ d \in F /\ HeadOf(h, d) = HeadOf(h, c) /\ h.mem[d] = c
            /\ rank[d] < rank[c] /\ h.mem[HeadOf(h, c)] # d
        BY <3>2 DEF Linked
      <4> HIDE DEF d
      <4>2. d # b
        BY <4>1, <2>2, <1>3 DEF pre, first, head
      <4>3. d # nex
        BY <4>1, <1>12
      <4>4. g.mem[d] = c
        BY <4>1, <4>2, <4>3, <1>5
      <4>5. g.mem[HeadOf(g, c)] # d
        BY <3>1, <4>1, <4>3, <1>7, <1>8
      <4> QED BY <3>1, <4>1, <4>2, <4>4, <4>5 DEF d
    <3> QED BY <3>1, <3>2
  <2> QED BY <2>1, <2>2
<1>16. ASSUME NEW x \in ListHeads
       PROVE  g.mem[x] = End \/ (g.mem[x] \in F \ {b} /\ HeadOf(g, g.mem[x]) = x)
  <2>1. CASE first /\ x = head
    BY <2>1, <1>2, <1>4, <1>8, <1>12 DEF nex
  <2>2. CASE ~first \/ x # head
    <3>1. g.mem[x] = h.mem[x]
      BY <2>2, <1>7
    <3>2. h.mem[x] # b
      <4> SUFFICES ASSUME h.mem[x] = b PROVE FALSE
        OBVIOUS
      <4>1. b # End
        BY <1>1
      <4>2. x = head
        BY <4>1 DEF Linked, head
      <4> QED BY <4>2, <2>2 DEF first
    <3> QED BY <3>1, <3>2 DEF Linked
  <2> QED BY <2>1, <2>2
<1> QED BY <1>11, <1>14, <1>15, <1>16 DEF Linked

(* A block put first leaves the others linked. *)
LEMMA Relinked ==
  ASSUME kind \in {"explicit", "segregate"}, NEW h, Typed(h), NEW g, Typed(g), NEW F, NEW b, b \notin F,
         Separate(F \cup {b}),
         NEW rank, NEW n \in Nat, \A c \in F : rank[c] < n, Linked(h, F, rank),
         HeadOf(h, b) \in ListHeads, \A c \in F \cup {b} : HeadOf(g, c) = HeadOf(h, c),
         g.mem[HeadOf(h, b)] = b, g.mem[b + 1] = h.mem[HeadOf(h, b)],
         kind = "explicit" => g.mem[b] = heap_listp,
         h.mem[HeadOf(h, b)] \in F => g.mem[h.mem[HeadOf(h, b)]] = b,
         \A x \in Addr : x \notin {b, b + 1, HeadOf(h, b), h.mem[HeadOf(h, b)]} => g.mem[x] = h.mem[x]
  PROVE  Linked(g, F \cup {b}, [c \in F \cup {b} |-> IF c = b THEN n ELSE rank[c]])
<1> DEFINE G == F \cup {b}  head == HeadOf(h, b)  nex == h.mem[head]
           high == [c \in G |-> IF c = b THEN n ELSE rank[c]]
<1>1. /\ \A c \in G : c \in Addr /\ c + 1 \in Addr /\ c \in Nat
      /\ \A c, d \in G : c # d + 1 /\ (c + 1 = d + 1 => c = d)
      /\ \A c \in G, x \in ListHeads : c # x /\ c + 1 # x
      /\ ListHeads \subseteq Addr /\ End \notin G /\ \A c \in G : c + 1 # End
  <2>1. ListHeads \subseteq Addr /\ MaxBrk \in Nat /\ heap_listp = 2 /\ End \in {0, 2} /\ ListHeads \subseteq Int
    BY HeapAssumption, HeadWords DEF heap_listp, End, NULL, Addr
  <2>2. G \subseteq Nat /\ \A c \in G : c > 4 /\ c + 1 < MaxBrk /\ \A x \in ListHeads : x < c - 1
    BY <2>1 DEF Separate
  <2>3. \A c, d \in G : c # d + 1
    BY <2>2 DEF Separate
  <2>4. \A c \in G : c \in Addr /\ c + 1 \in Addr
    BY <2>1, <2>2 DEF Addr
  <2> QED BY <2>1, <2>2, <2>3, <2>4
<1>2. head \in ListHeads /\ (nex = End \/ (nex \in F /\ HeadOf(h, nex) = head))
  BY DEF Linked
<1>3. nex # b
  BY <1>1, <1>2
<1>4. \A c \in F : c # nex => g.mem[c] = h.mem[c]
  BY <1>1, <1>2
<1>5. \A c \in F : g.mem[c + 1] = h.mem[c + 1]
  BY <1>1, <1>2
<1>6. \A x \in ListHeads : x # head => g.mem[x] = h.mem[x]
  <2>1. \A x \in ListHeads : x # nex
    BY <1>1, <1>2, HeadWords
  <2> QED BY <1>1, <2>1
<1>7. g.mem[head] = b /\ g.mem[b + 1] = nex /\ (nex \in F => g.mem[nex] = b) /\ (kind = "explicit" => g.mem[b] = heap_listp)
  OBVIOUS
<1>8. \A c \in F : HeadOf(g, c) = HeadOf(h, c) /\ HeadOf(h, c) \in ListHeads /\ rank[c] \in Nat
                   /\ high[c] = rank[c] /\ high[c] < n
  BY DEF Linked
<1>9. high[b] = n /\ HeadOf(g, b) = head
  OBVIOUS
<1> HIDE DEF head, nex, high
<1>10. \A c \in G : HeadOf(g, c) \in ListHeads /\ high[c] \in Nat
  BY <1>2, <1>8, <1>9
<1>11. ASSUME NEW c \in G
       PROVE  \/ g.mem[HeadOf(g, c)] = c /\ (kind = "explicit" => g.mem[c] = heap_listp)
              \/ g.mem[c] \in G /\ HeadOf(g, g.mem[c]) = HeadOf(g, c) /\ g.mem[g.mem[c] + 1] = c
  <2>1. CASE c = b
    BY <2>1, <1>7, <1>9
  <2>2. CASE c \in F /\ c = nex
    <3>1. HeadOf(g, c) = head /\ g.mem[c] = b /\ g.mem[b + 1] = c
      BY <2>2, <1>1, <1>2, <1>7, <1>8
    <3> QED BY <3>1, <1>9
  <2>3. CASE c \in F /\ c # nex
    <3>1. g.mem[c] = h.mem[c] /\ HeadOf(g, c) = HeadOf(h, c)
      BY <2>3, <1>4, <1>8
    <3>2. CASE h.mem[HeadOf(h, c)] = c /\ (kind = "explicit" => h.mem[c] = heap_listp)
      <4>1. HeadOf(h, c) # head
        BY <3>2, <2>3 DEF nex
      <4> QED BY <4>1, <3>1, <3>2, <1>6, <1>8, <2>3
    <3>3. CASE h.mem[c] \in F /\ HeadOf(h, h.mem[c]) = HeadOf(h, c) /\ h.mem[h.mem[c] + 1] = c
      BY <3>1, <3>3, <1>5, <1>8
    <3> QED BY <3>2, <3>3, <2>3 DEF Linked
  <2> QED BY <2>1, <2>2, <2>3
<1>12. ASSUME NEW c \in G
       PROVE  \/ g.mem[c + 1] = End
              \/ /\ g.mem[c + 1] \in G /\ HeadOf(g, g.mem[c + 1]) = HeadOf(g, c) /\ g.mem[g.mem[c + 1]] = c
                 /\ high[g.mem[c + 1]] < high[c] /\ g.mem[HeadOf(g, c)] # g.mem[c + 1]
  <2>1. CASE c = b
    BY <2>1, <1>2, <1>3, <1>7, <1>8, <1>9
  <2>2. CASE c \in F /\ h.mem[c + 1] # End
    <3> DEFINE d == h.mem[c + 1]
    <3>1. /\ d \in F /\ HeadOf(h, d) = HeadOf(h, c) /\ h.mem[d] = c
          /\ rank[d] < rank[c] /\ h.mem[HeadOf(h, c)] # d
      BY <2>2 DEF Linked
    <3>2. g.mem[c + 1] = d
      BY <2>2, <1>5
    <3> HIDE DEF d
    <3>3. d # nex
      <4> SUFFICES ASSUME d = nex PROVE FALSE
        OBVIOUS
      <4>1. nex # End
        BY <3>1, <1>1
      <4>2. HeadOf(h, nex) = head
        BY <4>1, <1>2
      <4> QED BY <4>2, <3>1 DEF nex
    <3>4. g.mem[d] = c
      BY <3>1, <3>3, <1>4
    <3>5. g.mem[HeadOf(g, c)] # d
      <4>1. CASE HeadOf(h, c) = head
        BY <4>1, <2>2, <1>7, <1>8, <3>1
      <4>2. CASE HeadOf(h, c) # head
        BY <4>2, <2>2, <1>6, <1>8, <3>1
      <4> QED BY <4>1, <4>2
    <3> QED BY <2>2, <3>1, <3>2, <3>4, <3>5, <1>8
  <2>3. CASE c \in F /\ h.mem[c + 1] = End
    BY <2>3, <1>5
  <2> QED BY <2>1, <2>2, <2>3
<1>13. ASSUME NEW x \in ListHeads
       PROVE  g.mem[x] = End \/ (g.mem[x] \in G /\ HeadOf(g, g.mem[x]) = x)
  <2>1. CASE x = head
    BY <2>1, <1>7, <1>9
  <2>2. CASE x # head
    BY <2>2, <1>6, <1>8 DEF Linked
  <2> QED BY <2>1, <2>2
<1>14. Linked(g, G, high)
  <2> HIDE DEF G
  <2> QED BY <1>10, <1>11, <1>12, <1>13 DEF Linked
<1> QED BY <1>14 DEF high

(* The lists are where their words are. *)
LEMMA SameLinks ==
  ASSUME kind # "buddy", NEW h, NEW g, NEW F, Listed(h, F),
         \A x \in Links(F) : g.mem[x] = h.mem[x], \A b \in F : g.mem[b - 1] = h.mem[b - 1]
  PROVE  Listed(g, F)
<1> SUFFICES ASSUME kind # "nextfit" PROVE Listed(g, F)
  BY DEF Listed
<1>1. PICK rank, n : n \in Nat /\ (\A b \in F : rank[b] < n) /\ Linked(h, F, rank)
  BY DEF Listed
<1>2. \A b \in F : HeadOf(g, b) = HeadOf(h, b)
  BY SameWord DEF HeadOf, Root, HDRP
<1>3. \A x \in ListHeads : g.mem[x] = h.mem[x]
  BY DEF Links
<1>4. \A b \in F : g.mem[b] = h.mem[b] /\ g.mem[b + 1] = h.mem[b + 1]
  BY DEF Links
<1>5. Linked(g, F, rank)
  <2>1. \A b \in F : HeadOf(g, b) \in ListHeads /\ rank[b] \in Nat
    BY <1>1, <1>2 DEF Linked
  <2>2. \A b \in F :
       \/ g.mem[HeadOf(g, b)] = b /\ (kind = "explicit" => g.mem[b] = heap_listp)
       \/ g.mem[b] \in F /\ HeadOf(g, g.mem[b]) = HeadOf(g, b) /\ g.mem[g.mem[b] + 1] = b
    BY <1>1, <1>2, <1>3, <1>4 DEF Linked
  <2>3. \A b \in F :
       \/ g.mem[b + 1] = End
       \/ /\ g.mem[b + 1] \in F /\ HeadOf(g, g.mem[b + 1]) = HeadOf(g, b) /\ g.mem[g.mem[b + 1]] = b
          /\ rank[g.mem[b + 1]] < rank[b] /\ g.mem[HeadOf(g, b)] # g.mem[b + 1]
    BY <1>1, <1>2, <1>3, <1>4 DEF Linked
  <2>4. \A x \in ListHeads : g.mem[x] = End \/ (g.mem[x] \in F /\ HeadOf(g, g.mem[x]) = x)
    BY <1>1, <1>2, <1>3 DEF Linked
  <2> QED BY <2>1, <2>2, <2>3, <2>4 DEF Linked
<1> QED BY <1>1, <1>5 DEF Listed

-----------------------------------------------------------------------------
(* Every nonempty set of naturals has a least element. *)
LEMMA LeastElement ==
  ASSUME NEW T \in SUBSET Nat, T # {}
  PROVE  \E n \in T : \A m \in T : n <= m
<1> DEFINE R == {ss \in Nat \X Nat : ss[1] < ss[2]}
<1>1. IsWellFoundedOn(R, Nat)
  BY NatLessThanWellFounded DEF OpToRel
<1>2. \A x, y \in Nat : y < x => <<y, x>> \in R
  OBVIOUS
<1> HIDE DEF R
<1>3. PICK x \in T : \A y \in T : <<y, x>> \notin R
  BY <1>1, WFMin
<1>4. ASSUME NEW y \in T PROVE x <= y
  <2>1. x \in Nat /\ y \in Nat
    OBVIOUS
  <2>2. ~(y < x)
    BY <2>1, <1>2, <1>3
  <2> QED BY <2>1, <2>2
<1> QED BY <1>4

(* A bounded one has a greatest. *)
LEMMA GreatestElement ==
  ASSUME NEW T, NEW m \in Nat, T \subseteq 0 .. m, T # {}
  PROVE  \E n \in T : \A i \in T : i <= n
<1> DEFINE S == {m - i : i \in T}
<1>1. S \in SUBSET Nat /\ S # {}
  <2>1. \A i \in T : i \in 0 .. m
    OBVIOUS
  <2>2. \A i \in T : m - i \in Nat
    BY <2>1
  <2> QED BY <2>2
<1>2. PICK s \in S : \A t \in S : s <= t
  <2> HIDE DEF S
  <2> QED BY <1>1, LeastElement
<1>3. PICK n \in T : s = m - n
  OBVIOUS
<1>4. ASSUME NEW i \in T PROVE i <= n
  <2>1. s <= m - i
    BY <1>2
  <2> QED BY <2>1, <1>3
<1> QED BY <1>4

(* Whatever next is, it can be followed for any number of steps. *)
Steps(next, x, f, n) == f[0] = x /\ \A i \in 1 .. n : f[i] = next[f[i - 1]]

(* For any number of steps there is a path. *)
LEMMA StepsExist ==
  ASSUME NEW next, NEW x
  PROVE  \A n \in Nat : \E f : Steps(next, x, f, n)
<1> DEFINE Bad == {n \in Nat : ~ \E f : Steps(next, x, f, n)}
<1> SUFFICES ASSUME Bad # {} PROVE FALSE
  OBVIOUS
<1>1. PICK n \in Bad : \A m \in Bad : n <= m
  <2>1. Bad \in SUBSET Nat
    OBVIOUS
  <2> HIDE DEF Bad
  <2> QED BY <2>1, LeastElement
<1>2. n \in Nat /\ ~ \E f : Steps(next, x, f, n)
  OBVIOUS
<1>3. n # 0
  <2>1. Steps(next, x, [i \in Nat |-> x], 0)
    BY DEF Steps
  <2> QED BY <2>1, <1>2
<1>4. n - 1 \in Nat /\ n - 1 \notin Bad
  BY <1>1, <1>2, <1>3
<1>5. PICK f : Steps(next, x, f, n - 1)
  BY <1>4
<1> DEFINE g == [i \in Nat |-> IF i = n THEN next[f[n - 1]] ELSE f[i]]
<1>6. Steps(next, x, g, n)
  <2>1. g[0] = x
    BY <1>2, <1>3, <1>5 DEF Steps
  <2>2. ASSUME NEW i \in 1 .. n PROVE g[i] = next[g[i - 1]]
    <3>1. CASE i = n
      BY <3>1, <1>2, <1>3
    <3>2. CASE i # n
      <4>1. i \in 1 .. n - 1 /\ i - 1 # n /\ i \in Nat /\ i - 1 \in Nat
        BY <3>2, <1>2
      <4>2. f[i] = next[f[i - 1]]
        BY <4>1, <1>5 DEF Steps
      <4> QED BY <4>1, <4>2, <3>2
    <3> QED BY <3>1, <3>2
  <2> HIDE DEF g
  <2> QED BY <2>1, <2>2 DEF Steps
<1> QED BY <1>2, <1>6

(* Two paths from one place agree as far as both go. *)
LEMMA StepsUnique ==
  ASSUME NEW next, NEW x, NEW f, NEW g, NEW n \in Nat, NEW m \in Nat, n <= m,
         Steps(next, x, f, n), Steps(next, x, g, m)
  PROVE  f[n] = g[n]
<1> DEFINE Bad == {i \in 0 .. n : f[i] # g[i]}
<1>1. Bad = {}
  <2> SUFFICES ASSUME Bad # {} PROVE FALSE
    OBVIOUS
  <2>1. PICK k \in Bad : \A i \in Bad : k <= i
    <3>1. Bad \in SUBSET Nat
      OBVIOUS
    <3> HIDE DEF Bad
    <3> QED BY <3>1, LeastElement
  <2>2. k \in 0 .. n /\ f[k] # g[k]
    OBVIOUS
  <2>3. k # 0
    BY <2>2 DEF Steps
  <2>4. k - 1 \in 0 .. n /\ k - 1 \notin Bad /\ k \in 1 .. n /\ k \in 1 .. m
    BY <2>1, <2>2, <2>3
  <2>5. f[k - 1] = g[k - 1]
    BY <2>4
  <2> QED BY <2>2, <2>4, <2>5 DEF Steps
<1> QED BY <1>1

Follows(next, x, at) == at = [i \in Nat |-> IF i = 0 THEN x ELSE next[at[i - 1]]]

(* There is a function that holds the whole of a path. *)
LEMMA Iterated ==
  ASSUME NEW next, NEW x
  PROVE  \E at : Follows(next, x, at)
<1> DEFINE F(n) == CHOOSE f : Steps(next, x, f, n)
           at == [i \in Nat |-> F(i)[i]]
<1>1. \A n \in Nat : Steps(next, x, F(n), n)
  BY StepsExist
<1> HIDE DEF F
<1>2. ASSUME NEW i \in Nat PROVE at[i] = IF i = 0 THEN x ELSE next[at[i - 1]]
  <2>1. CASE i = 0
    BY <2>1, <1>1 DEF Steps
  <2>2. CASE i # 0
    <3>1. i - 1 \in Nat /\ i - 1 <= i /\ i \in 1 .. i
      BY <2>2
    <3>2. F(i - 1)[i - 1] = F(i)[i - 1]
      BY <3>1, <1>1, StepsUnique
    <3>3. F(i)[i] = next[F(i)[i - 1]]
      BY <3>1, <1>1 DEF Steps
    <3> QED BY <2>2, <3>1, <3>2, <3>3
  <2> QED BY <2>1, <2>2
<1>3. at = [i \in Nat |-> at[i]]
  OBVIOUS
<1> HIDE DEF at
<1>4. Follows(next, x, at)
  BY <1>2, <1>3 DEF Follows
<1> QED BY <1>4

-----------------------------------------------------------------------------
(* The powers of two satisfy their recurrence. *)
LEMMA PowIs ==
  /\ \A n \in Nat : my_pow[n] \in Nat
  /\ my_pow[0] = 1 /\ \A n \in Nat : my_pow[n + 1] = 2 * my_pow[n]
<1> DEFINE next == [v \in Nat |-> 2 * v]
<1>0. \A v \in Nat : next[v] = 2 * v
  OBVIOUS
<1> HIDE DEF next
<1>1. PICK at : Follows(next, 1, at)
  BY Iterated
<1> DEFINE Bad == {i \in Nat : at[i] \notin Nat}
<1>2. Bad = {}
  <2> SUFFICES ASSUME Bad # {} PROVE FALSE
    OBVIOUS
  <2>1. PICK k \in Bad : \A i \in Bad : k <= i
    <3>1. Bad \in SUBSET Nat
      OBVIOUS
    <3> HIDE DEF Bad
    <3> QED BY <3>1, LeastElement
  <2>2. k \in Nat /\ at[k] \notin Nat
    OBVIOUS
  <2>3. at[k] = IF k = 0 THEN 1 ELSE next[at[k - 1]]
    BY <1>1, <2>2 DEF Follows
  <2>4. k # 0 /\ k - 1 \in Nat /\ k - 1 \notin Bad
    BY <2>1, <2>2, <2>3
  <2>5. at[k - 1] \in Nat
    BY <2>4
  <2> QED BY <2>2, <2>3, <2>4, <2>5, <1>0
<1>3. \A i \in Nat : at[i] \in Nat /\ at[i] = IF i = 0 THEN 1 ELSE 2 * at[i - 1]
  <2> TAKE i \in Nat
  <2>1. at[i] \in Nat /\ (i # 0 => at[i - 1] \in Nat)
    BY <1>2
  <2>2. at[i] = IF i = 0 THEN 1 ELSE next[at[i - 1]]
    BY <1>1 DEF Follows
  <2> QED BY <2>1, <2>2, <1>0
<1> HIDE DEF Bad
<1>4. at = [val \in Nat |-> IF val = 0 THEN 1 ELSE 2 * at[val - 1]]
  <2>1. at = [i \in Nat |-> at[i]]
    BY <1>1 DEF Follows
  <2> QED BY <2>1, <1>3
<1>5. my_pow = [val \in Nat |-> IF val = 0 THEN 1 ELSE 2 * my_pow[val - 1]]
  <2> DEFINE P(f) == f = [val \in Nat |-> IF val = 0 THEN 1 ELSE 2 * f[val - 1]]
  <2>1. \E f : P(f)
    BY <1>4
  <2>2. my_pow = CHOOSE f : P(f)
    BY DEF my_pow
  <2> HIDE DEF P
  <2>3. P(my_pow)
    BY <2>1, <2>2
  <2> QED BY <2>3 DEF P
<1> DEFINE Odd == {i \in Nat : my_pow[i] # at[i]}
<1>6. Odd = {}
  <2> SUFFICES ASSUME Odd # {} PROVE FALSE
    OBVIOUS
  <2>1. PICK k \in Odd : \A i \in Odd : k <= i
    <3>1. Odd \in SUBSET Nat
      OBVIOUS
    <3> HIDE DEF Odd
    <3> QED BY <3>1, LeastElement
  <2>2. k \in Nat /\ my_pow[k] # at[k]
    OBVIOUS
  <2>3. my_pow[k] = IF k = 0 THEN 1 ELSE 2 * my_pow[k - 1]
    BY <1>5, <2>2
  <2>4. at[k] = IF k = 0 THEN 1 ELSE 2 * at[k - 1]
    BY <1>3, <2>2
  <2>5. k # 0 /\ k - 1 \in Nat /\ k - 1 \notin Odd
    BY <2>1, <2>2, <2>3, <2>4
  <2>6. my_pow[k - 1] = at[k - 1]
    BY <2>5
  <2> QED BY <2>2, <2>3, <2>4, <2>5, <2>6
<1>7. \A n \in Nat : my_pow[n] \in Nat
  BY <1>3, <1>6
<1>8. my_pow[0] = 1
  BY <1>5
<1>9. \A n \in Nat : my_pow[n + 1] = 2 * my_pow[n]
  <2> TAKE n \in Nat
  <2>1. n + 1 \in Nat /\ n + 1 # 0 /\ n + 1 - 1 = n
    OBVIOUS
  <2> QED BY <2>1, <1>5
<1> QED BY <1>7, <1>8, <1>9

(* They grow with the exponent. *)
LEMMA PowGrows ==
  ASSUME NEW i \in Nat, NEW j \in Nat, i <= j
  PROVE  my_pow[i] <= my_pow[j]
<1> DEFINE Bad == {k \in Nat : i <= k /\ ~(my_pow[i] <= my_pow[k])}
<1>1. Bad = {}
  <2> SUFFICES ASSUME Bad # {} PROVE FALSE
    OBVIOUS
  <2>1. PICK k \in Bad : \A m \in Bad : k <= m
    <3>1. Bad \in SUBSET Nat
      OBVIOUS
    <3> HIDE DEF Bad
    <3> QED BY <3>1, LeastElement
  <2>2. k \in Nat /\ i <= k /\ ~(my_pow[i] <= my_pow[k])
    OBVIOUS
  <2>3. k # i /\ k - 1 \in Nat /\ i <= k - 1
    BY <2>2, PowIs
  <2>4. k - 1 \notin Bad
    BY <2>1, <2>3
  <2>5. my_pow[i] <= my_pow[k - 1]
    BY <2>3, <2>4
  <2>6. my_pow[k] = 2 * my_pow[k - 1]
    <3>1. k = (k - 1) + 1
      BY <2>2
    <3> QED BY <3>1, <2>3, PowIs
  <2>7. my_pow[i] \in Nat /\ my_pow[k - 1] \in Nat
    BY <2>3, PowIs
  <2> HIDE DEF Bad
  <2> QED BY <2>2, <2>5, <2>6, <2>7
<1> QED BY <1>1

(* c is the class of v words, which are 4 * v bytes. *)
ClassOf(c, v) ==
  /\ c \in 0 .. LastClass /\ my_pow[c] <= 4 * v
  /\ c = LastClass \/ 4 * v < my_pow[c + 1]

(* There are classes, each with a root. *)
LEMMA LastClassIs ==
  /\ LastClass \in Nat /\ LastClass >= 1 /\ LastClass <= Roots - 1 /\ Roots \in Nat
  /\ kind # "buddy" => LastClass = Roots - 1
BY HeapAssumption DEF LastClass

(* The class of a size is a class. *)
LEMMA ClassIs ==
  ASSUME NEW v \in Nat, v >= 1
  PROVE  ClassOf(findPosition(v), v) /\ findPosition(v) \in Nat /\ findPosition(v) <= Roots - 1
<1> DEFINE Good(c) == my_pow[c] <= 4 * v /\ (c = LastClass \/ 4 * v < my_pow[c + 1])
           Low == {c \in 0 .. LastClass : my_pow[c] <= 4 * v}
<1>1. LastClass \in Nat /\ \A n \in Nat : my_pow[n] \in Nat /\ my_pow[0] = 1
  BY PowIs, LastClassIs
<1>2. PICK c \in Low : \A d \in Low : d <= c
  <2>1. 0 \in Low /\ Low \subseteq 0 .. LastClass
    BY <1>1
  <2> HIDE DEF Low
  <2> QED BY <2>1, <1>1, GreatestElement
<1>3. c \in 0 .. LastClass /\ my_pow[c] <= 4 * v /\ (c + 1 \in Low => c + 1 <= c)
  BY <1>2
<1>4. Good(c)
  BY <1>1, <1>3
<1>5. findPosition(v) = CHOOSE d \in 0 .. LastClass : Good(d)
  BY DEF findPosition
<1> HIDE DEF Good
<1>6. findPosition(v) \in 0 .. LastClass /\ Good(findPosition(v))
  BY <1>3, <1>4, <1>5
<1>7. ClassOf(findPosition(v), v)
  BY <1>6 DEF Good, ClassOf
<1> QED BY <1>6, <1>7, LastClassIs

(* A larger size has no smaller class. *)
LEMMA ClassGrows ==
  ASSUME NEW v \in Nat, v >= 1, NEW w \in Nat, v <= w
  PROVE  findPosition(v) <= findPosition(w)
<1> DEFINE c == findPosition(v)  d == findPosition(w)
<1>1. c \in 0 .. LastClass /\ my_pow[c] <= 4 * v
  BY ClassIs DEF ClassOf
<1>2. d \in 0 .. LastClass /\ (d = LastClass \/ 4 * w < my_pow[d + 1])
  BY ClassIs DEF ClassOf
<1> HIDE DEF c, d
<1>3. LastClass \in Nat
  BY LastClassIs
<1>4. SUFFICES ASSUME d < c PROVE FALSE
  BY <1>1, <1>2, <1>3 DEF c, d
<1>5. c \in Nat /\ d + 1 \in Nat /\ d + 1 <= c /\ d # LastClass
  BY <1>1, <1>2, <1>3, <1>4
<1>6. my_pow[d + 1] <= my_pow[c] /\ my_pow[c] \in Nat /\ my_pow[d + 1] \in Nat
  BY <1>5, PowGrows, PowIs
<1> QED BY <1>1, <1>2, <1>5, <1>6

(* The list of a block has a head. *)
LEMMA HeadIs ==
  ASSUME NEW h, NEW b, Size(h, b) \in Nat, Size(h, b) >= 1
  PROVE  HeadOf(h, b) \in ListHeads
<1>1. CASE kind = "explicit"
  BY <1>1 DEF HeadOf, ListHeads
<1>2. CASE kind # "explicit"
  <2>1. findPosition(Size(h, b)) \in 0 .. Roots - 1
    BY ClassIs, LastClassIs
  <2>2. HeadOf(h, b) = heap_listp + findPosition(Size(h, b))
    BY <1>2 DEF HeadOf, Root, Size
  <2>3. Roots \in Nat
    BY HeapAssumption
  <2> QED BY <1>2, <2>1, <2>2, <2>3 DEF ListHeads, heap_listp
<1> QED BY <1>1, <1>2

(* One word is written. *)
LEMMA WordWritten ==
  ASSUME NEW h, Typed(h), NEW x \in Addr, NEW v \in Int
  PROVE  LET g == [h EXCEPT !.mem[x] = v] IN
           /\ Typed(g) /\ g.brk = h.brk /\ g.next_p = h.next_p /\ g.bp = h.bp
           /\ g.mem[x] = v /\ \A y \in Addr \ {x} : g.mem[y] = h.mem[y]
<1> DEFINE g == [h EXCEPT !.mem[x] = v]
<1>1. g.mem = [h.mem EXCEPT ![x] = v] /\ h.mem \in [Addr -> Int]
  BY DEF Typed
<1>2. g = [h EXCEPT !.mem = g.mem]
  BY DEF Typed
<1> HIDE DEF g
<1>3. g.mem \in [Addr -> Int] /\ g.mem[x] = v /\ \A y \in Addr \ {x} : g.mem[y] = h.mem[y]
  BY <1>1
<1>4. Typed(g) /\ g.brk = h.brk /\ g.next_p = h.next_p /\ g.bp = h.bp
  BY <1>2, <1>3 DEF Typed
<1> QED BY <1>3, <1>4 DEF g

(* What Separate says of words. *)
LEMMA Apart ==
  ASSUME kind \in {"explicit", "segregate"}, NEW F, Separate(F)
  PROVE  /\ \A c \in F : c \in Addr /\ c + 1 \in Addr /\ c - 1 \in Addr /\ c \in Nat /\ c > 4
         /\ \A c, d \in F : c # d + 1 /\ c - 1 # d /\ c - 1 # d + 1 /\ (c - 1 = d - 1 => c = d)
         /\ \A c \in F, x \in ListHeads : c # x /\ c + 1 # x /\ c - 1 # x
         /\ ListHeads \subseteq Addr /\ heap_listp = 2 /\ End \in {0, 2} /\ 2 \in Addr
<1>1. ListHeads \subseteq Addr /\ MaxBrk \in Nat /\ heap_listp = 2 /\ End \in {0, 2} /\ 2 \in Addr
  BY HeapAssumption, HeadWords DEF heap_listp, End, NULL
<1>2. ListHeads \subseteq Int
  BY <1>1 DEF Addr
<1>3. F \subseteq Nat /\ \A c \in F : c > 4 /\ c + 1 < MaxBrk /\ \A x \in ListHeads : x < c - 1
  BY <1>1 DEF Separate
<1>4. \A c, d \in F : c # d + 1 /\ c - 1 # d /\ c - 1 # d + 1 /\ (c - 1 = d - 1 => c = d)
  BY <1>3 DEF Separate
<1>5. \A c \in F : c \in Addr /\ c + 1 \in Addr /\ c - 1 \in Addr
  BY <1>1, <1>3 DEF Addr
<1>6. \A c \in F, x \in ListHeads : c # x /\ c + 1 # x /\ c - 1 # x
  BY <1>2, <1>3
<1> QED BY <1>1, <1>3, <1>4, <1>5, <1>6

(* The words of the lists, for the kinds that have lists. *)
LEMMA LinksIs ==
  ASSUME kind \in {"explicit", "segregate"}, NEW F
  PROVE  /\ Links(F) = ListHeads \cup {heap_listp} \cup F \cup {b + 1 : b \in F}
         /\ ListHeads \subseteq Links(F) /\ heap_listp \in Links(F)
         /\ \A b \in F : b \in Links(F) /\ b + 1 \in Links(F)
BY DEF Links

(* deleteExplicit takes one block from the lists and writes links only. *)
LEMMA Deleted ==
  ASSUME kind \in {"nextfit", "explicit", "segregate"}, NEW h, Typed(h), NEW F, Separate(F),
         Listed(h, F), NEW b \in F
  PROVE  LET g == deleteExplicit(h, b) IN
           /\ Typed(g) /\ Listed(g, F \ {b}) /\ g.brk = h.brk /\ g.next_p = h.next_p /\ g.bp = h.bp
           /\ Unchanged(h, g, Links(F))
<1> DEFINE g == deleteExplicit(h, b)
<1>1. CASE kind = "nextfit"
  BY <1>1 DEF deleteExplicit, Listed, Unchanged
<1>2. CASE kind # "nextfit"
  <2>0. kind \in {"explicit", "segregate"}
    BY <1>2
  <2>1. PICK rank, n : n \in Nat /\ (\A c \in F : rank[c] < n) /\ Linked(h, F, rank)
    BY <1>2 DEF Listed
  <2> DEFINE pre == h.mem[b]  nex == h.mem[b + 1]  head == HeadOf(h, b)
             w == IF h.mem[head] = b THEN head ELSE pre + 1
  <2>2. /\ head \in ListHeads /\ (nex = End \/ nex \in F)
        /\ IF h.mem[head] = b THEN kind = "explicit" => pre = heap_listp ELSE pre \in F
    <3>1. head \in ListHeads /\ (nex = End \/ nex \in F)
      BY <2>1 DEF Linked
    <3>2. h.mem[head] # b => pre \in F
      BY <2>1 DEF Linked
    <3>3. b # End
      BY <2>0, Apart
    <3>4. h.mem[head] = b => ~(pre \in F /\ HeadOf(h, pre) = head /\ h.mem[pre + 1] = b)
      BY <2>1, <3>3 DEF Linked
    <3>5. h.mem[head] = b /\ kind = "explicit" => pre = heap_listp
      BY <2>1, <3>4 DEF Linked
    <3> QED BY <3>1, <3>2, <3>5
  <2>3. w \in Addr /\ (nex # NULL => nex \in Addr) /\ nex \in Int /\ pre \in Int
        /\ w \in Links(F) /\ (nex # NULL => nex \in Links(F))
        /\ (kind = "explicit" => nex # NULL)
    BY <2>0, <2>2, Apart, LinksIs DEF NULL, End, Typed
  <2>4. w # nex
    BY <2>0, <2>2, Apart DEF End, ListHeads, heap_listp, NULL
  <2>5. kind = "explicit" => head = heap_listp + 1
    BY DEF HeadOf
  <2>6. /\ Typed(g) /\ g.brk = h.brk /\ g.next_p = h.next_p /\ g.bp = h.bp
        /\ g.mem[w] = nex
        /\ \A x \in Addr : x # w /\ x # nex => g.mem[x] = h.mem[x]
        /\ nex = NULL => \A x \in Addr : x # w => g.mem[x] = h.mem[x]
        /\ nex # NULL => IF h.mem[head] = b
                         THEN kind = "explicit" => g.mem[nex] = heap_listp
                         ELSE g.mem[nex] = pre
    <3>1. CASE kind = "explicit" \/ h.mem[head] # b
      <4> DEFINE f == [h EXCEPT !.mem[w] = nex]
      <4>1. pre + 1 = w /\ (h.mem[head] = b => pre = heap_listp)
        BY <3>1, <2>2, <2>5
      <4>2. g = Unlink(h, b)
        BY <2>0, <3>1 DEF deleteExplicit, HeadOf
      <4>3. g = IF nex = NULL THEN f ELSE [f EXCEPT !.mem[nex] = pre]
        BY <4>1, <4>2 DEF Unlink, PRE_EXPLICIT, NEX_EXPLICIT
      <4> HIDE DEF pre, nex, head, w
      <4>4. /\ Typed(f) /\ f.brk = h.brk /\ f.next_p = h.next_p /\ f.bp = h.bp
            /\ f.mem[w] = nex /\ \A x \in Addr \ {w} : f.mem[x] = h.mem[x]
        BY <2>3, WordWritten
      <4> HIDE DEF f, g
      <4>5. CASE nex = NULL
        BY <4>3, <4>4, <4>5
      <4>6. CASE nex # NULL
        <5>1. g = [f EXCEPT !.mem[nex] = pre]
          BY <4>3, <4>6
        <5>2. /\ Typed(g) /\ g.brk = f.brk /\ g.next_p = f.next_p /\ g.bp = f.bp
              /\ g.mem[nex] = pre /\ \A x \in Addr \ {nex} : g.mem[x] = f.mem[x]
          BY <2>3, <4>4, <4>6, <5>1, WordWritten
        <5> QED BY <2>3, <2>4, <4>1, <4>4, <4>6, <5>2
      <4> QED BY <4>5, <4>6
    <3>2. CASE kind = "segregate" /\ h.mem[head] = b
      <4>1. g = [h EXCEPT !.mem[w] = nex]
        BY <3>2 DEF deleteExplicit, HeadOf, NEX_EXPLICIT
      <4> HIDE DEF pre, nex, head, w, g
      <4> QED BY <2>3, <3>2, <4>1, WordWritten
    <3> QED BY <2>0, <3>1, <3>2
  <2> HIDE DEF g
  <2>7. \A x \in Addr \ Links(F) : g.mem[x] = h.mem[x]
    <3> HIDE DEF w, nex
    <3> QED BY <2>3, <2>6
  <2>8. \A c \in F : HeadOf(g, c) = HeadOf(h, c)
    <3> TAKE c \in F
    <3>1. c - 1 \in Addr /\ c - 1 \notin Links(F)
      BY <2>0, Apart, LinksIs
    <3> QED BY <3>1, <2>7, SameWord DEF HeadOf, Root, HDRP
  <2>9. nex \in F => nex # NULL
    BY <2>0, Apart DEF NULL
  <2>10. Linked(g, F \ {b}, rank)
    BY <2>0, <2>1, <2>6, <2>8, <2>9, Unlinked
  <2>11. Listed(g, F \ {b})
    BY <2>1, <2>10 DEF Listed
  <2>12. Unchanged(h, g, Links(F))
    BY <2>7 DEF Unchanged
  <2> QED BY <2>6, <2>12, <2>11 DEF g
<1> QED BY <1>1, <1>2

(* insert enters one block in the lists and writes links only. *)
LEMMA Inserted ==
  ASSUME kind \in {"nextfit", "explicit", "segregate"}, NEW h, Typed(h), NEW F, NEW b, b \notin F,
         Separate(F \cup {b}), Listed(h, F), Size(h, b) \in Nat, Size(h, b) >= 1
  PROVE  LET g == insert(h, b) IN
           /\ Typed(g) /\ Listed(g, F \cup {b}) /\ g.brk = h.brk /\ g.next_p = h.next_p /\ g.bp = h.bp
           /\ Unchanged(h, g, Links(F \cup {b}))
<1> DEFINE g == insert(h, b)
<1>1. CASE kind = "nextfit"
  BY <1>1 DEF insert, Listed, Unchanged
<1>2. CASE kind # "nextfit"
  <2>0. kind \in {"explicit", "segregate"}
    BY <1>2
  <2>1. PICK rank, n : n \in Nat /\ (\A c \in F : rank[c] < n) /\ Linked(h, F, rank)
    BY <1>2 DEF Listed
  <2> DEFINE head == HeadOf(h, b)  nex == h.mem[head]  G == F \cup {b}
  <2>2. head \in ListHeads /\ (nex = End \/ nex \in F)
    BY <2>1, HeadIs DEF Linked
  <2>3. /\ b \in Addr /\ b + 1 \in Addr /\ head \in Addr /\ head \in Int /\ b \in Int
        /\ (nex # NULL => nex \in Addr) /\ nex \in Int
        /\ b \in Links(G) /\ b + 1 \in Links(G) /\ head \in Links(G) /\ (nex # NULL => nex \in Links(G))
        /\ (kind = "explicit" => nex # NULL) /\ heap_listp \in Int
        /\ b # b + 1 /\ b # head /\ b + 1 # head
    <3>1. /\ \A c \in G : c \in Addr /\ c + 1 \in Addr /\ c \in Nat /\ c > 4
          /\ \A c \in G, x \in ListHeads : c # x /\ c + 1 # x
          /\ ListHeads \subseteq Addr /\ heap_listp = 2 /\ End \in {0, 2} /\ 2 \in Addr
      BY <2>0, Apart
    <3>2. /\ ListHeads \subseteq Links(G) /\ heap_listp \in Links(G)
          /\ \A c \in G : c \in Links(G) /\ c + 1 \in Links(G)
      BY <2>0, LinksIs
    <3> HIDE DEF G
    <3>3. b \in G /\ F \subseteq G
      BY DEF G
    <3>4. nex = End \/ nex \in G
      BY <2>2, <3>3
    <3>5. kind = "explicit" => End = heap_listp
      BY DEF End
    <3>6. kind # "explicit" => End = NULL
      BY DEF End
    <3> HIDE DEF head, nex
    <3>7. Addr \subseteq Int
      BY DEF Addr
    <3>8. b \in Addr /\ b + 1 \in Addr /\ head \in Addr /\ b \in Int /\ head \in Int /\ heap_listp \in Int
      BY <2>2, <3>1, <3>3, <3>7
    <3>9. b \in Links(G) /\ b + 1 \in Links(G) /\ head \in Links(G)
      BY <2>2, <3>2, <3>3
    <3>10. b # b + 1 /\ b # head /\ b + 1 # head
      BY <2>2, <3>1, <3>3
    <3>11. CASE nex = End
      BY <2>0, <3>1, <3>2, <3>5, <3>6, <3>7, <3>8, <3>9, <3>10, <3>11 DEF NULL
    <3>12. CASE nex \in G
      BY <3>1, <3>2, <3>7, <3>8, <3>9, <3>10, <3>12 DEF NULL
    <3> QED BY <3>4, <3>11, <3>12
  <2>4. nex # b /\ nex # b + 1 /\ nex # head
    <3>1. /\ \A c \in G : c > 4 /\ c \in Nat /\ \A d \in G : c # d + 1
          /\ \A c \in G, x \in ListHeads : c # x
          /\ End \in {0, 2}
      BY <2>0, Apart
    <3>2. End \notin ListHeads
      BY <2>0, HeadWords
    <3>3. CASE nex = End
      BY <2>2, <3>1, <3>2, <3>3
    <3>4. CASE nex \in F
      BY <2>2, <3>1, <3>4
    <3> QED BY <2>2, <3>3, <3>4
  <2>5. kind = "explicit" => head = heap_listp + 1
    BY DEF HeadOf
  <2>6. /\ Typed(g) /\ g.brk = h.brk /\ g.next_p = h.next_p /\ g.bp = h.bp
        /\ g.mem[head] = b /\ g.mem[b + 1] = nex /\ (kind = "explicit" => g.mem[b] = heap_listp)
        /\ (nex # NULL => g.mem[nex] = b)
        /\ \A x \in Addr : x \notin {b, b + 1, head, nex} => g.mem[x] = h.mem[x]
        /\ nex = NULL => \A x \in Addr : x \notin {b, b + 1, head} => g.mem[x] = h.mem[x]
    <3>1. CASE kind = "explicit"
      <4>1. g = [h EXCEPT !.mem[b + 1] = nex, !.mem[b] = heap_listp, !.mem[nex] = b, !.mem[head] = b]
        BY <3>1, <2>5 DEF insert, insertExplicit, NEX_EXPLICIT
      <4>2. nex \in Addr /\ nex # NULL
        BY <3>1, <2>3
      <4> DEFINE m1 == [h.mem EXCEPT ![b + 1] = nex]  m2 == [m1 EXCEPT ![b] = heap_listp]
                 m3 == [m2 EXCEPT ![nex] = b]  m4 == [m3 EXCEPT ![head] = b]
      <4> HIDE DEF nex, head, g
      <4>3. g = [h EXCEPT !.mem = g.mem] /\ g.mem = m4 /\ h.mem \in [Addr -> Int]
        BY <4>1 DEF Typed
      <4>4. m1 \in [Addr -> Int] /\ m1[b + 1] = nex /\ \A x \in Addr \ {b + 1} : m1[x] = h.mem[x]
        BY <4>3, <2>3
      <4> HIDE DEF m1
      <4>5. m2 \in [Addr -> Int] /\ m2[b] = heap_listp /\ \A x \in Addr \ {b} : m2[x] = m1[x]
        BY <4>4, <2>3
      <4> HIDE DEF m2
      <4>6. m3 \in [Addr -> Int] /\ m3[nex] = b /\ \A x \in Addr \ {nex} : m3[x] = m2[x]
        BY <4>5, <4>2, <2>3
      <4> HIDE DEF m3
      <4>7. m4 \in [Addr -> Int] /\ m4[head] = b /\ \A x \in Addr \ {head} : m4[x] = m3[x]
        BY <4>6, <2>3
      <4> HIDE DEF m4
      <4>8. Typed(g) /\ g.brk = h.brk /\ g.next_p = h.next_p /\ g.bp = h.bp
        BY <4>3, <4>7 DEF Typed
      <4>9. /\ g.mem[head] = b /\ g.mem[b + 1] = nex /\ g.mem[b] = heap_listp /\ g.mem[nex] = b
            /\ \A x \in Addr : x \notin {b, b + 1, head, nex} => g.mem[x] = h.mem[x]
        BY <4>2, <4>3, <4>4, <4>5, <4>6, <4>7, <2>3, <2>4
      <4> QED BY <4>2, <4>8, <4>9
    <3>2. CASE kind = "segregate"
      <4> DEFINE l1 == [h EXCEPT !.mem[b + 1] = nex]  l2 == [l1 EXCEPT !.mem[head] = b]
      <4>0. [h EXCEPT !.mem[b + 1] = nex, !.mem[head] = b] = l2
        OBVIOUS
      <4>1. g = IF nex = NULL THEN l2 ELSE [l2 EXCEPT !.mem[nex] = b]
        BY <3>2, <4>0 DEF insert, insertSegregateList, HeadOf
      <4> HIDE DEF nex, head, g
      <4>2. /\ Typed(l1) /\ l1.brk = h.brk /\ l1.next_p = h.next_p /\ l1.bp = h.bp
            /\ l1.mem[b + 1] = nex /\ \A x \in Addr \ {b + 1} : l1.mem[x] = h.mem[x]
        BY <2>3, WordWritten
      <4> HIDE DEF l1
      <4>3. /\ Typed(l2) /\ l2.brk = h.brk /\ l2.next_p = h.next_p /\ l2.bp = h.bp
            /\ l2.mem[head] = b /\ \A x \in Addr \ {head} : l2.mem[x] = l1.mem[x]
        BY <2>3, <4>2, WordWritten
      <4> HIDE DEF l2
      <4>4. CASE nex = NULL
        BY <3>2, <4>1, <4>2, <4>3, <4>4, <2>3
      <4>5. CASE nex # NULL
        <5>1. g = [l2 EXCEPT !.mem[nex] = b]
          BY <4>1, <4>5
        <5>2. /\ Typed(g) /\ g.brk = l2.brk /\ g.next_p = l2.next_p /\ g.bp = l2.bp
              /\ g.mem[nex] = b /\ \A x \in Addr \ {nex} : g.mem[x] = l2.mem[x]
          BY <2>3, <4>3, <4>5, <5>1, WordWritten
        <5> QED BY <3>2, <4>2, <4>3, <4>5, <5>2, <2>3, <2>4
      <4> QED BY <4>4, <4>5
    <3> QED BY <2>0, <3>1, <3>2
  <2> HIDE DEF g
  <2>7. \A x \in Addr \ Links(G) : g.mem[x] = h.mem[x]
    <3> HIDE DEF head, nex, G
    <3> QED BY <2>3, <2>6
  <2>8. \A c \in G : HeadOf(g, c) = HeadOf(h, c)
    <3> TAKE c \in G
    <3>1. c - 1 \in Addr /\ c - 1 \notin Links(G)
      BY <2>0, Apart, LinksIs
    <3> HIDE DEF G
    <3> QED BY <3>1, <2>7, SameWord DEF HeadOf, Root, HDRP
  <2>9. nex \in F => nex # NULL
    BY <2>0, Apart DEF NULL
  <2> DEFINE high == [c \in G |-> IF c = b THEN n ELSE rank[c]]
  <2>10. Linked(g, G, high)
    BY <2>0, <2>1, <2>2, <2>6, <2>8, <2>9, Relinked
  <2>11. n + 1 \in Nat /\ \A c \in G : high[c] < n + 1
    <3>1. \A c \in F : rank[c] \in Nat
      BY <2>1 DEF Linked
    <3> QED BY <3>1, <2>1
  <2>12. Listed(g, G)
    <3> HIDE DEF high, G
    <3> QED BY <2>10, <2>11 DEF Listed
  <2>13. Unchanged(h, g, Links(G))
    BY <2>7 DEF Unchanged
  <2> QED BY <2>6, <2>13, <2>12 DEF g
<1> QED BY <1>1, <1>2

-----------------------------------------------------------------------------
Kind3 == kind \in {"nextfit", "explicit", "segregate"}

(* Two blocks do not overlap. *)
LEMMA Disjoint ==
  ASSUME NEW h, NEW B, Tiled(h, B), NEW b \in B, NEW c \in B, b # c
  PROVE  b + Size(h, b) <= c \/ c + Size(h, c) <= b
<1>1. b \in Nat /\ c \in Nat
  BY DEF Tiled
<1> QED BY <1>1 DEF Tiled

(* The links of a list lie within the payload of a free block, or of the   *)
(* prologue.                                                               *)
LEMMA LinkSpan ==
  ASSUME Kind3, NEW h, NEW B, Tiled(h, B), NEW F, F \subseteq B \ {heap_listp}, NEW x \in Links(F)
  PROVE  \E c \in F \cup {heap_listp} : c <= x /\ x <= c + Size(h, c) - 3 /\ x \in Int
<1>1. kind \in {"explicit", "segregate"}
  BY DEF Links, Kind3
<1>2. x \in ListHeads \/ x = heap_listp \/ x \in F \/ \E c \in F : x = c + 1
  BY <1>1, LinksIs
<1>3. Roots \in Nat /\ heap_listp = 2 /\ Roots >= 4
  BY HeapAssumption DEF heap_listp
<1>4. Size(h, heap_listp) = IF kind = "explicit" THEN 4 ELSE Roots + 2
  BY <1>1 DEF Tiled, PrologueSize
<1>5. CASE x \in ListHeads \/ x = heap_listp
  BY <1>1, <1>3, <1>4, <1>5 DEF ListHeads
<1>6. CASE x \in F \/ \E c \in F : x = c + 1
  <2>1. PICK c \in F : x = c \/ x = c + 1
    BY <1>6
  <2>2. c \in B /\ c # heap_listp
    OBVIOUS
  <2>3. c \in Nat /\ Size(h, c) \in Int
    BY <2>2, Bounds
  <2>4. Size(h, c) >= 4
    BY <2>2 DEF Tiled
  <2> QED BY <2>1, <2>3, <2>4
<1> QED BY <1>2, <1>5, <1>6

(* No tag is a link. *)
LEMMA TagWords ==
  ASSUME Kind3, NEW h, NEW B, Tiled(h, B), NEW F, F \subseteq B \ {heap_listp}
  PROVE  /\ \A b \in B : b - 1 \notin Links(F) /\ b + Size(h, b) - 2 \notin Links(F)
         /\ h.brk - 1 \notin Links(F)
<1>1. heap_listp \in B /\ \A c \in F \cup {heap_listp} : c \in B
  BY DEF Tiled
<1>2. \A b \in B : b \in Nat /\ Size(h, b) \in Int /\ Size(h, b) >= 2 /\ b + Size(h, b) <= h.brk /\ h.brk \in Nat
  BY Bounds
<1>3. ASSUME NEW b \in B, NEW x \in Links(F) PROVE x # b - 1 /\ x # b + Size(h, b) - 2 /\ x # h.brk - 1
  <2>1. PICK c \in F \cup {heap_listp} : c <= x /\ x <= c + Size(h, c) - 3 /\ x \in Int
    BY LinkSpan
  <2>2. c \in B
    BY <1>1
  <2>3. c = b \/ b + Size(h, b) <= c \/ c + Size(h, c) <= b
    BY <2>2, Disjoint
  <2> QED BY <1>2, <2>1, <2>2, <2>3
<1> QED BY <1>1, <1>3

(* No link lies in a block that is in no list. *)
LEMMA PayloadWords ==
  ASSUME Kind3, NEW h, NEW B, Tiled(h, B), NEW F, F \subseteq B \ {heap_listp},
         NEW b \in B, b \notin F, b # heap_listp, NEW y \in b .. b + Size(h, b) - 3
  PROVE  y \notin Links(F) /\ y \in Addr
<1>1. heap_listp \in B /\ \A c \in F \cup {heap_listp} : c \in B
  BY DEF Tiled
<1>2. \A c \in B : c \in Nat /\ Size(h, c) \in Int /\ Size(h, c) >= 2 /\ c + Size(h, c) <= h.brk /\ h.brk \in Nat
                   /\ h.brk <= MaxBrk
  BY Bounds
<1>3. ASSUME NEW x \in Links(F) PROVE x # y
  <2>1. PICK c \in F \cup {heap_listp} : c <= x /\ x <= c + Size(h, c) - 3 /\ x \in Int
    BY LinkSpan
  <2>2. c \in B /\ c # b
    BY <1>1
  <2>3. b + Size(h, b) <= c \/ c + Size(h, c) <= b
    BY <2>2, Disjoint
  <2> QED BY <1>2, <2>1, <2>2, <2>3
<1>4. y \in Addr
  BY <1>2, HeapAssumption DEF Addr
<1> QED BY <1>3, <1>4

(* Free blocks leave room for each other's links. *)
LEMMA Spread ==
  ASSUME Kind3, NEW h, NEW B, Tiled(h, B), NEW F, F \subseteq B \ {heap_listp}
  PROVE  Separate(F)
<1> SUFFICES ASSUME kind # "nextfit" PROVE Separate(F)
  BY DEF Separate
<1>1. kind \in {"explicit", "segregate"}
  BY DEF Kind3
<1>2. heap_listp \in B /\ heap_listp = 2 /\ Roots \in Nat /\ Roots >= 4
  BY HeapAssumption DEF Tiled, heap_listp
<1>3. Size(h, heap_listp) = IF kind = "explicit" THEN 4 ELSE Roots + 2
  BY <1>1 DEF Tiled, PrologueSize
<1>4. \A b \in F : /\ b \in B /\ b \in Nat /\ Size(h, b) \in Int /\ b + Size(h, b) <= h.brk /\ h.brk \in Nat
                   /\ h.brk <= MaxBrk /\ b >= 2 /\ b # 2 /\ MaxBrk \in Nat
  BY <1>2, Bounds, HeapAssumption
<1>5. \A b \in F : Size(h, b) >= 4
  BY DEF Tiled
<1>6. \A b \in F : 2 + Size(h, heap_listp) <= b
  BY <1>2, <1>4 DEF Tiled
<1>7. \A b \in F : b > heap_listp + 2 /\ b + 1 < MaxBrk
  BY <1>2, <1>3, <1>4, <1>5, <1>6
<1>8. ASSUME NEW b \in F, NEW x \in ListHeads PROVE x < b - 1
  <2>1. x \in Int /\ x <= IF kind = "explicit" THEN 3 ELSE Roots + 1
    BY <1>1, <1>2 DEF ListHeads
  <2>2. b \in Nat /\ 2 + Size(h, heap_listp) <= b
    BY <1>4, <1>6
  <2> QED BY <2>1, <2>2, <1>2, <1>3
<1>9. ASSUME NEW b \in F, NEW c \in F, b < c PROVE b + 4 <= c
  <2>1. b + Size(h, b) <= c
    BY <1>4, <1>9 DEF Tiled
  <2> QED BY <2>1, <1>4, <1>5
<1>10. F \subseteq Nat
  BY <1>4
<1> QED BY <1>7, <1>8, <1>9, <1>10 DEF Separate

(* The blocks in use and what is in them. *)
Kept(h, g, U) ==
  \A b \in U : Size(g, b) = Size(h, b) /\ \A x \in b .. b + Size(h, b) - 3 : g.mem[x] = h.mem[x]

(* The blocks are the same, whatever else has changed. *)
Same(h, g, B) ==
  /\ Tiled(g, B) /\ FreeIn(g, B) = FreeIn(h, B) /\ UsedIn(g, B) = UsedIn(h, B)
  /\ \A b \in B : Size(g, b) = Size(h, b) /\ Alloc(g, b) = Alloc(h, b)
  /\ Kept(h, g, UsedIn(h, B))
  /\ g.brk = h.brk

(* Changes to the links of free blocks only. *)
LEMMA OnlyLinks ==
  ASSUME Kind3, NEW h, NEW B, Tiled(h, B), NEW F, F \subseteq FreeIn(h, B), NEW g, Typed(g), g.brk = h.brk,
         Unchanged(h, g, Links(F))
  PROVE  Same(h, g, B)
<1>1. F \subseteq B \ {heap_listp} /\ \A b \in UsedIn(h, B) : b \in B /\ b \notin F /\ b # heap_listp
  <2>1. heap_listp \notin FreeIn(h, B)
    BY DEF FreeIn, Tiled
  <2>2. FreeIn(h, B) \subseteq B /\ \A b \in UsedIn(h, B) : b \in B /\ b \notin FreeIn(h, B) /\ b # heap_listp
    BY DEF FreeIn, UsedIn
  <2> QED BY <2>1, <2>2
<1>2. \A b \in B : b - 1 \notin Links(F) /\ b + Size(h, b) - 2 \notin Links(F) /\ h.brk - 1 \notin Links(F)
  BY <1>1, TagWords
<1>3. \A b \in B : b - 1 \in Addr /\ b + Size(h, b) - 2 \in Addr /\ h.brk - 1 \in Addr
  BY Bounds
<1>4. \A b \in B : /\ g.mem[b - 1] = h.mem[b - 1] /\ g.mem[h.brk - 1] = h.mem[h.brk - 1]
                   /\ g.mem[b + Size(h, b) - 2] = h.mem[b + Size(h, b) - 2]
  BY <1>2, <1>3 DEF Unchanged
<1>5. heap_listp \in B
  BY DEF Tiled
<1>6. /\ Tiled(g, B) /\ FreeIn(g, B) = FreeIn(h, B) /\ UsedIn(g, B) = UsedIn(h, B)
      /\ \A b \in B : Size(g, b) = Size(h, b) /\ Alloc(g, b) = Alloc(h, b)
  BY <1>4, <1>5, SameTags
<1>7. Kept(h, g, UsedIn(h, B))
  <2>1. \A b \in UsedIn(h, B) : \A y \in b .. b + Size(h, b) - 3 : g.mem[y] = h.mem[y]
    BY <1>1, PayloadWords DEF Unchanged
  <2> QED BY <2>1, <1>1, <1>6 DEF Kept
<1> QED BY <1>6, <1>7 DEF Same

(* Fewer blocks have fewer links. *)
LEMMA LinksMono ==
  ASSUME NEW F, NEW G, G \subseteq F
  PROVE  Links(G) \subseteq Links(F)
BY DEF Links

(* Links are words of the heap. *)
LEMMA LinksInside ==
  ASSUME Kind3, NEW h, NEW B, Tiled(h, B), NEW F, F \subseteq B \ {heap_listp}
  PROVE  Links(F) \subseteq Addr
<1> SUFFICES ASSUME NEW x \in Links(F) PROVE x \in Addr
  OBVIOUS
<1>1. PICK c \in F \cup {heap_listp} : c <= x /\ x <= c + Size(h, c) - 3 /\ x \in Int
  BY LinkSpan
<1>2. c \in B
  BY DEF Tiled
<1>3. c \in Nat /\ Size(h, c) \in Int /\ c + Size(h, c) <= h.brk /\ h.brk <= MaxBrk /\ h.brk \in Nat
  BY <1>2, Bounds
<1>4. MaxBrk \in Nat
  BY HeapAssumption
<1> QED BY <1>1, <1>3, <1>4 DEF Addr

(* What is kept twice is kept. *)
LEMMA KeptTrans ==
  ASSUME NEW h, NEW g, NEW k, NEW U, Kept(h, g, U), Kept(g, k, U)
  PROVE  Kept(h, k, U)
BY DEF Kept

(* What is kept of a set is kept of its part. *)
LEMMA KeptLess ==
  ASSUME NEW h, NEW g, NEW U, Kept(h, g, U), NEW V, V \subseteq U
  PROVE  Kept(h, g, V)
BY DEF Kept

(* The same memory keeps everything. *)
LEMMA KeptSame ==
  ASSUME NEW h, NEW g, NEW U, g.mem = h.mem
  PROVE  Kept(h, g, U)
BY SameWord DEF Kept, Size, HDRP

(* All is said by the memory and its length. *)
LEMMA SameMemory ==
  ASSUME Kind3, NEW h, NEW B, Tiled(h, B), NEW g, Typed(g), g.mem = h.mem, g.brk = h.brk
  PROVE  Same(h, g, B)
BY SameTags, KeptSame DEF Same

(* The same memory holds the same lists. *)
LEMMA SameLists ==
  ASSUME Kind3, NEW h, NEW g, g.mem = h.mem, NEW F, Listed(h, F)
  PROVE  Listed(g, F)
<1>1. kind # "buddy"
  BY DEF Kind3
<1> QED BY <1>1, SameLinks

(* The blocks are the same after two changes that leave them the same. *)
LEMMA SameTrans ==
  ASSUME NEW h, NEW g, NEW k, NEW B, Same(h, g, B), Same(g, k, B)
  PROVE  Same(h, k, B)
<1>1. Kept(h, k, UsedIn(h, B))
  BY KeptTrans DEF Same
<1> QED BY <1>1 DEF Same

(* The tags of the blocks C are the same. *)
Alike(h, g, C) ==
  \A b \in C : Size(g, b) = Size(h, b) /\ Alloc(g, b) = Alloc(h, b) /\ g.mem[b - 1] = h.mem[b - 1]

(* g is h with one tag for all the blocks from l to r. *)
Retag(h, g, B, l, r, size, alloc) ==
  /\ Typed(g) /\ g.brk = h.brk /\ g.next_p = h.next_p /\ g.bp = h.bp
  /\ Tiled(g, Around(B, l, r) \cup {l}) /\ Size(g, l) = size /\ Alloc(g, l) = alloc /\ size >= 4
  /\ Unchanged(h, g, {l - 1, r - 2}) /\ Alike(h, g, Around(B, l, r))
  /\ Kept(h, g, Around(B, l, r)) /\ l \notin Around(B, l, r)

(* Tag makes one block of those from l to r. *)
LEMMA Retagged ==
  ASSUME NEW h, NEW B, Tiled(h, B), NEW l \in B, l # heap_listp, NEW r \in B \cup {h.brk}, l < r,
         NEW size \in Int, size = r - l, size % 2 = 0, NEW alloc \in {0, 1}
  PROVE  Retag(h, Tag(h, l, size, alloc), B, l, r, size, alloc)
<1> DEFINE g == Tag(h, l, size, alloc)  C == Around(B, l, r)
<1>1. /\ \A b \in B : /\ b \in Nat /\ b >= 2 /\ Size(h, b) \in Int /\ Size(h, b) >= 2
                      /\ b + Size(h, b) <= h.brk /\ b < h.brk /\ h.brk <= MaxBrk /\ h.brk \in Nat
                      /\ b - 1 \in Addr /\ b + Size(h, b) - 2 \in Addr /\ h.brk - 1 \in Addr
      /\ \A b, c \in B : b < c => b + Size(h, b) <= c
  BY Bounds DEF Tiled
<1>2. l \in Nat /\ l >= 2 /\ r \in Nat /\ r <= h.brk /\ h.brk <= MaxBrk /\ MaxBrk \in Nat /\ h.brk \in Nat
  BY <1>1, HeapAssumption
<1>3. l + Size(h, l) <= r /\ Size(h, l) >= 4 /\ Size(h, l) \in Int
  BY <1>1 DEF Tiled
<1>4. size >= 4 /\ l + size = r /\ r - 2 = l + size - 2
  BY <1>2, <1>3
<1>5. /\ Typed(g) /\ g.brk = h.brk /\ g.next_p = h.next_p /\ g.bp = h.bp
      /\ g.mem[l - 1] = PACK(size, alloc) /\ g.mem[l + size - 2] = PACK(size, alloc)
      /\ \A x \in Addr \ {l - 1, l + size - 2} : g.mem[x] = h.mem[x]
      /\ Size(g, l) = size /\ Alloc(g, l) = alloc
  <2>1. Typed(h)
    BY DEF Tiled
  <2>2. l >= 1 /\ size >= 2 /\ l + size - 2 < MaxBrk
    BY <1>2, <1>4
  <2>3. TagWritten(h, g, l, size, alloc)
    BY <1>2, <2>1, <2>2, TagWrites
  <2> HIDE DEF g
  <2> QED BY <2>3 DEF TagWritten, Unchanged
<1> HIDE DEF g
<1>6. \A b \in C : b \in B /\ (b < l => b + Size(h, b) <= l) /\ (b < l \/ b >= r)
  BY <1>1 DEF Around
<1>7. ASSUME NEW b \in C
      PROVE  /\ g.mem[b - 1] = h.mem[b - 1] /\ g.mem[b + Size(h, b) - 2] = h.mem[b + Size(h, b) - 2]
             /\ \A x \in b .. b + Size(h, b) - 3 : g.mem[x] = h.mem[x]
  <2>1. /\ b \in Nat /\ b >= 2 /\ Size(h, b) \in Int /\ Size(h, b) >= 2 /\ b - 1 \in Addr
        /\ b + Size(h, b) - 2 \in Addr /\ b + Size(h, b) <= h.brk
    BY <1>1, <1>6
  <2>2. (b < l /\ b + Size(h, b) <= l) \/ b >= r
    BY <1>6
  <2>3. b - 1 \notin {l - 1, l + size - 2}
    BY <1>2, <1>4, <2>1, <2>2
  <2>4. b + Size(h, b) - 2 \notin {l - 1, l + size - 2}
    BY <1>2, <1>4, <2>1, <2>2
  <2>5. \A x \in b .. b + Size(h, b) - 3 : x \in Addr /\ x \notin {l - 1, l + size - 2}
    BY <1>2, <1>4, <2>1, <2>2 DEF Addr
  <2> QED BY <1>5, <2>1, <2>3, <2>4, <2>5
<1>8. g.mem[h.brk - 1] = h.mem[h.brk - 1]
  BY <1>1, <1>2, <1>4, <1>5
<1>9. Tiled(g, C \cup {l}) /\ \A b \in C : Size(g, b) = Size(h, b) /\ Alloc(g, b) = Alloc(h, b)
  <2>1. TagsOutside(h, g, B, l, r)
    BY <1>7, <1>8 DEF TagsOutside, Around
  <2>2. Fills(g, {l}, l, r)
    BY <1>2, <1>4, <1>5 DEF Fills
  <2>3. Typed(g) /\ g.brk = h.brk /\ Tiled(h, B) /\ l \in B /\ r \in B \cup {h.brk} /\ l < r /\ l # heap_listp
    BY <1>5
  <2> DEFINE N == {l}
  <2>4. Fills(g, N, l, r)
    BY <2>2
  <2> HIDE DEF N
  <2>5. /\ Tiled(g, Around(B, l, r) \cup N)
        /\ SameSizes(h, g, Around(B, l, r))
    BY <2>1, <2>3, <2>4, Replaced
  <2> QED BY <2>5 DEF N, SameSizes
<1>10. Kept(h, g, C)
  <2> HIDE DEF C
  <2> QED BY <1>7, <1>9 DEF Kept
<1>11. l \notin C
  BY <1>2 DEF Around
<1>12. Alike(h, g, C) /\ Unchanged(h, g, {l - 1, r - 2})
  <2> HIDE DEF C
  <2> QED BY <1>4, <1>5, <1>7, <1>9 DEF Alike, Unchanged
<1>13. Retag(h, g, B, l, r, size, alloc)
  BY <1>4, <1>5, <1>9, <1>10, <1>11, <1>12 DEF Retag
<1> QED BY <1>13 DEF g

(* Free blocks are not the prologue. *)
LEMMA FreeAre ==
  ASSUME NEW h, NEW B, Tiled(h, B), NEW F, F \subseteq FreeIn(h, B)
  PROVE  F \subseteq B \ {heap_listp} /\ \A b \in F : Size(h, b) \in Nat /\ Size(h, b) >= 4 /\ b \in Nat
<1>1. \A b \in F : b \in B /\ b # heap_listp
  BY DEF FreeIn, Tiled
<1>2. \A b \in F : Size(h, b) \in Int /\ Size(h, b) >= 4 /\ b \in Nat
  BY <1>1, Bounds DEF Tiled
<1> QED BY <1>1, <1>2

(* deleteExplicit leaves the blocks as they are. *)
LEMMA Taken ==
  ASSUME Kind3, NEW h, NEW B, Tiled(h, B), NEW F, F \subseteq FreeIn(h, B), Listed(h, F), NEW b \in F
  PROVE  LET g == deleteExplicit(h, b) IN
           Same(h, g, B) /\ Listed(g, F \ {b}) /\ g.next_p = h.next_p /\ g.bp = h.bp
<1> DEFINE g == deleteExplicit(h, b)
<1>0. Typed(h) /\ kind \in {"nextfit", "explicit", "segregate"}
  BY DEF Tiled, Kind3
<1>1. Separate(F)
  <2>1. F \subseteq B \ {heap_listp}
    BY FreeAre
  <2> QED BY <2>1, Spread
<1>2. /\ Typed(g) /\ Listed(g, F \ {b}) /\ g.brk = h.brk /\ g.next_p = h.next_p /\ g.bp = h.bp
      /\ Unchanged(h, g, Links(F))
  BY <1>0, <1>1, Deleted
<1> HIDE DEF g
<1>3. Same(h, g, B)
  BY <1>2, OnlyLinks
<1> QED BY <1>2, <1>3 DEF g

(* insert leaves the blocks as they are. *)
LEMMA Entered ==
  ASSUME Kind3, NEW h, NEW B, Tiled(h, B), NEW F, F \subseteq FreeIn(h, B), Listed(h, F),
         NEW b \in FreeIn(h, B), b \notin F
  PROVE  LET g == insert(h, b) IN
           Same(h, g, B) /\ Listed(g, F \cup {b}) /\ g.next_p = h.next_p /\ g.bp = h.bp
<1> DEFINE g == insert(h, b)
<1>0. PICK G : G = F \cup {b}
  OBVIOUS
<1>1. Separate(G) /\ Typed(h) /\ Size(h, b) \in Nat /\ Size(h, b) >= 1 /\ G \subseteq FreeIn(h, B)
  <2>1. G \subseteq FreeIn(h, B)
    BY <1>0
  <2>2. G \subseteq B \ {heap_listp} /\ \A c \in G : Size(h, c) \in Nat /\ Size(h, c) >= 4 /\ c \in Nat
    BY <2>1, FreeAre
  <2>3. Separate(G)
    BY <2>2, Spread
  <2>4. Typed(h)
    BY DEF Tiled
  <2>5. b \in G
    BY <1>0
  <2>6. Size(h, b) \in Nat /\ Size(h, b) >= 1
    BY <2>2, <2>5
  <2> QED BY <2>1, <2>3, <2>4, <2>6
<1>2. /\ Typed(g) /\ Listed(g, G) /\ g.brk = h.brk /\ g.next_p = h.next_p /\ g.bp = h.bp
      /\ Unchanged(h, g, Links(G))
  <2>1. kind \in {"nextfit", "explicit", "segregate"}
    BY DEF Kind3
  <2>2. Separate(F \cup {b}) /\ Typed(h) /\ Size(h, b) \in Nat /\ Size(h, b) >= 1
    BY <1>0, <1>1
  <2>3. LET k == insert(h, b) IN
        /\ Typed(k) /\ Listed(k, F \cup {b}) /\ k.brk = h.brk /\ k.next_p = h.next_p /\ k.bp = h.bp
        /\ Unchanged(h, k, Links(F \cup {b}))
    <3> HIDE <1>0
    <3> QED BY <2>1, <2>2, Inserted
  <2> QED BY <2>3, <1>0
<1> HIDE DEF g
<1>3. Same(h, g, B)
  BY <1>1, <1>2, OnlyLinks
<1> QED BY <1>0, <1>2, <1>3 DEF g

(* One tag for the blocks from l to r, none of which is in a list. *)
LEMMA Tagged ==
  ASSUME Kind3, NEW h, NEW B, Tiled(h, B), NEW l \in B, l # heap_listp, NEW r \in B \cup {h.brk}, l < r,
         NEW size \in Int, size = r - l, size % 2 = 0, NEW alloc \in {0, 1},
         NEW E, E \subseteq FreeIn(h, B), E \subseteq Around(B, l, r), Listed(h, E)
  PROVE  Listed(Tag(h, l, size, alloc), E)
<1> DEFINE C == Around(B, l, r)
<1>1. PICK g : g = Tag(h, l, size, alloc)
  OBVIOUS
<1>2. Unchanged(h, g, {l - 1, r - 2}) /\ Alike(h, g, C)
  BY <1>1, Retagged DEF Retag
<1>3. E \subseteq B \ {heap_listp}
  BY FreeAre
<1>4. Links(E) \subseteq Addr
  BY <1>3, LinksInside
<1>5. l - 1 \notin Links(E)
  BY <1>3, TagWords
<1>6. r - 2 \notin Links(E)
  <2>1. l \in Nat /\ l >= 2 /\ h.brk \in Nat /\ \A b \in B : b \in Nat
    BY Bounds
  <2>2. r # heap_listp
    BY <2>1 DEF heap_listp
  <2>3. PICK d \in B : d + Size(h, d) = r
    BY <2>2 DEF Tiled
  <2>4. d + Size(h, d) - 2 \notin Links(E)
    BY <1>3, TagWords
  <2>5. d \in Nat /\ Size(h, d) \in Int
    BY Bounds
  <2>6. d + Size(h, d) - 2 = r - 2
    BY <2>3, <2>5
  <2> QED BY <2>4, <2>6
<1>7. \A x \in Links(E) : g.mem[x] = h.mem[x]
  BY <1>2, <1>4, <1>5, <1>6 DEF Unchanged
<1>8. \A b \in E : g.mem[b - 1] = h.mem[b - 1]
  BY <1>2 DEF Alike
<1>9. kind # "buddy"
  BY DEF Kind3
<1>10. Listed(g, E)
  BY <1>7, <1>8, <1>9, SameLinks
<1> QED BY <1>1, <1>10

-----------------------------------------------------------------------------
(* What an operation leaves: no two free blocks side by side, all of them *)
(* in the lists, and nextfit's search at a block.                         *)
Clean(h, B) ==
  /\ Tiled(h, B) /\ Listed(h, FreeIn(h, B))
  /\ \A b \in FreeIn(h, B) : b + Size(h, b) \notin FreeIn(h, B)
  /\ kind = "nextfit" => h.next_p \in B

(* coalesce makes g of h, of which l to r - 1 is now one free block. *)
Merged(h, B, l, size, g, C) ==
  /\ Clean(g, C) /\ g.bp = l /\ l \in FreeIn(g, C) /\ Size(g, l) = size
  /\ UsedIn(g, C) = UsedIn(h, B) /\ Kept(h, g, UsedIn(h, B)) /\ g.brk = h.brk

(* SearchFrom changes nothing but next_p. *)
LEMMA SearchIs ==
  ASSUME NEW h, Typed(h), NEW b \in Nat, NEW moved \in BOOLEAN
  PROVE  LET g == SearchFrom(h, b, moved) IN
           /\ Typed(g) /\ g.mem = h.mem /\ g.brk = h.brk
           /\ kind = "nextfit" => g.next_p = IF moved THEN b ELSE h.next_p
BY DEF SearchFrom, Typed

(* The result of an operation is no part of the heap. *)
LEMMA ResultIs ==
  ASSUME NEW h, Typed(h), NEW b \in Nat
  PROVE  LET g == [h EXCEPT !.bp = b] IN
           Typed(g) /\ g.mem = h.mem /\ g.brk = h.brk /\ g.next_p = h.next_p /\ g.bp = b
BY DEF Typed

(* Every block from l to r is free. *)
FreeBetween(h, B, l, r) == \A b \in B : b \in Around(B, l, r) \/ b \in FreeIn(h, B)

(* The free blocks when those from l to r have become one. *)
LEMMA JoinedSets ==
  ASSUME NEW h, NEW B, Tiled(h, B), NEW l \in FreeIn(h, B), NEW r, l < r,
         FreeBetween(h, B, l, r),
         NEW g, Alike(h, g, Around(B, l, r)), Alloc(g, l) = 0, NEW C, C = Around(B, l, r) \cup {l}
  PROVE  /\ FreeIn(g, C) = (FreeIn(h, B) \cap Around(B, l, r)) \cup {l}
         /\ UsedIn(g, C) = UsedIn(h, B) /\ UsedIn(h, B) \subseteq Around(B, l, r)
<1>1. \A b \in Around(B, l, r) : b \in B /\ Alloc(g, b) = Alloc(h, b)
  BY DEF Alike, Around
<1>2. \A b \in UsedIn(h, B) : b \in B /\ b \notin FreeIn(h, B)
  BY DEF UsedIn, FreeIn
<1>3. UsedIn(h, B) \subseteq Around(B, l, r)
  BY <1>2 DEF FreeBetween, UsedIn
<1>4. FreeIn(g, C) = (FreeIn(h, B) \cap Around(B, l, r)) \cup {l}
  BY <1>1 DEF FreeIn
<1>5. UsedIn(g, C) = UsedIn(h, B)
  BY <1>1, <1>3 DEF UsedIn
<1> QED BY <1>3, <1>4, <1>5

(* coalesce ends: the free blocks from l to r become one, in the lists. *)
LEMMA Joined ==
  ASSUME Kind3, NEW h, NEW B, Tiled(h, B), NEW l \in FreeIn(h, B), NEW r \in B \cup {h.brk}, l < r,
         NEW size \in Int, size = r - l, size % 2 = 0,
         FreeBetween(h, B, l, r),
         NEW E, E = FreeIn(h, B) \cap Around(B, l, r), Listed(h, E), r \notin E,
         \A b \in E : b + Size(h, b) \notin E \cup {l},
         NEW moved \in BOOLEAN, kind = "nextfit" => moved \/ h.next_p \in Around(B, l, r) \cup {l}
  PROVE  \E C : Merged(h, B, l, size, [insert(SearchFrom(Tag(h, l, size, 0), l, moved), l) EXCEPT !.bp = l], C)
<1>1. PICK C : C = Around(B, l, r) \cup {l}
  OBVIOUS
<1>2. PICK m : m = Tag(h, l, size, 0)
  OBVIOUS
<1>3. l \in B /\ l # heap_listp /\ l \in Nat /\ h.brk \in Nat /\ r \in Nat
  <2>1. l \in B /\ l # heap_listp /\ l \in Nat
    BY FreeAre
  <2> QED BY <2>1, Bounds
<1>4. /\ Typed(m) /\ m.brk = h.brk /\ m.next_p = h.next_p
      /\ Tiled(m, C) /\ Size(m, l) = size /\ Alloc(m, l) = 0
      /\ Alike(h, m, Around(B, l, r)) /\ Kept(h, m, Around(B, l, r)) /\ l \notin Around(B, l, r)
  <2>1. Retag(h, m, B, l, r, size, 0)
    BY <1>2, <1>3, Retagged
  <2> QED BY <1>1, <2>1 DEF Retag
<1>5. FreeIn(m, C) = E \cup {l} /\ UsedIn(m, C) = UsedIn(h, B) /\ UsedIn(h, B) \subseteq Around(B, l, r)
  BY <1>1, <1>4, JoinedSets
<1>6. Kept(h, m, UsedIn(h, B))
  BY <1>4, <1>5, KeptLess
<1>7. E \subseteq FreeIn(h, B) /\ E \subseteq Around(B, l, r) /\ l \notin E
  BY <1>4
<1>8. Listed(m, E)
  <2>1. Listed(Tag(h, l, size, 0), E)
    BY <1>3, <1>7, Tagged
  <2> QED BY <2>1, <1>2
<1>9. PICK s : s = SearchFrom(m, l, moved)
  OBVIOUS
<1>10. /\ Typed(s) /\ s.mem = m.mem /\ s.brk = m.brk
       /\ kind = "nextfit" => s.next_p = IF moved THEN l ELSE m.next_p
  BY <1>3, <1>4, <1>9, SearchIs
<1>11. Same(m, s, C) /\ Listed(s, E)
  BY <1>4, <1>8, <1>10, SameMemory, SameLists
<1>12. Tiled(s, C) /\ FreeIn(s, C) = E \cup {l}
  BY <1>5, <1>11 DEF Same
<1>13. PICK k : k = insert(s, l)
  OBVIOUS
<1>14. Same(s, k, C) /\ Listed(k, E \cup {l}) /\ k.next_p = s.next_p
  BY <1>7, <1>11, <1>12, <1>13, Entered
<1>15. PICK g : g = [k EXCEPT !.bp = l]
  OBVIOUS
<1>16. Tiled(k, C) /\ Typed(k)
  BY <1>14 DEF Same, Tiled
<1>17. Typed(g) /\ g.mem = k.mem /\ g.brk = k.brk /\ g.next_p = k.next_p /\ g.bp = l
  BY <1>3, <1>15, <1>16, ResultIs
<1>18. Same(k, g, C) /\ Listed(g, E \cup {l})
  BY <1>14, <1>16, <1>17, SameMemory, SameLists
<1>19. Same(m, g, C)
  BY <1>11, <1>14, <1>18, SameTrans
<1>20. Tiled(g, C) /\ FreeIn(g, C) = E \cup {l} /\ UsedIn(g, C) = UsedIn(h, B) /\ Size(g, l) = size /\ g.brk = h.brk
  BY <1>1, <1>4, <1>5, <1>19 DEF Same
<1>21. Kept(h, g, UsedIn(h, B))
  <2>1. Kept(m, g, UsedIn(h, B))
    BY <1>5, <1>19 DEF Same
  <2> QED BY <2>1, <1>6, KeptTrans
<1>22. ASSUME NEW b \in E \cup {l} PROVE b + Size(g, b) \notin E \cup {l}
  <2>1. CASE b \in E
    <3>1. b \in C /\ b \in Around(B, l, r)
      BY <2>1, <1>1, <1>7
    <3>2. Size(g, b) = Size(m, b)
      BY <3>1, <1>19 DEF Same
    <3>3. Size(m, b) = Size(h, b)
      BY <3>1, <1>4 DEF Alike
    <3> QED BY <2>1, <3>2, <3>3
  <2>2. CASE b = l
    BY <2>2, <1>3, <1>20
  <2> QED BY <2>1, <2>2
<1>23. kind = "nextfit" => g.next_p \in C
  BY <1>1, <1>4, <1>10, <1>14, <1>17
<1>24. Clean(g, C)
  BY <1>18, <1>20, <1>22, <1>23 DEF Clean
<1>25. Merged(h, B, l, size, g, C)
  BY <1>17, <1>20, <1>21, <1>24 DEF Merged
<1> QED BY <1>2, <1>9, <1>13, <1>15, <1>25

(* What coalesce is given: a free block that is in no list yet. *)
Merging(h, B, bp) ==
  /\ Tiled(h, B) /\ bp \in FreeIn(h, B) /\ Listed(h, FreeIn(h, B) \ {bp})
  /\ \A b \in FreeIn(h, B) \ {bp} : b + Size(h, b) \notin FreeIn(h, B) \ {bp}
  /\ kind = "nextfit" => h.next_p \in B

(* What coalesce makes of it. *)
Coalescing(h, B, bp, g, C) ==
  /\ Clean(g, C) /\ g.bp \in FreeIn(g, C) /\ Size(g, g.bp) >= Size(h, bp)
  /\ UsedIn(g, C) = UsedIn(h, B) /\ Kept(h, g, UsedIn(h, B)) /\ g.brk = h.brk

(* The block before, through its footer. *)
LEMMA PrevIs ==
  ASSUME NEW h, NEW B, Tiled(h, B), NEW b \in B, b # heap_listp
  PROVE  \E p \in B : /\ p + Size(h, p) = b /\ PREV_BLKP(h, b) = p /\ p < b
                      /\ GET_ALLOC(h, FTRP(h, p)) = Alloc(h, p)
<1>1. PICK p \in B : p + Size(h, p) = b
  BY DEF Tiled
<1>2. p \in Nat /\ Size(h, p) \in Int /\ Size(h, p) >= 2 /\ b \in Nat
  BY Bounds
<1>3. h.mem[p + Size(h, p) - 2] = h.mem[p - 1]
  BY DEF Tiled
<1>4. p + Size(h, p) - 2 = b - 2 /\ b - Size(h, p) = p
  BY <1>1, <1>2
<1>5. h.mem[b - 2] = h.mem[p - 1]
  BY <1>3, <1>4
<1>6. GET_SIZE(h, b - 2) = Size(h, p)
  BY <1>5 DEF GET_SIZE, Size, HDRP
<1>7. GET_ALLOC(h, b - 2) = Alloc(h, p)
  BY <1>5 DEF GET_ALLOC, Alloc, HDRP
<1>8. FTRP(h, p) = b - 2
  BY <1>4 DEF FTRP, Size
<1>9. PREV_BLKP(h, b) = p
  BY <1>4, <1>6 DEF PREV_BLKP
<1> QED BY <1>1, <1>2, <1>7, <1>8, <1>9

(* The block after, or the epilogue. *)
LEMMA NextIs ==
  ASSUME NEW h, NEW B, Tiled(h, B), NEW b \in B
  PROVE  LET c == NEXT_BLKP(h, b) IN
           /\ c = b + Size(h, b) /\ c \in B \cup {h.brk} /\ c \in Nat /\ b < c
           /\ GET_ALLOC(h, HDRP(c)) = Alloc(h, c) /\ GET_SIZE(h, HDRP(c)) = Size(h, c)
           /\ (Alloc(h, c) = 0 <=> c \in FreeIn(h, B))
<1>1. PICK c : c = b + Size(h, b)
  OBVIOUS
<1>2. c \in B \cup {h.brk}
  BY <1>1 DEF Tiled
<1>3. b \in Nat /\ Size(h, b) \in Int /\ Size(h, b) >= 2 /\ b # h.brk /\ h.brk \notin B
  BY Bounds
<1>4. c = h.brk => Alloc(h, c) = 1
  <2>1. h.mem[h.brk - 1] = PACK(0, 1)
    BY DEF Tiled
  <2> QED BY <2>1, TagParts DEF Alloc, HDRP
<1>5. Alloc(h, c) = 0 <=> c \in FreeIn(h, B)
  BY <1>2, <1>3, <1>4 DEF FreeIn
<1>6. NEXT_BLKP(h, b) = c
  BY <1>1 DEF NEXT_BLKP, Size
<1> QED BY <1>1, <1>2, <1>3, <1>5, <1>6 DEF Alloc, Size

(* coalesce leaves a clean heap, whichever neighbours are free. *)
LEMMA Coalesces ==
  ASSUME Kind3, NEW h, NEW B, NEW bp, Merging(h, B, bp)
  PROVE  \E C : Coalescing(h, B, bp, coalesce_neighbours(h, bp), C)
<1>0. Tiled(h, B) /\ bp \in B /\ bp # heap_listp /\ bp \in FreeIn(h, B) /\ Listed(h, FreeIn(h, B) \ {bp})
  <2>1. Tiled(h, B) /\ bp \in FreeIn(h, B) /\ Listed(h, FreeIn(h, B) \ {bp})
    BY DEF Merging
  <2> QED BY <2>1, FreeAre
<1>1. PICK F : F = FreeIn(h, B)
  OBVIOUS
<1>2. PICK p \in B : /\ p + Size(h, p) = bp /\ PREV_BLKP(h, bp) = p /\ p < bp
                     /\ GET_ALLOC(h, FTRP(h, p)) = Alloc(h, p)
  BY <1>0, PrevIs
<1>3. PICK c : c = NEXT_BLKP(h, bp)
  OBVIOUS
<1>4. /\ c = bp + Size(h, bp) /\ c \in B \cup {h.brk} /\ c \in Nat /\ bp < c
      /\ GET_ALLOC(h, HDRP(c)) = Alloc(h, c) /\ GET_SIZE(h, HDRP(c)) = Size(h, c)
      /\ (Alloc(h, c) = 0 <=> c \in F)
  BY <1>0, <1>1, <1>3, NextIs
<1>5. /\ p \in Nat /\ bp \in Nat /\ Size(h, p) \in Int /\ Size(h, bp) \in Int
      /\ Size(h, p) % 2 = 0 /\ Size(h, bp) % 2 = 0 /\ Size(h, p) >= 2 /\ Size(h, bp) >= 2
  BY <1>0, Bounds
<1>6. F \subseteq B /\ \A b \in F : Size(h, b) \in Int /\ Size(h, b) >= 4 /\ b \in Nat /\ Size(h, b) % 2 = 0
                                    /\ b + Size(h, b) \in B \cup {h.brk} /\ b # heap_listp
  <2>1. F \subseteq B \ {heap_listp} /\ \A b \in F : Size(h, b) \in Nat /\ Size(h, b) >= 4 /\ b \in Nat
    BY <1>0, <1>1, FreeAre
  <2>2. \A b \in F : Size(h, b) % 2 = 0
    BY <2>1, <1>0, Bounds
  <2>3. \A b \in F : b + Size(h, b) \in B \cup {h.brk}
    BY <2>1, <1>0 DEF Tiled
  <2> QED BY <2>1, <2>2, <2>3
<1>7. p \in F <=> Alloc(h, p) = 0
  BY <1>1 DEF FreeIn
<1> DEFINE takePrev == Alloc(h, p) = 0  takeNext == Alloc(h, c) = 0
           left == IF takePrev THEN p ELSE bp
           right == IF takeNext THEN c + Size(h, c) ELSE c
           size == right - left
<1>8. PICK h1 : h1 = IF takePrev THEN deleteExplicit(h, p) ELSE h
  OBVIOUS
<1>9. PICK h2 : h2 = IF takeNext THEN deleteExplicit(h1, c) ELSE h1
  OBVIOUS
<1>10. coalesce_neighbours(h, bp)
         = [insert(SearchFrom(Tag(h2, left, size, 0), left, takePrev \/ takeNext), left) EXCEPT !.bp = left]
  <2> DEFINE sum == GET_SIZE(h, HDRP(bp)) + (IF takePrev THEN GET_SIZE(h, HDRP(p)) ELSE 0)
                                    + (IF takeNext THEN GET_SIZE(h, HDRP(c)) ELSE 0)
  <2>1. sum = size
    <3>1. GET_SIZE(h, HDRP(bp)) = Size(h, bp) /\ GET_SIZE(h, HDRP(p)) = Size(h, p) /\ GET_SIZE(h, HDRP(c)) = Size(h, c)
      BY <1>4 DEF Size
    <3>2. takeNext => Size(h, c) \in Int
      BY <1>4, <1>6
    <3> QED BY <3>1, <3>2, <1>2, <1>4, <1>5
  <2>2. coalesce_neighbours(h, bp)
          = [insert(SearchFrom(Tag(h2, left, sum, 0), left, takePrev \/ takeNext), left) EXCEPT !.bp = left]
    <3>1. PREV_BLKP(h, bp) = p /\ NEXT_BLKP(h, bp) = c /\ GET_ALLOC(h, FTRP(h, p)) = Alloc(h, p)
          /\ GET_ALLOC(h, HDRP(c)) = Alloc(h, c)
      BY <1>2, <1>3, <1>4
    <3> QED BY <3>1, <1>8, <1>9 DEF coalesce_neighbours
  <2> QED BY <2>1, <2>2
<1>11. Same(h, h1, B) /\ Listed(h1, F \ {p, bp}) /\ h1.next_p = h.next_p
  <2>1. CASE takePrev
    <3>1. PICK G : G = F \ {bp}
      OBVIOUS
    <3>2. p \in G /\ G \subseteq FreeIn(h, B) /\ Listed(h, G)
      BY <2>1, <3>1, <1>0, <1>1, <1>2, <1>5, <1>7
    <3>3. h1 = deleteExplicit(h, p)
      BY <2>1, <1>8
    <3>4. Same(h, h1, B) /\ Listed(h1, G \ {p}) /\ h1.next_p = h.next_p
      BY <3>2, <3>3, <1>0, Taken
    <3>5. G \ {p} = F \ {p, bp}
      BY <3>1
    <3> QED BY <3>4, <3>5
  <2>2. CASE ~takePrev
    <3>1. h1 = h /\ F \ {bp} = F \ {p, bp}
      BY <2>2, <1>7, <1>8
    <3>2. Typed(h)
      BY <1>0 DEF Tiled
    <3>3. Same(h, h, B)
      BY <3>2, <1>0, SameMemory
    <3> QED BY <3>1, <3>3, <1>0, <1>1
  <2> QED BY <2>1, <2>2
<1>12. Tiled(h1, B) /\ FreeIn(h1, B) = F
  BY <1>1, <1>11 DEF Same
<1>13. Same(h, h2, B) /\ Listed(h2, F \ {p, bp, c}) /\ h2.next_p = h.next_p
  <2>1. CASE takeNext
    <3>1. PICK G : G = F \ {p, bp}
      OBVIOUS
    <3>2. c \in G /\ G \subseteq FreeIn(h1, B) /\ Listed(h1, G)
      BY <2>1, <3>1, <1>2, <1>4, <1>5, <1>11, <1>12
    <3>3. h2 = deleteExplicit(h1, c)
      BY <2>1, <1>9
    <3>4. Same(h1, h2, B) /\ Listed(h2, G \ {c}) /\ h2.next_p = h1.next_p
      BY <3>2, <3>3, <1>12, Taken
    <3>5. G \ {c} = F \ {p, bp, c}
      BY <3>1
    <3> QED BY <3>4, <3>5, <1>11, SameTrans
  <2>2. CASE ~takeNext
    <3>1. h2 = h1 /\ F \ {p, bp} = F \ {p, bp, c}
      BY <2>2, <1>4, <1>9
    <3> QED BY <3>1, <1>11
  <2> QED BY <2>1, <2>2
<1> HIDE DEF takePrev, takeNext
<1>14. /\ left \in Nat /\ right \in Nat /\ left < right /\ size \in Int /\ size % 2 = 0 /\ size >= Size(h, bp)
       /\ left \in F /\ right \in B \cup {h.brk}
       /\ p <= left /\ left <= bp /\ c <= right
  <2>1. takePrev => p \in F
    BY <1>7 DEF takePrev
  <2>2. takeNext => c \in F /\ Size(h, c) \in Int /\ Size(h, c) >= 4 /\ Size(h, c) % 2 = 0 /\ c + Size(h, c) \in B \cup {h.brk}
    BY <1>4, <1>6 DEF takeNext
  <2>3. bp \in F
    BY <1>0, <1>1
  <2> QED BY <2>1, <2>2, <2>3, <1>2, <1>4, <1>5
<1>15. \A b \in B : b \in Around(B, left, right) <=> b # bp /\ (takePrev => b # p) /\ (takeNext => b # c)
  <2> TAKE b \in B
  <2>1. b \in Nat /\ Size(h, b) \in Int /\ Size(h, b) >= 2
    BY <1>0, Bounds
  <2>2. b = bp \/ b + Size(h, b) <= bp \/ c <= b
    BY <1>0, <1>4, Disjoint
  <2>3. b = p \/ b + Size(h, b) <= p \/ bp <= b
    BY <1>0, <1>2, Disjoint
  <2>4. takeNext => c \in B /\ Size(h, c) \in Int /\ Size(h, c) >= 4
    BY <1>4, <1>6 DEF takeNext
  <2>5. takeNext => b = c \/ b + Size(h, b) <= c \/ c + Size(h, c) <= b
    BY <1>0, <2>4, Disjoint
  <2>6. b \in Around(B, left, right) <=> b < left \/ b >= right
    BY DEF Around
  <2> HIDE DEF left, right
  <2>7. (takePrev => left = p) /\ (~takePrev => left = bp) /\ (takeNext => right = c + Size(h, c)) /\ (~takeNext => right = c)
    BY DEF left, right
  <2> QED BY <2>1, <2>2, <2>3, <2>4, <2>5, <2>6, <2>7, <1>2, <1>4, <1>5
<1>16. PICK E : E = F \ {p, bp, c}
  OBVIOUS
<1>17. E = F \cap Around(B, left, right)
  <2>1. p \in F <=> takePrev
    BY <1>7 DEF takePrev
  <2>2. c \in F <=> takeNext
    BY <1>4 DEF takeNext
  <2> HIDE DEF left, right
  <2> QED BY <2>1, <2>2, <1>6, <1>15, <1>16
<1>18. FreeBetween(h2, B, left, right)
  <2>1. p \in F <=> takePrev
    BY <1>7 DEF takePrev
  <2>2. c \in F <=> takeNext
    BY <1>4 DEF takeNext
  <2>3. FreeIn(h2, B) = F /\ bp \in F
    BY <1>0, <1>1, <1>13 DEF Same
  <2> HIDE DEF left, right
  <2> QED BY <2>1, <2>2, <2>3, <1>15 DEF FreeBetween
<1>19. right \notin E
  <2>1. CASE takeNext
    <3>1. c \in F \ {bp} /\ right = c + Size(h, c)
      BY <2>1, <1>4, <1>5 DEF takeNext
    <3>2. right \notin F \ {bp}
      BY <3>1, <1>1 DEF Merging
    <3> QED BY <3>2, <1>16
  <2>2. CASE ~takeNext
    BY <2>2, <1>16
  <2> QED BY <2>1, <2>2
<1>20. ASSUME NEW b \in E PROVE b + Size(h2, b) \notin E \cup {left}
  <2>1. b \in F \ {bp} /\ b \in B /\ Size(h2, b) = Size(h, b) /\ b # p
    BY <1>6, <1>13, <1>16 DEF Same
  <2>2. b + Size(h, b) \notin F \ {bp}
    BY <2>1, <1>1 DEF Merging
  <2>3. b + Size(h, b) \notin E
    BY <2>2, <1>16
  <2>4. b + Size(h, b) # left
    <3>1. CASE takePrev
      <4>1. left = p /\ p \in F \ {bp}
        BY <3>1, <1>2, <1>5, <1>7 DEF takePrev
      <4> QED BY <4>1, <2>2
    <3>2. CASE ~takePrev
      <4>1. left = bp
        BY <3>2
      <4>2. b + Size(h, b) <= p \/ bp <= b
        BY <2>1, <1>0, <1>2, Disjoint
      <4>3. b \in Nat /\ Size(h, b) \in Int /\ Size(h, b) >= 2
        BY <2>1, <1>0, Bounds
      <4> QED BY <4>1, <4>2, <4>3, <1>2, <1>5
    <3> QED BY <3>1, <3>2
  <2> QED BY <2>1, <2>3, <2>4
<1>21. kind = "nextfit" => (takePrev \/ takeNext) \/ h2.next_p \in Around(B, left, right) \cup {left}
  <2> SUFFICES ASSUME kind = "nextfit", ~takePrev, ~takeNext
               PROVE  h2.next_p \in Around(B, left, right) \cup {left}
    OBVIOUS
  <2>1. h2.next_p \in B
    BY <1>13 DEF Merging
  <2>2. left = bp
    OBVIOUS
  <2> HIDE DEF left, right
  <2> QED BY <2>1, <2>2, <1>15
<1>22. PICK moved \in BOOLEAN : moved = (takePrev \/ takeNext)
  BY DEF takePrev, takeNext
<1> HIDE DEF left, right, size
<1>23. Tiled(h2, B) /\ FreeIn(h2, B) = F /\ h2.brk = h.brk /\ UsedIn(h2, B) = UsedIn(h, B) /\ Kept(h, h2, UsedIn(h, B))
  BY <1>1, <1>13 DEF Same
<1>24. size = right - left
  BY DEF size
<1>25. PICK C : Merged(h2, B, left, size, [insert(SearchFrom(Tag(h2, left, size, 0), left, moved), left) EXCEPT !.bp = left], C)
  BY <1>13, <1>14, <1>16, <1>17, <1>18, <1>19, <1>20, <1>21, <1>22, <1>23, <1>24, Joined
<1>26. Merged(h2, B, left, size, coalesce_neighbours(h, bp), C)
  BY <1>10, <1>22, <1>25
<1>27. Coalescing(h, B, bp, coalesce_neighbours(h, bp), C)
  <2> DEFINE g == coalesce_neighbours(h, bp)
  <2>1. /\ Clean(g, C) /\ g.bp = left /\ left \in FreeIn(g, C) /\ Size(g, left) = size
        /\ UsedIn(g, C) = UsedIn(h, B) /\ Kept(h2, g, UsedIn(h, B)) /\ g.brk = h.brk
    BY <1>23, <1>26 DEF Merged
  <2> HIDE DEF g
  <2>2. Kept(h, g, UsedIn(h, B))
    BY <2>1, <1>23, KeptTrans
  <2> QED BY <2>1, <2>2, <1>14 DEF Coalescing, g
<1> QED BY <1>27

(* What mem_sbrk and coalesce make of a heap that has room. *)
Extending(h, B, words, g, C) ==
  /\ Clean(g, C) /\ g.bp \in FreeIn(g, C) /\ Size(g, g.bp) >= words
  /\ UsedIn(g, C) = UsedIn(h, B) /\ Kept(h, g, UsedIn(h, B)) /\ g.brk = h.brk + words

(* extend_heap leaves a clean heap with a free block of the size asked for. *)
LEMMA Extends ==
  ASSUME Kind3, NEW h, NEW B, Clean(h, B), NEW words \in Nat, words % 2 = 0, words >= 4,
         h.brk + words <= MaxBrk
  PROVE  \E C : Extending(h, B, words, extend_heap(h, words), C)
<1>0. Tiled(h, B) /\ Typed(h) /\ Listed(h, FreeIn(h, B))
  BY DEF Clean, Tiled
<1>1. PICK bp : bp = h.brk
  OBVIOUS
<1>2. /\ bp \in Nat /\ bp >= 3 /\ bp \notin B /\ h.brk \in Nat /\ MaxBrk \in Nat
      /\ \A b \in B : /\ b \in Nat /\ b >= 2 /\ Size(h, b) \in Int /\ Size(h, b) >= 2 /\ b + Size(h, b) <= bp /\ b < bp
                      /\ b - 1 \in Addr /\ b + Size(h, b) - 2 \in Addr /\ h.mem[b + Size(h, b) - 2] \in Int
  <2>1. heap_listp \in B /\ heap_listp = 2 /\ MaxBrk \in Nat
    BY <1>0, HeapAssumption DEF Tiled, heap_listp
  <2>2. \A b \in B : /\ b \in Nat /\ b >= 2 /\ Size(h, b) \in Int /\ Size(h, b) >= 2 /\ b + Size(h, b) <= bp /\ b < bp
                     /\ b - 1 \in Addr /\ b + Size(h, b) - 2 \in Addr /\ h.brk \in Nat
    BY <1>0, <1>1, Bounds
  <2>3. h.mem \in [Addr -> Int]
    BY <1>0 DEF Typed
  <2>4. bp \in Nat /\ bp >= 3 /\ bp \notin B
    BY <2>1, <2>2, <1>1
  <2>5. \A b \in B : h.mem[b + Size(h, b) - 2] \in Int
    BY <2>2, <2>3
  <2> QED BY <2>1, <2>2, <2>4, <2>5, <1>1
<1>3. PICK w : w = [h EXCEPT !.brk = bp + words]
  OBVIOUS
<1>4. Typed(w) /\ w.brk = bp + words /\ w.mem = h.mem /\ w.next_p = h.next_p
  <2>1. bp + words \in 0 .. MaxBrk
    BY <1>1, <1>2
  <2> QED BY <2>1, <1>0, <1>3 DEF Typed
<1>5. PICK m : m = Tag(w, bp, words, 0)
  OBVIOUS
<1>6. /\ Typed(m) /\ m.brk = bp + words /\ m.next_p = h.next_p
      /\ m.mem[bp - 1] = PACK(words, 0) /\ m.mem[bp + words - 2] = PACK(words, 0)
      /\ \A x \in Addr \ {bp - 1, bp + words - 2} : m.mem[x] = h.mem[x]
  <2>1. bp >= 1 /\ words >= 2 /\ bp + words - 2 < MaxBrk /\ words \in Int /\ 0 \in {0, 1}
    BY <1>1, <1>2
  <2>2. TagWritten(w, m, bp, words, 0)
    BY <2>1, <1>2, <1>4, <1>5, TagWrites
  <2> QED BY <2>2, <1>4 DEF TagWritten, Unchanged
<1>7. PICK g : g = [m EXCEPT !.mem[bp + words - 1] = PACK(0, 1)]
  OBVIOUS
<1>8. /\ Typed(g) /\ g.brk = bp + words /\ g.next_p = h.next_p /\ g.mem[bp + words - 1] = PACK(0, 1)
      /\ \A y \in Addr \ {bp + words - 1} : g.mem[y] = m.mem[y]
  <2>1. bp + words - 1 \in Addr /\ PACK(0, 1) \in Int
    BY <1>1, <1>2 DEF Addr, PACK
  <2>2. PICK x : x = bp + words - 1
    OBVIOUS
  <2>3. /\ Typed(g) /\ g.brk = m.brk /\ g.next_p = m.next_p /\ g.mem[x] = PACK(0, 1)
        /\ \A y \in Addr \ {x} : g.mem[y] = m.mem[y]
    BY <2>1, <2>2, <1>6, <1>7, WordWritten
  <2> QED BY <2>2, <2>3, <1>6
<1>9. /\ \A x \in Addr : x < bp - 1 => g.mem[x] = h.mem[x]
      /\ g.mem[bp - 1] = PACK(words, 0) /\ g.mem[bp + words - 2] = g.mem[bp - 1]
  <2>1. \A x \in Addr : x \in Int
    BY DEF Addr
  <2>2. bp - 1 \in Addr /\ bp + words - 2 \in Addr
    BY <1>1, <1>2 DEF Addr
  <2>3. bp - 1 # bp + words - 1 /\ bp + words - 2 # bp + words - 1
    BY <1>2
  <2>4. \A x \in Addr : x < bp - 1 => x \notin {bp - 1, bp + words - 2} /\ x # bp + words - 1
    BY <2>1, <1>2
  <2> QED BY <2>2, <2>3, <2>4, <1>6, <1>8
<1>10. Size(g, bp) = words /\ Alloc(g, bp) = 0
  BY <1>9, TagParts DEF Size, Alloc, HDRP
<1>11. \A b \in B : g.mem[b - 1] = h.mem[b - 1] /\ g.mem[b + Size(h, b) - 2] = h.mem[b + Size(h, b) - 2]
  <2> TAKE b \in B
  <2>1. b - 1 < bp - 1 /\ b + Size(h, b) - 2 < bp - 1 /\ b - 1 \in Addr /\ b + Size(h, b) - 2 \in Addr
    BY <1>2
  <2> QED BY <2>1, <1>9
<1>12. PICK D : D = B \cup {bp}
  OBVIOUS
<1>13. Tiled(g, D) /\ \A b \in B : Size(g, b) = Size(h, b) /\ Alloc(g, b) = Alloc(h, b)
  <2>1. words \in Int /\ Size(g, h.brk) = words /\ g.brk = h.brk + words /\ g.mem[h.brk + words - 2] = g.mem[h.brk - 1]
        /\ g.mem[h.brk + words - 1] = PACK(0, 1)
    BY <1>1, <1>8, <1>9, <1>10
  <2>2. /\ Tiled(g, B \cup {h.brk})
        /\ \A b \in B : Size(g, b) = Size(h, b) /\ Alloc(g, b) = Alloc(h, b)
    BY <2>1, <1>0, <1>8, <1>11, Extended
  <2> QED BY <2>2, <1>1, <1>12
<1>14. PICK F : F = FreeIn(h, B)
  OBVIOUS
<1>15. /\ FreeIn(g, D) = F \cup {bp} /\ FreeIn(g, D) \ {bp} = F /\ bp \in FreeIn(g, D)
       /\ UsedIn(g, D) = UsedIn(h, B) /\ bp \notin F /\ F \subseteq B
  <2>1. bp # heap_listp
    BY <1>2 DEF heap_listp
  <2>2. bp \notin F /\ F \subseteq B
    BY <1>2, <1>14 DEF FreeIn
  <2>3. FreeIn(g, D) = F \cup {bp}
    BY <1>10, <1>12, <1>13, <1>14 DEF FreeIn
  <2>4. UsedIn(g, D) = UsedIn(h, B)
    BY <1>10, <1>12, <1>13 DEF UsedIn
  <2> QED BY <2>2, <2>3, <2>4
<1>16. Listed(g, F)
  <2>1. F \subseteq B \ {heap_listp}
    BY <1>0, <1>14, FreeAre
  <2>2. ASSUME NEW x \in Links(F) PROVE g.mem[x] = h.mem[x]
    <3>1. PICK c \in F \cup {heap_listp} : c <= x /\ x <= c + Size(h, c) - 3 /\ x \in Int
      BY <2>1, <1>0, LinkSpan
    <3>2. c \in B
      BY <2>1, <1>0 DEF Tiled
    <3>3. x < bp - 1
      BY <3>1, <3>2, <1>2
    <3>4. x \in Addr
      BY <2>1, <1>0, LinksInside
    <3> QED BY <3>3, <3>4, <1>9
  <2>3. \A b \in F : g.mem[b - 1] = h.mem[b - 1]
    BY <1>11, <1>15
  <2>4. kind # "buddy"
    BY DEF Kind3
  <2> QED BY <2>2, <2>3, <2>4, <1>0, <1>14, SameLinks
<1>17. Kept(h, g, UsedIn(h, B))
  <2>1. ASSUME NEW b \in UsedIn(h, B), NEW x \in b .. b + Size(h, b) - 3 PROVE g.mem[x] = h.mem[x]
    <3>1. b \in B
      BY DEF UsedIn
    <3>2. x < bp - 1 /\ x \in Addr
      BY <3>1, <1>1, <1>2 DEF Addr
    <3> QED BY <3>2, <1>9
  <2>2. \A b \in UsedIn(h, B) : Size(g, b) = Size(h, b)
    BY <1>13 DEF UsedIn
  <2> QED BY <2>1, <2>2 DEF Kept
<1>18. Merging(g, D, bp)
  <2>1. \A b \in F : b + Size(g, b) \notin F
    BY <1>13, <1>14, <1>15 DEF Clean
  <2>2. kind = "nextfit" => g.next_p \in D
    BY <1>8, <1>12 DEF Clean
  <2> QED BY <2>1, <2>2, <1>13, <1>15, <1>16 DEF Merging
<1>19. extend_heap(h, words) = coalesce_neighbours(g, bp)
  <2>1. kind # "buddy"
    BY DEF Kind3
  <2>2. ~(bp + words > MaxBrk)
    BY <1>1, <1>2
  <2> QED BY <2>1, <2>2, <1>1, <1>3, <1>5, <1>7 DEF extend_heap, coalesce
<1>20. PICK C : Coalescing(g, D, bp, coalesce_neighbours(g, bp), C)
  BY <1>18, Coalesces
<1>21. PICK k : k = coalesce_neighbours(g, bp)
  OBVIOUS
<1>22. /\ Clean(k, C) /\ k.bp \in FreeIn(k, C) /\ Size(k, k.bp) >= words
       /\ UsedIn(k, C) = UsedIn(h, B) /\ Kept(g, k, UsedIn(h, B)) /\ k.brk = h.brk + words
  BY <1>1, <1>8, <1>10, <1>15, <1>20, <1>21 DEF Coalescing
<1>23. Extending(h, B, words, k, C)
  BY <1>17, <1>22, KeptTrans DEF Extending
<1> QED BY <1>19, <1>21, <1>23

(* extend_heap leaves the heap as it is when mem_sbrk has no more. *)
LEMMA ExtendFails ==
  ASSUME Kind3, NEW h, NEW words, h.brk + words > MaxBrk
  PROVE  extend_heap(h, words) = [h EXCEPT !.bp = NULL]
<1>1. kind # "buddy"
  BY DEF Kind3
<1> QED BY <1>1 DEF extend_heap

-----------------------------------------------------------------------------
(* g is h with the block l cut in two at c, the first in use. *)
CutAt(h, g, B, l, c) ==
  /\ Typed(g) /\ g.brk = h.brk /\ g.next_p = h.next_p
  /\ Tiled(g, (B \ {l}) \cup {l, c}) /\ c \notin B /\ l < c /\ c # heap_listp
  /\ Size(g, l) = c - l /\ Alloc(g, l) = 1
  /\ Size(g, c) = Size(h, l) - (c - l) /\ Alloc(g, c) = 0
  /\ Unchanged(h, g, {l - 1, c - 2, c - 1, l + Size(h, l) - 2}) /\ Alike(h, g, B \ {l}) /\ Kept(h, g, B \ {l})

(* place's two tags cut a block in two. *)
LEMMA Cut ==
  ASSUME NEW h, NEW B, Tiled(h, B), NEW l \in B, l # heap_listp, NEW asize \in Nat, asize >= 4, asize % 2 = 0,
         NEW rest \in Nat, rest = Size(h, l) - asize, rest >= 4, NEW c, c = l + asize
  PROVE  CutAt(h, Tag(Tag(h, l, asize, 1), c, rest, 0), B, l, c)
<1>1. PICK r : r = l + Size(h, l)
  OBVIOUS
<1>2. PICK k : k = Tag(h, l, asize, 1)
  OBVIOUS
<1>3. PICK g : g = Tag(k, c, rest, 0)
  OBVIOUS
<1>4. /\ l \in Nat /\ l >= 2 /\ Size(h, l) \in Int /\ Size(h, l) % 2 = 0 /\ r <= h.brk /\ h.brk <= MaxBrk
      /\ h.brk \in Nat /\ MaxBrk \in Nat /\ r \in Nat /\ r \in B \cup {h.brk} /\ c \in Nat
      /\ l + 4 <= c /\ c + 4 <= r /\ rest % 2 = 0 /\ c + rest = r /\ l + asize = c
  <2>1. /\ l \in Nat /\ l >= 2 /\ Size(h, l) \in Int /\ Size(h, l) % 2 = 0 /\ r <= h.brk /\ h.brk <= MaxBrk
        /\ h.brk \in Nat /\ MaxBrk \in Nat
    BY <1>1, Bounds, HeapAssumption
  <2>2. r \in B \cup {h.brk}
    BY <1>1 DEF Tiled
  <2> QED BY <2>1, <2>2, <1>1
<1>5. TagWritten(h, k, l, asize, 1)
  <2>1. Typed(h)
    BY DEF Tiled
  <2>2. l >= 1 /\ asize >= 2 /\ l + asize - 2 < MaxBrk
    BY <1>4
  <2> QED BY <2>1, <2>2, <1>2, <1>4, TagWrites
<1>6. TagWritten(k, g, c, rest, 0)
  <2>1. Typed(k)
    BY <1>5 DEF TagWritten
  <2>2. c >= 1 /\ rest >= 2 /\ c + rest - 2 < MaxBrk
    BY <1>4
  <2> QED BY <2>1, <2>2, <1>3, <1>4, TagWrites
<1>7. /\ Typed(g) /\ g.brk = h.brk /\ g.next_p = h.next_p
      /\ k.mem[l - 1] = PACK(asize, 1) /\ k.mem[c - 2] = PACK(asize, 1)
      /\ Unchanged(h, k, {l - 1, c - 2})
      /\ g.mem[c - 1] = PACK(rest, 0) /\ g.mem[r - 2] = PACK(rest, 0)
      /\ Unchanged(k, g, {c - 1, r - 2})
      /\ Size(g, c) = rest /\ Alloc(g, c) = 0 /\ Size(k, l) = asize /\ Alloc(k, l) = 1
  <2>1. l + asize - 2 = c - 2 /\ c + rest - 2 = r - 2
    BY <1>4
  <2> QED BY <2>1, <1>5, <1>6 DEF TagWritten, Unchanged
<1>8. Unchanged(h, g, {l - 1, c - 2, c - 1, r - 2})
  BY <1>7 DEF Unchanged
<1>9. g.mem[l - 1] = PACK(asize, 1) /\ g.mem[c - 2] = PACK(asize, 1)
  <2>1. l - 1 \in Addr /\ c - 2 \in Addr
    BY <1>4 DEF Addr
  <2>2. l - 1 \notin {c - 1, r - 2} /\ c - 2 \notin {c - 1, r - 2}
    BY <1>4
  <2> QED BY <2>1, <2>2, <1>7 DEF Unchanged
<1>10. Size(g, l) = asize /\ Alloc(g, l) = 1
  BY <1>9, TagParts DEF Size, Alloc, HDRP
<1>11. \A b \in B \ {l} : /\ b \in Nat /\ b >= 2 /\ Size(h, b) \in Int /\ Size(h, b) >= 2 /\ b + Size(h, b) <= h.brk
                          /\ b - 1 \in Addr /\ b + Size(h, b) - 2 \in Addr
                          /\ (b + Size(h, b) <= l \/ r <= b)
  <2> TAKE b \in B \ {l}
  <2>1. b + Size(h, b) <= l \/ r <= b
    BY <1>1, Disjoint
  <2> QED BY <2>1, Bounds
<1>12. ASSUME NEW b \in B \ {l}
       PROVE  /\ g.mem[b - 1] = h.mem[b - 1] /\ g.mem[b + Size(h, b) - 2] = h.mem[b + Size(h, b) - 2]
              /\ \A x \in b .. b + Size(h, b) - 3 : g.mem[x] = h.mem[x]
  <2>1. b - 1 \in Addr /\ b + Size(h, b) - 2 \in Addr
    BY <1>11
  <2>2. b - 1 \notin {l - 1, c - 2, c - 1, r - 2}
    BY <1>4, <1>11
  <2>3. b + Size(h, b) - 2 \notin {l - 1, c - 2, c - 1, r - 2}
    BY <1>4, <1>11
  <2>4. \A x \in b .. b + Size(h, b) - 3 : x \in Addr /\ x \notin {l - 1, c - 2, c - 1, r - 2}
    BY <1>4, <1>11 DEF Addr
  <2> QED BY <2>1, <2>2, <2>3, <2>4, <1>8 DEF Unchanged
<1>13. g.mem[h.brk - 1] = h.mem[h.brk - 1]
  <2>1. h.brk - 1 \in Addr /\ h.brk - 1 \notin {l - 1, c - 2, c - 1, r - 2}
    BY <1>4 DEF Addr
  <2> QED BY <2>1, <1>8 DEF Unchanged
<1>14. Around(B, l, r) = B \ {l}
  <2>1. \A b \in B \ {l} : b < l \/ b >= r
    BY <1>4, <1>11
  <2>2. ~(l < l \/ l >= r)
    BY <1>4
  <2> QED BY <2>1, <2>2 DEF Around
<1>15. TagsOutside(h, g, B, l, r)
  <2>1. \A b \in B : b < l \/ b >= r => b \in B \ {l}
    BY <1>4
  <2> QED BY <2>1, <1>12, <1>13 DEF TagsOutside
<1>16. PICK N : N = {l, c}
  OBVIOUS
<1>17. Fills(g, N, l, r)
  <2>1. \A n \in N : n = l \/ n = c
    BY <1>16
  <2>2. l \in N /\ c \in N /\ N \subseteq Nat
    BY <1>4, <1>16
  <2>3. l + Size(g, l) = c /\ c + Size(g, c) = r
    BY <1>4, <1>7, <1>10
  <2>4. l + Size(g, l) - 2 = c - 2 /\ c + Size(g, c) - 2 = r - 2
    BY <1>4, <1>7, <1>10
  <2>5. \A n \in N : /\ l <= n /\ n < r /\ Size(g, n) >= 4
                  /\ n + Size(g, n) \in N \cup {r} /\ n + Size(g, n) <= r
                  /\ g.mem[n + Size(g, n) - 2] = g.mem[n - 1]
    BY <2>1, <2>2, <2>3, <2>4, <1>4, <1>7, <1>9, <1>10
  <2>6. \A n, m \in N : n < m => n + Size(g, n) <= m
    BY <2>1, <2>3, <1>4
  <2>7. \A x \in N \cup {r} : x = l \/ \E n \in N : n + Size(g, n) = x
    BY <2>1, <2>2, <2>3
  <2> QED BY <2>2, <2>5, <2>6, <2>7 DEF Fills
<1>18. /\ Tiled(g, Around(B, l, r) \cup N)
       /\ SameSizes(h, g, Around(B, l, r))
  <2>1. l < r
    BY <1>4
  <2> QED BY <2>1, <1>4, <1>7, <1>15, <1>17, Replaced
<1>19. Alike(h, g, B \ {l}) /\ Kept(h, g, B \ {l})
  BY <1>12, <1>14, <1>18 DEF Alike, Kept, SameSizes
<1>20. c \notin B /\ c # heap_listp
  BY <1>4, <1>11 DEF heap_listp
<1>21. CutAt(h, g, B, l, c)
  <2>1. Size(g, l) = c - l /\ Size(g, c) = Size(h, l) - (c - l)
    BY <1>4, <1>7, <1>10
  <2>2. Unchanged(h, g, {l - 1, c - 2, c - 1, l + Size(h, l) - 2})
    <3>1. l + Size(h, l) - 2 = r - 2
      BY <1>1, <1>4
    <3> QED BY <3>1, <1>8 DEF Unchanged
  <2>3. Tiled(g, (B \ {l}) \cup {l, c}) /\ l < c
    BY <1>4, <1>14, <1>16, <1>18
  <2> QED BY <2>1, <2>2, <2>3, <1>7, <1>10, <1>19, <1>20 DEF CutAt
<1> QED BY <1>2, <1>3, <1>21

(* The lists stay when a block that is in none is cut. *)
LEMMA CutLists ==
  ASSUME Kind3, NEW h, NEW B, Tiled(h, B), NEW l \in B, l # heap_listp, NEW E, E \subseteq FreeIn(h, B) \ {l},
         Listed(h, E), NEW c \in Nat, l + 4 <= c, c + 4 <= l + Size(h, l), NEW g, CutAt(h, g, B, l, c)
  PROVE  Listed(g, E)
<1>1. E \subseteq B \ {heap_listp} /\ l \notin E
  <2>1. E \subseteq FreeIn(h, B)
    OBVIOUS
  <2> QED BY <2>1, FreeAre
<1>2. l \in Nat /\ Size(h, l) \in Int
  BY Bounds
<1>3. l - 1 \notin Links(E) /\ l + Size(h, l) - 2 \notin Links(E)
  BY <1>1, TagWords
<1>4. c - 2 \in l .. l + Size(h, l) - 3 /\ c - 1 \in l .. l + Size(h, l) - 3
  BY <1>2
<1>5. c - 2 \notin Links(E) /\ c - 1 \notin Links(E)
  BY <1>1, <1>4, PayloadWords
<1>6. Links(E) \subseteq Addr
  BY <1>1, LinksInside
<1>7. \A x \in Links(E) : g.mem[x] = h.mem[x]
  BY <1>3, <1>5, <1>6 DEF CutAt, Unchanged
<1>8. \A b \in E : g.mem[b - 1] = h.mem[b - 1]
  BY <1>1 DEF CutAt, Alike
<1>9. kind # "buddy"
  BY DEF Kind3
<1> QED BY <1>7, <1>8, <1>9, SameLinks

(* What place makes of a free block that is large enough. *)
Placing(h, B, bp, asize, g, C) ==
  /\ Clean(g, C) /\ g.bp = bp /\ bp \notin UsedIn(h, B) /\ bp \in Nat /\ bp > 2
  /\ UsedIn(g, C) = UsedIn(h, B) \cup {bp} /\ Size(g, bp) >= asize
  /\ Kept(h, g, UsedIn(h, B)) /\ g.brk = h.brk

(* What lies around one block is the other blocks. *)
LEMMA AroundOne ==
  ASSUME NEW h, NEW B, Tiled(h, B), NEW l \in B, NEW r, r = l + Size(h, l)
  PROVE  Around(B, l, r) = B \ {l}
<1>1. l \in Nat /\ Size(h, l) \in Int /\ Size(h, l) >= 2
  BY Bounds
<1>2. ASSUME NEW b \in B \ {l} PROVE b < l \/ b >= r
  <2>1. b \in Nat /\ Size(h, b) \in Int /\ Size(h, b) >= 2
    BY Bounds
  <2>2. b + Size(h, b) <= l \/ l + Size(h, l) <= b
    BY Disjoint
  <2> QED BY <1>1, <2>1, <2>2
<1>3. ~(l < l \/ l >= r)
  BY <1>1
<1> QED BY <1>2, <1>3 DEF Around

(* The block is given as it is. *)
LEMMA PlacesWhole ==
  ASSUME Kind3, NEW h, NEW B, Clean(h, B), NEW bp \in FreeIn(h, B), NEW asize \in Nat, asize >= 4,
         asize % 2 = 0, asize <= Size(h, bp), ~(Size(h, bp) - asize >= 4)
  PROVE  Placing(h, B, bp, asize, place(h, bp, asize), B)
<1>1. PICK F : F = FreeIn(h, B)
  OBVIOUS
<1>2. PICK csize : csize = Size(h, bp)
  OBVIOUS
<1>3. PICK t : t = deleteExplicit(h, bp)
  OBVIOUS
<1>4. PICK x : x = Tag(t, bp, csize, 1)
  OBVIOUS
<1>5. PICK g : g = [[x EXCEPT !.next_p = bp] EXCEPT !.bp = bp]
  OBVIOUS
<1>6. place(h, bp, asize) = g
  <2>1. kind # "buddy"
    BY DEF Kind3
  <2>2. GET_SIZE(h, HDRP(bp)) = csize
    BY <1>2 DEF Size
  <2> QED BY <2>1, <2>2, <1>2, <1>3, <1>4, <1>5 DEF place, place_split
<1>7. Tiled(h, B) /\ Listed(h, F) /\ bp \in F /\ F \subseteq B \ {heap_listp}
  <2>1. Tiled(h, B) /\ Listed(h, F) /\ bp \in F
    BY <1>1 DEF Clean
  <2> QED BY <2>1, <1>1, FreeAre
<1>8. Same(h, t, B) /\ Listed(t, F \ {bp})
  BY <1>1, <1>3, <1>7, Taken
<1>9. /\ Tiled(t, B) /\ FreeIn(t, B) = F /\ UsedIn(t, B) = UsedIn(h, B) /\ t.brk = h.brk
      /\ \A b \in B : Size(t, b) = Size(h, b)
      /\ Kept(h, t, UsedIn(h, B))
  BY <1>1, <1>8 DEF Same
<1>10. /\ bp \in Nat /\ bp > 2 /\ csize \in Int /\ csize % 2 = 0 /\ csize >= 4 /\ bp \in B /\ bp # heap_listp
       /\ Size(t, bp) = csize /\ h.brk \in Nat
  <2>1. bp \in B /\ bp # heap_listp
    BY <1>7
  <2>2. bp \in Nat /\ bp >= 2 /\ csize \in Int /\ csize % 2 = 0 /\ h.brk \in Nat
    BY <2>1, <1>2, <1>7, Bounds
  <2>3. csize >= 4
    BY <2>1, <1>2, <1>7 DEF Tiled
  <2> QED BY <2>1, <2>2, <2>3, <1>2, <1>9 DEF heap_listp
<1>11. PICK r : r = bp + csize
  OBVIOUS
<1>12. r \in B \cup {t.brk} /\ bp < r /\ csize = r - bp /\ r \in Nat
  <2>1. bp + Size(h, bp) \in B \cup {h.brk}
    BY <1>7 DEF Tiled
  <2> QED BY <2>1, <1>2, <1>9, <1>10, <1>11
<1>13. Around(B, bp, r) = B \ {bp} /\ (B \ {bp}) \cup {bp} = B
  <2>1. Around(B, bp, r) = B \ {bp}
    BY <1>2, <1>7, <1>11, AroundOne
  <2> QED BY <2>1, <1>10
<1>14. Retag(t, x, B, bp, r, csize, 1)
  BY <1>4, <1>9, <1>10, <1>12, Retagged
<1>15. /\ Typed(x) /\ x.brk = h.brk /\ Tiled(x, B) /\ Size(x, bp) = csize /\ Alloc(x, bp) = 1
       /\ Alike(t, x, B \ {bp}) /\ Kept(t, x, B \ {bp})
  BY <1>9, <1>13, <1>14 DEF Retag
<1>16. Listed(x, F \ {bp})
  <2>1. PICK E : E = F \ {bp}
    OBVIOUS
  <2>2. E \subseteq FreeIn(t, B) /\ E \subseteq Around(B, bp, r) /\ Listed(t, E)
    BY <2>1, <1>7, <1>8, <1>9, <1>13
  <2>3. Listed(Tag(t, bp, csize, 1), E)
    BY <2>2, <1>9, <1>10, <1>12, Tagged
  <2> QED BY <2>1, <2>3, <1>4
<1>17. FreeIn(x, B) = F \ {bp} /\ UsedIn(x, B) = UsedIn(h, B) \cup {bp} /\ bp \notin UsedIn(h, B)
  <2>1. \A b \in B \ {bp} : Alloc(x, b) = Alloc(h, b)
    BY <1>8, <1>15 DEF Alike, Same
  <2>2. FreeIn(x, B) = F \ {bp}
    BY <2>1, <1>1, <1>15 DEF FreeIn
  <2>3. UsedIn(x, B) = UsedIn(h, B) \cup {bp}
    BY <2>1, <1>10, <1>15 DEF UsedIn
  <2>4. bp \notin UsedIn(h, B)
    BY <1>1, <1>7 DEF FreeIn, UsedIn
  <2> QED BY <2>2, <2>3, <2>4
<1>18. Typed(g) /\ g.mem = x.mem /\ g.brk = x.brk /\ g.next_p = bp /\ g.bp = bp
  BY <1>5, <1>10, <1>15 DEF Typed
<1>19. Same(x, g, B) /\ Listed(g, F \ {bp})
  BY <1>15, <1>16, <1>18, SameMemory, SameLists
<1>20. Tiled(g, B) /\ FreeIn(g, B) = F \ {bp} /\ UsedIn(g, B) = UsedIn(h, B) \cup {bp} /\ Size(g, bp) = csize
       /\ Kept(x, g, UsedIn(h, B)) /\ g.brk = h.brk
  <2>1. Kept(x, g, UsedIn(h, B) \cup {bp})
    BY <1>17, <1>19 DEF Same
  <2> QED BY <2>1, <1>10, <1>15, <1>17, <1>19, KeptLess DEF Same
<1>21. Kept(h, g, UsedIn(h, B))
  <2>1. UsedIn(h, B) \subseteq B \ {bp}
    BY <1>17 DEF UsedIn
  <2>2. Kept(t, x, UsedIn(h, B))
    BY <2>1, <1>15, KeptLess
  <2> QED BY <2>2, <1>9, <1>20, KeptTrans
<1>22. \A b \in F \ {bp} : b + Size(g, b) \notin F \ {bp}
  <2> TAKE b \in F \ {bp}
  <2>1. b \in B \ {bp}
    BY <1>7
  <2>2. Size(g, b) = Size(h, b)
    BY <2>1, <1>9, <1>15, <1>19 DEF Alike, Same
  <2>3. b + Size(h, b) \notin F
    BY <1>1 DEF Clean
  <2> QED BY <2>2, <2>3
<1>23. Clean(g, B)
  BY <1>10, <1>18, <1>19, <1>20, <1>22 DEF Clean
<1>24. Placing(h, B, bp, asize, g, B)
  BY <1>2, <1>10, <1>17, <1>18, <1>20, <1>21, <1>23 DEF Placing
<1> QED BY <1>6, <1>24

(* The block is cut and the rest goes back to the lists. *)
LEMMA PlacesCut ==
  ASSUME Kind3, NEW h, NEW B, Clean(h, B), NEW bp \in FreeIn(h, B), NEW asize \in Nat, asize >= 4,
         asize % 2 = 0, Size(h, bp) - asize >= 4
  PROVE  \E C : Placing(h, B, bp, asize, place(h, bp, asize), C)
<1>1. PICK F : F = FreeIn(h, B)
  OBVIOUS
<1>2. PICK rest : rest = Size(h, bp) - asize
  OBVIOUS
<1>3. PICK c : c = bp + asize
  OBVIOUS
<1>4. PICK t : t = deleteExplicit(h, bp)
  OBVIOUS
<1>5. PICK x : x = Tag(Tag(t, bp, asize, 1), c, rest, 0)
  OBVIOUS
<1>6. PICK y : y = insert(x, c)
  OBVIOUS
<1>7. PICK g : g = [[y EXCEPT !.next_p = c] EXCEPT !.bp = bp]
  OBVIOUS
<1>8. place(h, bp, asize) = g
  <2>1. kind # "buddy"
    BY DEF Kind3
  <2>2. GET_SIZE(h, HDRP(bp)) = Size(h, bp)
    BY DEF Size
  <2> QED BY <2>1, <2>2, <1>2, <1>3, <1>4, <1>5, <1>6, <1>7 DEF place, place_split
<1>9. Tiled(h, B) /\ Listed(h, F) /\ bp \in F /\ F \subseteq B \ {heap_listp}
  <2>1. Tiled(h, B) /\ Listed(h, F) /\ bp \in F
    BY <1>1 DEF Clean
  <2> QED BY <2>1, <1>1, FreeAre
<1>10. Same(h, t, B) /\ Listed(t, F \ {bp})
  BY <1>1, <1>4, <1>9, Taken
<1>11. /\ Tiled(t, B) /\ FreeIn(t, B) = F /\ UsedIn(t, B) = UsedIn(h, B) /\ t.brk = h.brk
       /\ \A b \in B : Size(t, b) = Size(h, b) /\ Alloc(t, b) = Alloc(h, b)
       /\ Kept(h, t, UsedIn(h, B))
  BY <1>1, <1>10 DEF Same
<1>12. /\ bp \in Nat /\ bp > 2 /\ bp \in B /\ bp # heap_listp
       /\ Size(t, bp) = Size(h, bp) /\ Size(h, bp) \in Int /\ rest \in Nat /\ rest >= 4 /\ c \in Nat
       /\ bp + 4 <= c /\ c + 4 <= bp + Size(h, bp) /\ c + rest = bp + Size(h, bp)
       /\ bp + Size(h, bp) \in B \cup {h.brk} /\ h.brk \in Nat
  <2>1. bp \in B /\ bp # heap_listp
    BY <1>9
  <2>2. bp \in Nat /\ bp >= 2 /\ Size(h, bp) \in Int /\ h.brk \in Nat
    BY <2>1, <1>9, Bounds
  <2>3. bp + Size(h, bp) \in B \cup {h.brk}
    BY <2>1, <1>9 DEF Tiled
  <2> QED BY <2>1, <2>2, <2>3, <1>2, <1>3, <1>11 DEF heap_listp
<1>13. CutAt(t, x, B, bp, c)
  BY <1>2, <1>3, <1>5, <1>11, <1>12, Cut
<1>14. PICK E : E = F \ {bp}
  OBVIOUS
<1>15. E \subseteq FreeIn(t, B) \ {bp} /\ Listed(t, E)
  BY <1>10, <1>11, <1>14
<1>16. Listed(x, E)
  BY <1>11, <1>12, <1>13, <1>15, CutLists
<1>17. PICK D : D = (B \ {bp}) \cup {bp, c}
  OBVIOUS
<1>18. /\ Typed(x) /\ x.brk = h.brk /\ Tiled(x, D) /\ c \notin B /\ c # heap_listp
       /\ Size(x, bp) = asize /\ Alloc(x, bp) = 1 /\ Size(x, c) = rest /\ Alloc(x, c) = 0
       /\ Alike(t, x, B \ {bp}) /\ Kept(t, x, B \ {bp})
  <2>1. c - bp = asize /\ Size(t, bp) - (c - bp) = rest
    BY <1>2, <1>3, <1>12
  <2> QED BY <2>1, <1>11, <1>13, <1>17 DEF CutAt
<1>19. /\ FreeIn(x, D) = E \cup {c} /\ UsedIn(x, D) = UsedIn(h, B) \cup {bp} /\ bp \notin UsedIn(h, B)
       /\ c \notin E /\ E \subseteq FreeIn(x, D) /\ c \in FreeIn(x, D)
  <2>1. \A b \in B \ {bp} : Alloc(x, b) = Alloc(h, b)
    BY <1>11, <1>18 DEF Alike
  <2>2. FreeIn(x, D) = E \cup {c}
    <3>1. \A b : b \in D <=> b \in B \ {bp} \/ b = bp \/ b = c
      BY <1>17
    <3>2. \A b \in B \ {bp} : Alloc(x, b) = 0 <=> b \in E
      BY <2>1, <1>1, <1>14 DEF FreeIn
    <3>3. E \subseteq B \ {bp}
      BY <1>9, <1>14
    <3> QED BY <3>1, <3>2, <3>3, <1>18 DEF FreeIn
  <2>3. UsedIn(x, D) = UsedIn(h, B) \cup {bp}
    <3>1. \A b : b \in D <=> b \in B \ {bp} \/ b = bp \/ b = c
      BY <1>17
    <3>2. \A b \in B \ {bp} : (b # heap_listp /\ Alloc(x, b) = 1) <=> b \in UsedIn(h, B)
      BY <2>1 DEF UsedIn
    <3>3. UsedIn(h, B) \subseteq B \ {bp}
      BY <1>1, <1>9 DEF FreeIn, UsedIn
    <3>4. PICK U : U = UsedIn(h, B)
      OBVIOUS
    <3>5. /\ \A b \in B \ {bp} : (b # heap_listp /\ Alloc(x, b) = 1) <=> b \in U
          /\ U \subseteq B \ {bp}
      BY <3>2, <3>3, <3>4
    <3>6. UsedIn(x, D) = U \cup {bp}
      <4>1. \A b : b \in UsedIn(x, D) <=> b \in D /\ b # heap_listp /\ Alloc(x, b) = 1
        BY DEF UsedIn
      <4>2. Alloc(x, bp) = 1 /\ Alloc(x, c) = 0 /\ bp # heap_listp
        BY <1>12, <1>18
      <4>3. ASSUME NEW b PROVE b \in UsedIn(x, D) <=> b \in U \/ b = bp
        <5>1. CASE b = bp
          BY <5>1, <4>1, <4>2, <3>1
        <5>2. CASE b = c
          BY <5>2, <4>1, <4>2, <3>5, <1>18
        <5>3. CASE b # bp /\ b # c
          BY <5>3, <4>1, <3>1, <3>5
        <5> QED BY <5>1, <5>2, <5>3
      <4> QED BY <4>3
    <3> QED BY <3>4, <3>6
  <2>4. bp \notin UsedIn(h, B)
    BY <1>1, <1>9 DEF FreeIn, UsedIn
  <2>5. c \notin E
    BY <1>9, <1>14, <1>18
  <2> QED BY <2>2, <2>3, <2>4, <2>5
<1>20. Same(x, y, D) /\ Listed(y, E \cup {c})
  BY <1>6, <1>16, <1>18, <1>19, Entered
<1>21. Tiled(y, D) /\ Typed(y)
  BY <1>20 DEF Same, Tiled
<1>22. Typed(g) /\ g.mem = y.mem /\ g.brk = y.brk /\ g.next_p = c /\ g.bp = bp
  BY <1>7, <1>12, <1>21 DEF Typed
<1>23. Same(y, g, D) /\ Listed(g, E \cup {c})
  BY <1>20, <1>21, <1>22, SameMemory, SameLists
<1>24. Same(x, g, D)
  BY <1>20, <1>23, SameTrans
<1>25. Tiled(g, D) /\ FreeIn(g, D) = E \cup {c} /\ UsedIn(g, D) = UsedIn(h, B) \cup {bp} /\ Size(g, bp) = asize
       /\ Kept(x, g, UsedIn(h, B)) /\ g.brk = h.brk /\ Size(g, c) = rest
  <2>1. Kept(x, g, UsedIn(h, B) \cup {bp})
    BY <1>19, <1>24 DEF Same
  <2>2. bp \in D /\ c \in D
    BY <1>17
  <2> QED BY <2>1, <2>2, <1>18, <1>19, <1>24, KeptLess DEF Same
<1>26. Kept(h, g, UsedIn(h, B))
  <2>1. UsedIn(h, B) \subseteq B \ {bp}
    BY <1>19 DEF UsedIn
  <2>2. Kept(t, x, UsedIn(h, B))
    BY <2>1, <1>18, KeptLess
  <2> QED BY <2>2, <1>11, <1>25, KeptTrans
<1>27. ASSUME NEW b \in E \cup {c} PROVE b + Size(g, b) \notin E \cup {c}
  <2>1. CASE b = c
    <3>1. c + Size(g, c) = bp + Size(h, bp)
      BY <1>12, <1>25
    <3>2. bp + Size(h, bp) \notin F
      BY <1>1 DEF Clean
    <3>3. bp + Size(h, bp) # c
      BY <1>12
    <3> QED BY <2>1, <3>1, <3>2, <3>3, <1>14
  <2>2. CASE b \in E
    <3>1. b \in B \ {bp} /\ b \in D
      BY <2>2, <1>9, <1>14, <1>17
    <3>2. Size(g, b) = Size(h, b)
      BY <3>1, <1>11, <1>18, <1>24 DEF Alike, Same
    <3>3. b + Size(h, b) \notin F
      BY <2>2, <1>1, <1>14 DEF Clean
    <3>4. b + Size(h, b) \in B \cup {h.brk}
      BY <3>1, <1>9 DEF Tiled
    <3>5. c # h.brk
      <4>1. bp + Size(h, bp) <= h.brk
        BY <1>9, <1>12, Bounds
      <4> QED BY <4>1, <1>12
    <3> QED BY <3>2, <3>3, <3>4, <3>5, <1>14, <1>18
  <2> QED BY <2>1, <2>2
<1>28. Clean(g, D)
  <2>1. c \in D
    BY <1>17
  <2> QED BY <2>1, <1>22, <1>23, <1>25, <1>27 DEF Clean
<1>29. Placing(h, B, bp, asize, g, D)
  BY <1>12, <1>19, <1>22, <1>25, <1>26, <1>28 DEF Placing
<1> QED BY <1>8, <1>29

(* place takes a free block that is large enough and keeps the rest free. *)
LEMMA Places ==
  ASSUME Kind3, NEW h, NEW B, Clean(h, B), NEW bp \in FreeIn(h, B), NEW asize \in Nat, asize >= 4,
         asize % 2 = 0, asize <= Size(h, bp)
  PROVE  \E C : Placing(h, B, bp, asize, place(h, bp, asize), C)
<1>1. CASE Size(h, bp) - asize >= 4
  BY <1>1, PlacesCut
<1>2. CASE ~(Size(h, bp) - asize >= 4)
  BY <1>2, PlacesWhole
<1> QED BY <1>1, <1>2

-----------------------------------------------------------------------------
(* f is a path of n steps from x to the first of the ends, within S. *)
PathIn(S, next, x, ends, f, n) ==
  /\ n \in Nat /\ Steps(next, x, f, n)
  /\ f[n] \in ends /\ \A i \in 0 .. n - 1 : f[i] \notin ends
  /\ \A i \in 0 .. n : f[i] \in S

(* Path is the path there is. *)
LEMMA PathIs ==
  ASSUME NEW S, NEW next, NEW x, NEW ends, NEW f, NEW n, n <= MaxBrk, PathIn(S, next, x, ends, f, n)
  PROVE  Path(next, x, ends) = [i \in 1 .. n |-> f[i - 1]]
<1> DEFINE at == CHOOSE a : a = [i \in Nat |-> IF i = 0 THEN x ELSE next[a[i - 1]]]
           Good(k) == at[k] \in ends /\ \A i \in 0 .. k - 1 : at[i] \notin ends
           length == CHOOSE k \in 0 .. MaxBrk : Good(k)
<1>0. n \in Nat /\ MaxBrk \in Nat /\ n \in 0 .. MaxBrk
  BY HeapAssumption DEF PathIn
<1>1. at = [i \in Nat |-> IF i = 0 THEN x ELSE next[at[i - 1]]]
  <2>1. PICK a : a = [i \in Nat |-> IF i = 0 THEN x ELSE next[a[i - 1]]]
    <3>1. PICK a : Follows(next, x, a)
      BY Iterated
    <3>2. a = [i \in Nat |-> IF i = 0 THEN x ELSE next[a[i - 1]]]
      BY <3>1 DEF Follows
    <3> QED BY <3>2
  <2> QED BY <2>1
<1>2. Path(next, x, ends) = [i \in 1 .. length |-> at[i - 1]]
  BY DEF Path
<1> HIDE DEF at
<1>3. ASSUME NEW k \in 0 .. n PROVE at[k] = f[k]
  <2>1. \A j \in Nat : at[j] = IF j = 0 THEN x ELSE next[at[j - 1]]
    BY <1>1
  <2>2. Steps(next, x, at, k)
    BY <2>1, <1>0 DEF Steps
  <2>3. Steps(next, x, f, k)
    BY <1>0 DEF PathIn, Steps
  <2>4. k \in Nat
    BY <1>0
  <2> QED BY <2>2, <2>3, <2>4, StepsUnique
<1>4. Good(n)
  BY <1>0, <1>3 DEF PathIn
<1>5. \A k \in 0 .. MaxBrk : Good(k) => k = n
  <2> SUFFICES ASSUME NEW k \in 0 .. MaxBrk, Good(k), k # n PROVE FALSE
    OBVIOUS
  <2>1. CASE k < n
    BY <2>1, <1>0, <1>4
  <2>2. CASE n < k
    BY <2>2, <1>0, <1>4
  <2> QED BY <2>1, <2>2, <1>0
<1>6. length = n
  <2> HIDE DEF Good
  <2> QED BY <1>0, <1>4, <1>5
<1>7. \A i \in 1 .. n : at[i - 1] = f[i - 1]
  <2> TAKE i \in 1 .. n
  <2>1. i - 1 \in 0 .. n
    BY <1>0
  <2> QED BY <2>1, <1>3
<1> HIDE DEF length
<1> QED BY <1>2, <1>6, <1>7

(* next leads on within S until an end, and the rank falls. *)
Falls(S, next, ends, rank) ==
  /\ \A c \in S : rank[c] \in Nat
  /\ \A c \in S : c \notin ends => next[c] \in S /\ rank[next[c]] < rank[c]

(* A path on which the rank falls comes to an end. *)
LEMMA PathEnds ==
  ASSUME NEW S, NEW next, NEW ends, NEW rank, Falls(S, next, ends, rank), NEW x \in S
  PROVE  \E f, n : PathIn(S, next, x, ends, f, n) /\ n <= rank[x]
<1> DEFINE Has(c) == \E f, n : PathIn(S, next, c, ends, f, n) /\ n <= rank[c]
           Bad == {k \in Nat : \E c \in S : rank[c] = k /\ ~Has(c)}
<1>1. Bad = {}
  <2> SUFFICES ASSUME Bad # {} PROVE FALSE
    OBVIOUS
  <2>1. PICK k \in Bad : \A j \in Bad : k <= j
    <3>1. Bad \in SUBSET Nat
      OBVIOUS
    <3> HIDE DEF Bad
    <3> QED BY <3>1, LeastElement
  <2>2. PICK c \in S : rank[c] = k /\ ~Has(c)
    OBVIOUS
  <2>3. k \in Nat
    OBVIOUS
  <2>4. CASE c \in ends
    <3>1. PICK f : f = [i \in Nat |-> c]
      OBVIOUS
    <3>2. PathIn(S, next, c, ends, f, 0)
      BY <2>4, <3>1 DEF PathIn, Steps
    <3> QED BY <2>2, <2>3, <3>2
  <2>5. CASE c \notin ends
    <3>1. PICK d : d = next[c]
      OBVIOUS
    <3>2. d \in S /\ rank[d] \in Nat /\ rank[d] < k
      BY <2>2, <2>5, <3>1 DEF Falls
    <3>3. Has(d)
      <4>1. rank[d] \notin Bad
        BY <2>1, <2>3, <3>2
      <4> HIDE DEF Has
      <4> QED BY <4>1, <3>2
    <3>4. PICK g, m : PathIn(S, next, d, ends, g, m) /\ m <= rank[d]
      BY <3>3
    <3>5. /\ m \in Nat /\ g[0] = d /\ \A i \in 1 .. m : g[i] = next[g[i - 1]]
          /\ g[m] \in ends /\ \A i \in 0 .. m - 1 : g[i] \notin ends
          /\ \A i \in 0 .. m : g[i] \in S
      BY <3>4 DEF PathIn, Steps
    <3>6. PICK f : f = [i \in Nat |-> IF i = 0 THEN c ELSE g[i - 1]]
      OBVIOUS
    <3>7. f[0] = c /\ \A i \in Nat : i # 0 => f[i] = g[i - 1]
      BY <3>6
    <3>8. PICK n : n = m + 1
      OBVIOUS
    <3>9. n \in Nat /\ n <= k
      BY <2>3, <3>2, <3>4, <3>5, <3>8
    <3>10. \A i \in 1 .. n : f[i] = next[f[i - 1]]
      <4> TAKE i \in 1 .. n
      <4>1. i \in Nat /\ i # 0 /\ f[i] = g[i - 1]
        BY <3>7, <3>9
      <4>2. CASE i = 1
        BY <4>1, <4>2, <3>1, <3>5, <3>7
      <4>3. CASE i # 1
        <5>1. i - 1 \in 1 .. m /\ i - 1 \in Nat /\ i - 1 # 0
          BY <4>1, <4>3, <3>5, <3>8
        <5>2. f[i - 1] = g[i - 1 - 1]
          BY <5>1, <3>7
        <5> QED BY <5>1, <5>2, <4>1, <3>5
      <4> QED BY <4>2, <4>3
    <3>11. f[n] \in ends
      <4>1. n # 0 /\ n - 1 = m
        BY <3>5, <3>8
      <4> QED BY <4>1, <3>5, <3>7, <3>9
    <3>12. \A i \in 0 .. n - 1 : f[i] \notin ends
      <4> TAKE i \in 0 .. n - 1
      <4>1. i \in Nat /\ (i # 0 => i - 1 \in 0 .. m - 1)
        BY <3>5, <3>8
      <4> QED BY <4>1, <2>5, <3>5, <3>7
    <3>13. \A i \in 0 .. n : f[i] \in S
      <4> TAKE i \in 0 .. n
      <4>1. i \in Nat /\ (i # 0 => i - 1 \in 0 .. m)
        BY <3>5, <3>8
      <4> QED BY <4>1, <2>2, <3>5, <3>7
    <3>14. PathIn(S, next, c, ends, f, n)
      BY <3>7, <3>9, <3>10, <3>11, <3>12, <3>13 DEF PathIn, Steps
    <3> QED BY <2>2, <3>9, <3>14
  <2> QED BY <2>4, <2>5
<1>2. rank[x] \in Nat
  BY DEF Falls
<1> HIDE DEF Has
<1>3. Has(x)
  BY <1>1, <1>2
<1> QED BY <1>3 DEF Has

(* A path visits nothing twice. *)
LEMMA PathFalls ==
  ASSUME NEW S, NEW next, NEW ends, NEW rank, Falls(S, next, ends, rank), NEW x, NEW f, NEW n,
         PathIn(S, next, x, ends, f, n)
  PROVE  \A i, j \in 0 .. n : i < j => rank[f[j]] < rank[f[i]]
<1>1. SUFFICES ASSUME NEW i \in 0 .. n PROVE \A j \in 0 .. n : i < j => rank[f[j]] < rank[f[i]]
  OBVIOUS
<1>2. /\ n \in Nat /\ \A k \in 1 .. n : f[k] = next[f[k - 1]]
      /\ \A k \in 0 .. n - 1 : f[k] \notin ends
      /\ \A k \in 0 .. n : f[k] \in S
  BY DEF PathIn, Steps
<1> DEFINE Bad == {j \in 0 .. n : i < j /\ ~(rank[f[j]] < rank[f[i]])}
<1>3. SUFFICES ASSUME Bad # {} PROVE FALSE
  OBVIOUS
<1>4. PICK j \in Bad : \A k \in Bad : j <= k
  <2>1. Bad \in SUBSET Nat
    BY <1>2
  <2> HIDE DEF Bad
  <2> QED BY <1>3, <2>1, LeastElement
<1>5. j \in 0 .. n /\ i < j /\ ~(rank[f[j]] < rank[f[i]])
  OBVIOUS
<1>6. j \in 1 .. n /\ j - 1 \in 0 .. n - 1 /\ j - 1 \in 0 .. n /\ (i = j - 1 \/ i < j - 1) /\ i \in Nat /\ j \in Nat
  BY <1>2, <1>5
<1>7. f[j] = next[f[j - 1]] /\ f[j - 1] \in S /\ f[j - 1] \notin ends /\ f[j] \in S /\ f[i] \in S
  BY <1>2, <1>5, <1>6
<1>8. rank[f[j]] < rank[f[j - 1]] /\ rank[f[j]] \in Nat /\ rank[f[j - 1]] \in Nat /\ rank[f[i]] \in Nat
  BY <1>7 DEF Falls
<1>9. i < j - 1 => rank[f[j - 1]] < rank[f[i]]
  <2>1. j - 1 \notin Bad
    BY <1>4, <1>6
  <2> QED BY <2>1, <1>6
<1> QED BY <1>5, <1>6, <1>8, <1>9

-----------------------------------------------------------------------------
Injective(f, n, m) ==
  /\ \A i \in 0 .. n - 1 : f[i] \in 0 .. m - 1
  /\ \A i, j \in 0 .. n - 1 : f[i] = f[j] => i = j

(* No more than m numbers lie below m. *)
LEMMA Pigeonhole ==
  ASSUME NEW f, NEW n \in Nat, NEW m \in Nat, Injective(f, n, m)
  PROVE  n <= m
<1> DEFINE Bad == {k \in Nat : \E g, l : l \in Nat /\ Injective(g, l, k) /\ l > k}
<1>1. Bad = {}
  <2> SUFFICES ASSUME Bad # {} PROVE FALSE
    OBVIOUS
  <2>1. PICK k \in Bad : \A j \in Bad : k <= j
    <3>1. Bad \in SUBSET Nat
      OBVIOUS
    <3> HIDE DEF Bad
    <3> QED BY <3>1, LeastElement
  <2>2. PICK g, l : l \in Nat /\ Injective(g, l, k) /\ l > k
    OBVIOUS
  <2>3. k \in Nat /\ l \in Nat /\ l - 1 \in Nat /\ l >= 1
    BY <2>2
  <2>4. k # 0
    <3>1. 0 \in 0 .. l - 1
      BY <2>3
    <3> QED BY <2>2, <2>3, <3>1 DEF Injective
  <2>5. PICK h : h = [i \in Nat |-> IF g[i] = k - 1 THEN g[l - 1] ELSE g[i]]
    OBVIOUS
  <2>6. \A i \in 0 .. l - 2 : /\ i \in 0 .. l - 1 /\ i # l - 1 /\ l - 1 \in 0 .. l - 1
                              /\ h[i] = IF g[i] = k - 1 THEN g[l - 1] ELSE g[i]
    BY <2>3, <2>5
  <2>7. \A i \in 0 .. l - 2 : h[i] \in 0 .. k - 2
    <3> TAKE i \in 0 .. l - 2
    <3>1. g[i] \in 0 .. k - 1 /\ g[l - 1] \in 0 .. k - 1 /\ g[i] # g[l - 1]
      BY <2>2, <2>6 DEF Injective
    <3> QED BY <3>1, <2>3, <2>4, <2>6
  <2>8. \A i, j \in 0 .. l - 2 : h[i] = h[j] => i = j
    <3> TAKE i, j \in 0 .. l - 2
    <3>1. g[i] # g[l - 1] /\ g[j] # g[l - 1] /\ (g[i] = g[j] => i = j)
      BY <2>2, <2>6 DEF Injective
    <3> QED BY <3>1, <2>6
  <2>9. Injective(h, l - 1, k - 1)
    <3>1. l - 1 - 1 = l - 2 /\ k - 1 - 1 = k - 2
      BY <2>3, <2>4
    <3> QED BY <3>1, <2>7, <2>8 DEF Injective
  <2>10. k - 1 \in Bad
    BY <2>2, <2>3, <2>4, <2>9
  <2>11. k <= k - 1
    BY <2>1, <2>10
  <2> QED BY <2>3, <2>11
<1> QED BY <1>1

(* l lists the elements of S. *)
ListOf(l, n, S) == n \in Nat /\ DOMAIN l = 1 .. n /\ Elems(l) = S

(* A path through S that comes past all of S lists it. *)
LEMMA PathElems ==
  ASSUME NEW f, NEW n \in Nat, NEW l, l = [i \in 1 .. n |-> f[i - 1]], NEW S,
         \A i \in 0 .. n - 1 : f[i] \in S, \A c \in S : \E i \in 0 .. n - 1 : f[i] = c
  PROVE  ListOf(l, n, S)
<1>1. DOMAIN l = 1 .. n
  OBVIOUS
<1>2. \A i \in 1 .. n : l[i] = f[i - 1] /\ i - 1 \in 0 .. n - 1
  OBVIOUS
<1>3. \A i \in 1 .. n : l[i] \in S
  BY <1>2
<1>4. ASSUME NEW c \in S PROVE \E i \in 1 .. n : l[i] = c
  <2>1. PICK i \in 0 .. n - 1 : f[i] = c
    OBVIOUS
  <2>2. i + 1 \in 1 .. n /\ i + 1 - 1 = i
    OBVIOUS
  <2>3. l[i + 1] = f[i + 1 - 1]
    BY <2>2, <1>2
  <2> QED BY <2>1, <2>2, <2>3
<1>5. Elems(l) = S
  BY <1>1, <1>3, <1>4 DEF Elems
<1> QED BY <1>1, <1>5 DEF ListOf

Between(B, b, s) == {c \in B : c >= b /\ c < s}

(* A walk meets all the blocks from where it starts to where it stops. *)
LEMMA WalkIs ==
  ASSUME NEW h, NEW B, Tiled(h, B), NEW b \in B, NEW s \in B \cup {h.brk}, s >= b
  PROVE  \E n : ListOf(Walk(h, b, s), n, Between(B, b, s))
<1>1. PICK S : S = B \cup {h.brk}
  OBVIOUS
<1>2. PICK inside : inside = {a \in 2 .. MaxBrk : GET_SIZE(h, HDRP(a)) # 0}
  OBVIOUS
<1>3. PICK next : next = [a \in inside |-> NEXT_BLKP(h, a)]
  OBVIOUS
<1>4. PICK ends : ends = ((2 .. MaxBrk) \ inside) \cup {s}
  OBVIOUS
<1>5. PICK rank : rank = [c \in S |-> h.brk - c]
  OBVIOUS
<1>6. /\ h.brk \in Nat /\ h.brk <= MaxBrk /\ MaxBrk \in Nat /\ h.brk >= 2
      /\ \A c \in B : c \in Nat /\ c >= 2 /\ Size(h, c) \in Int /\ Size(h, c) >= 2 /\ c + Size(h, c) <= h.brk /\ c < h.brk
  BY Bounds, HeapAssumption
<1>7. \A c \in B : c + Size(h, c) \in S
  BY <1>1 DEF Tiled
<1>8. \A c \in B : c \in inside /\ next[c] = c + Size(h, c) /\ (c # s => c \notin ends)
  <2> TAKE c \in B
  <2>1. c \in 2 .. MaxBrk /\ Size(h, c) # 0
    BY <1>6
  <2>2. c \in inside
    BY <2>1, <1>2 DEF Size
  <2> QED BY <2>2, <1>3, <1>4 DEF NEXT_BLKP, Size
<1>9. h.brk \in ends
  <2>1. h.mem[h.brk - 1] = PACK(0, 1)
    BY DEF Tiled
  <2>2. GET_SIZE(h, HDRP(h.brk)) = 0
    BY <2>1, TagParts DEF HDRP
  <2> QED BY <2>2, <1>2, <1>4, <1>6
<1>10. \A c \in S : rank[c] = h.brk - c /\ rank[c] \in Nat /\ rank[c] <= MaxBrk /\ c \in Nat
  BY <1>1, <1>5, <1>6
<1>11. Falls(S, next, ends, rank)
  <2>1. ASSUME NEW c \in S, c \notin ends PROVE next[c] \in S /\ rank[next[c]] < rank[c]
    <3>1. c \in B
      BY <2>1, <1>1, <1>9
    <3>2. next[c] = c + Size(h, c) /\ c + Size(h, c) \in S
      BY <3>1, <1>7, <1>8
    <3>3. rank[c + Size(h, c)] = h.brk - (c + Size(h, c)) /\ rank[c] = h.brk - c
      BY <3>2, <1>10
    <3> QED BY <3>1, <3>2, <3>3, <1>6
  <2> QED BY <2>1, <1>10 DEF Falls
<1>12. b \in S
  BY <1>1
<1>13. PICK f, n : PathIn(S, next, b, ends, f, n) /\ n <= rank[b]
  BY <1>11, <1>12, PathEnds
<1>14. /\ n \in Nat /\ n <= MaxBrk /\ f[0] = b /\ \A i \in 1 .. n : f[i] = next[f[i - 1]]
       /\ f[n] \in ends /\ \A i \in 0 .. n - 1 : f[i] \notin ends
       /\ \A i \in 0 .. n : f[i] \in S
  <2>1. n \in Nat
    BY <1>13 DEF PathIn
  <2>2. n <= MaxBrk
    BY <2>1, <1>6, <1>10, <1>12, <1>13
  <2> QED BY <2>1, <2>2, <1>13 DEF PathIn, Steps
<1>15. Walk(h, b, s) = [i \in 1 .. n |-> f[i - 1]]
  <2>1. Path(next, b, ends) = [i \in 1 .. n |-> f[i - 1]]
    BY <1>13, <1>14, PathIs
  <2> QED BY <2>1, <1>2, <1>3, <1>4 DEF Walk
<1>16. s \in ends /\ s \in Nat /\ s <= h.brk
  BY <1>4, <1>6
<1>17. \A i \in 0 .. n - 1 : f[i] \in B /\ f[i] # s /\ f[i] >= b
  <2> TAKE i \in 0 .. n - 1
  <2>1. f[i] \in B /\ f[i] # s
    <3>1. i \in 0 .. n
      BY <1>14
    <3>2. f[i] \in S /\ f[i] \notin ends
      BY <3>1, <1>14
    <3> QED BY <3>2, <1>1, <1>9, <1>16
  <2>2. i # 0 => rank[f[i]] < rank[f[0]]
    <3>1. i \in 0 .. n /\ 0 \in 0 .. n /\ (i # 0 => 0 < i)
      BY <1>14
    <3> QED BY <3>1, <1>11, <1>13, PathFalls
  <2>3. f[i] \in S /\ f[0] \in S
    BY <2>1, <1>1, <1>12, <1>14
  <2>4. f[i] >= b
    BY <2>2, <2>3, <1>6, <1>10, <1>14
  <2> QED BY <2>1, <2>4
<1>18. \A i \in 0 .. n - 1 : f[i] < s
  <2> DEFINE Past == {i \in 0 .. n - 1 : f[i] >= s}
  <2> SUFFICES ASSUME Past # {} PROVE FALSE
    <3>1. \A i \in 0 .. n - 1 : f[i] \in Nat
      BY <1>6, <1>17
    <3> QED BY <3>1, <1>16
  <2>1. PICK j \in Past : \A i \in Past : j <= i
    <3>1. Past \in SUBSET Nat
      BY <1>14
    <3> HIDE DEF Past
    <3> QED BY <3>1, LeastElement
  <2>2. j \in 0 .. n - 1 /\ f[j] >= s /\ f[j] \in B /\ f[j] # s
    BY <2>1, <1>17
  <2>3. j # 0
    BY <2>2, <1>6, <1>14, <1>16
  <2>4. j - 1 \in 0 .. n - 1 /\ j \in 1 .. n /\ j - 1 \notin Past
    BY <2>1, <2>2, <2>3, <1>14
  <2>5. f[j - 1] \in B /\ f[j - 1] < s
    <3>1. f[j - 1] \in B /\ f[j - 1] \in Nat
      BY <2>4, <1>6, <1>17
    <3>2. ~(f[j - 1] >= s)
      BY <2>4
    <3> QED BY <3>1, <3>2, <1>16
  <2>6. f[j] = f[j - 1] + Size(h, f[j - 1])
    BY <2>4, <2>5, <1>8, <1>14
  <2>7. CASE s = h.brk
    BY <2>2, <2>7, <1>6
  <2>8. CASE s \in B
    <3>1. f[j - 1] + Size(h, f[j - 1]) <= s \/ s + Size(h, s) <= f[j - 1]
      <4>1. f[j - 1] = s \/ f[j - 1] + Size(h, f[j - 1]) <= s \/ s + Size(h, s) <= f[j - 1]
        BY <2>5, <2>8, Disjoint
      <4> QED BY <4>1, <2>5, <1>6, <1>16
    <3>2. f[j] \in Nat /\ f[j - 1] \in Nat /\ Size(h, s) >= 2 /\ Size(h, s) \in Int
      BY <2>2, <2>5, <2>8, <1>6
    <3> QED BY <3>1, <3>2, <2>2, <2>5, <2>6, <1>16
  <2> QED BY <2>7, <2>8
<1>19. \A i \in 0 .. n - 1 : f[i] \in Between(B, b, s)
  BY <1>17, <1>18 DEF Between
<1>20. \A c \in Between(B, b, s) : \E i \in 0 .. n - 1 : f[i] = c
  <2> DEFINE Bad == {c \in Between(B, b, s) : ~\E i \in 0 .. n - 1 : f[i] = c}
  <2> SUFFICES ASSUME Bad # {} PROVE FALSE
    OBVIOUS
  <2>1. PICK c \in Bad : \A d \in Bad : c <= d
    <3>1. Bad \in SUBSET Nat
      BY <1>6 DEF Between
    <3> HIDE DEF Bad
    <3> QED BY <3>1, LeastElement
  <2>2. c \in B /\ c >= b /\ c < s /\ c # s /\ c \in Nat /\ b \in Nat /\ ~\E i \in 0 .. n - 1 : f[i] = c
    BY <1>6, <1>16 DEF Between
  <2>3. c # b
    <3>1. b \notin ends
      BY <2>2, <1>6, <1>8, <1>16
    <3>2. n # 0
      BY <3>1, <1>14
    <3>3. 0 \in 0 .. n - 1
      BY <3>2, <1>14
    <3> QED BY <3>3, <2>2, <1>14
  <2>4. c # heap_listp
    BY <2>2, <2>3, <1>6 DEF heap_listp
  <2>5. PICK p \in B : p + Size(h, p) = c
    BY <2>2, <2>4 DEF Tiled
  <2>6. p \in Nat /\ p < c /\ p >= b
    <3>1. p = b \/ p + Size(h, p) <= b \/ b + Size(h, b) <= p
      BY Disjoint
    <3> QED BY <3>1, <2>2, <2>3, <2>5, <1>6
  <2>7. p \in Between(B, b, s) /\ p \notin Bad
    <3>1. p \in Between(B, b, s)
      BY <2>2, <2>6, <1>16 DEF Between
    <3> QED BY <3>1, <2>1, <2>2, <2>6
  <2>8. PICK i \in 0 .. n - 1 : f[i] = p
    BY <2>7
  <2>9. i + 1 \in 1 .. n /\ i + 1 - 1 = i
    BY <1>14
  <2>10. f[i + 1] = c
    <3>1. f[i + 1] = next[f[i + 1 - 1]]
      BY <2>9, <1>14
    <3> QED BY <3>1, <2>5, <2>8, <2>9, <1>8
  <2>11. i + 1 # n
    BY <2>2, <2>10, <1>8, <1>14
  <2>12. i + 1 \in 0 .. n - 1
    BY <2>9, <2>11, <1>14
  <2> QED BY <2>2, <2>10, <2>12
<1>21. ListOf(Walk(h, b, s), n, Between(B, b, s))
  <2>1. n \in Nat
    BY <1>14
  <2> QED BY <2>1, <1>15, <1>19, <1>20, PathElems
<1> QED BY <1>21

InList(h, F, x) == {b \in F : HeadOf(h, b) = x}

(* What comes before a block of the list l is what it links back to. *)
LinkedBack(h, l, n) == \A i \in 2 .. n : h.mem[l[i]] = l[i - 1]

(* A chain holds the blocks of its list. *)
LEMMA ChainIs ==
  ASSUME kind \in {"explicit", "segregate"}, NEW h, NEW F, Separate(F), NEW rank, NEW m \in Nat,
         \A b \in F : rank[b] < m, Linked(h, F, rank), NEW x \in ListHeads
  PROVE  \E n : ListOf(Chain(h, h.mem[x]), n, InList(h, F, x)) /\ LinkedBack(h, Chain(h, h.mem[x]), n)
<1>1. PICK T : T = InList(h, F, x)
  OBVIOUS
<1>2. PICK S : S = T \cup {End}
  OBVIOUS
<1>3. PICK next : next = [a \in 2 .. MaxBrk - 2 |-> NEX_EXPLICIT(h, a)]
  OBVIOUS
<1>4. PICK ends : ends = {NULL, heap_listp}
  OBVIOUS
<1>5. PICK high : high = [c \in S |-> IF c = End THEN 0 ELSE rank[c] + 1]
  OBVIOUS
<1>6. /\ \A c \in F : c \in Addr /\ c \in Nat /\ c > 4 /\ c + 1 \in Addr
      /\ heap_listp = 2 /\ End \in {0, 2} /\ MaxBrk \in Nat
  BY Apart, HeapAssumption
<1>7. \A c \in F : c \in 2 .. MaxBrk - 2 /\ c \in 0 .. MaxBrk - 1 /\ next[c] = h.mem[c + 1] /\ c \notin ends /\ c # End
  <2> TAKE c \in F
  <2>1. c \in 2 .. MaxBrk - 2 /\ c \in 0 .. MaxBrk - 1
    BY <1>6 DEF Addr
  <2> QED BY <2>1, <1>3, <1>4, <1>6 DEF NEX_EXPLICIT, NULL
<1>8. End \in ends
  BY <1>4 DEF End
<1>9. \A c \in T : c \in F /\ HeadOf(h, c) = x
  BY <1>1 DEF InList
<1>10. \A c \in F : HeadOf(h, c) = x => c \in T
  BY <1>1 DEF InList
<1>11. \A c \in T : h.mem[c + 1] \in S /\ (h.mem[c + 1] # End => rank[h.mem[c + 1]] < rank[c] /\ h.mem[h.mem[c + 1]] = c)
  BY <1>2, <1>9, <1>10 DEF Linked
<1>12. \A c \in F : rank[c] \in Nat
  BY DEF Linked
<1>13. \A c \in S : high[c] = (IF c = End THEN 0 ELSE rank[c] + 1) /\ high[c] \in Nat
  BY <1>2, <1>5, <1>9, <1>12
<1>14. Falls(S, next, ends, high)
  <2>1. ASSUME NEW c \in S, c \notin ends PROVE next[c] \in S /\ high[next[c]] < high[c]
    <3>1. c \in T /\ c \in F /\ c # End
      BY <2>1, <1>2, <1>7, <1>8, <1>9
    <3>2. PICK d : d = h.mem[c + 1]
      OBVIOUS
    <3>3. next[c] = d /\ d \in S /\ (d # End => rank[d] < rank[c] /\ d \in F)
      BY <3>1, <3>2, <1>2, <1>7, <1>9, <1>11
    <3>4. high[c] = rank[c] + 1 /\ high[d] = (IF d = End THEN 0 ELSE rank[d] + 1)
      BY <2>1, <3>1, <3>3, <1>13
    <3>5. rank[c] \in Nat /\ (d # End => rank[d] \in Nat)
      BY <3>1, <3>3, <1>12
    <3> QED BY <3>3, <3>4, <3>5
  <2> QED BY <2>1, <1>13 DEF Falls
<1>15. PICK b : b = h.mem[x]
  OBVIOUS
<1>16. b \in S
  BY <1>2, <1>10, <1>15 DEF Linked
<1>17. PICK f, n : PathIn(S, next, b, ends, f, n)
  BY <1>14, <1>16, PathEnds
<1>18. /\ n \in Nat /\ f[0] = b /\ \A i \in 1 .. n : f[i] = next[f[i - 1]]
       /\ f[n] \in ends /\ \A i \in 0 .. n - 1 : f[i] \notin ends
       /\ \A i \in 0 .. n : f[i] \in S
  BY <1>17 DEF PathIn, Steps
<1>19. \A i \in 0 .. n - 1 : f[i] \in T /\ f[i] \in F /\ f[i] # End /\ i \in 0 .. n /\ i \in Nat
  <2> TAKE i \in 0 .. n - 1
  <2>1. i \in 0 .. n /\ i \in Nat
    BY <1>18
  <2>2. f[i] \in S /\ f[i] \notin ends
    BY <2>1, <1>18
  <2> QED BY <2>1, <2>2, <1>2, <1>8, <1>9
<1>20. n <= MaxBrk
  <2>1. \A i, j \in 0 .. n - 1 : f[i] = f[j] => i = j
    <3> TAKE i, j \in 0 .. n - 1
    <3>1. i \in 0 .. n /\ j \in 0 .. n /\ i \in Nat /\ j \in Nat /\ f[i] \in S /\ f[j] \in S
      BY <1>18, <1>19
    <3>2. (i < j => high[f[j]] < high[f[i]]) /\ (j < i => high[f[i]] < high[f[j]])
      BY <3>1, <1>14, <1>17, PathFalls
    <3>3. high[f[i]] \in Nat /\ high[f[j]] \in Nat
      BY <3>1, <1>13
    <3> QED BY <3>1, <3>2, <3>3
  <2>2. Injective(f, n, MaxBrk)
    BY <2>1, <1>7, <1>19 DEF Injective
  <2> QED BY <2>2, <1>6, <1>18, Pigeonhole
<1>21. PICK l : l = Chain(h, h.mem[x])
  OBVIOUS
<1>22. l = [i \in 1 .. n |-> f[i - 1]]
  <2>1. Path(next, b, ends) = [i \in 1 .. n |-> f[i - 1]]
    BY <1>17, <1>20, PathIs
  <2> QED BY <2>1, <1>3, <1>4, <1>15, <1>21 DEF Chain
<1>23. \A c \in T : \E i \in 0 .. n - 1 : f[i] = c
  <2> DEFINE Met(c) == \E i \in 0 .. n - 1 : f[i] = c
             Bad == {k \in 0 .. m : \E c \in T : rank[c] = k /\ ~Met(c)}
  <2> SUFFICES ASSUME NEW e \in T, ~Met(e) PROVE FALSE
    OBVIOUS
  <2>1. \A c \in T : rank[c] \in 0 .. m
    BY <1>9, <1>12
  <2>2. PICK k \in Bad : \A j \in Bad : j <= k
    <3>1. Bad \subseteq 0 .. m /\ Bad # {}
      BY <2>1
    <3> HIDE DEF Bad
    <3> QED BY <3>1, GreatestElement
  <2>3. PICK c \in T : rank[c] = k /\ ~Met(c)
    OBVIOUS
  <2>4. c \in F /\ HeadOf(h, c) = x /\ c \notin ends /\ c # End /\ rank[c] \in Nat
    BY <1>7, <1>9, <1>12
  <2>5. CASE h.mem[x] = c
    <3>1. f[0] = c /\ n # 0
      BY <2>4, <2>5, <1>15, <1>18
    <3>2. 0 \in 0 .. n - 1
      BY <3>1, <1>18
    <3> QED BY <2>3, <3>1, <3>2
  <2>6. CASE h.mem[x] # c
    <3>1. PICK p : p = h.mem[c]
      OBVIOUS
    <3>2. p \in F /\ HeadOf(h, p) = x /\ h.mem[p + 1] = c
      BY <2>4, <2>6, <3>1 DEF Linked
    <3>3. p \in T /\ rank[c] < rank[p] /\ rank[p] \in 0 .. m
      BY <2>1, <2>4, <3>2, <1>10, <1>11
    <3>4. Met(p)
      <4>1. ~(rank[p] <= k)
        BY <2>3, <2>4, <3>3
      <4>2. rank[p] \notin Bad
        BY <2>2, <4>1
      <4> HIDE DEF Met
      <4> QED BY <3>3, <4>2
    <3>5. PICK i \in 0 .. n - 1 : f[i] = p
      BY <3>4
    <3>6. i + 1 \in 1 .. n /\ i + 1 - 1 = i
      BY <1>18
    <3>7. f[i + 1] = c
      <4>1. f[i + 1] = next[f[i + 1 - 1]]
        BY <3>6, <1>18
      <4> QED BY <4>1, <3>2, <3>5, <3>6, <1>7
    <3>8. i + 1 # n
      BY <2>4, <3>7, <1>18
    <3>9. i + 1 \in 0 .. n - 1
      BY <3>6, <3>8, <1>18
    <3> QED BY <2>3, <3>7, <3>9
  <2> QED BY <2>5, <2>6
<1>24. ListOf(l, n, T)
  BY <1>18, <1>19, <1>22, <1>23, PathElems
<1>25. LinkedBack(h, l, n)
  <2> SUFFICES ASSUME NEW i \in 2 .. n PROVE h.mem[l[i]] = l[i - 1]
    BY DEF LinkedBack
  <2>1. i - 1 \in 0 .. n - 1 /\ i - 2 \in 0 .. n - 1 /\ i - 1 \in 1 .. n /\ i \in 1 .. n /\ i - 1 - 1 = i - 2
    BY <1>18
  <2>2. l[i] = f[i - 1] /\ l[i - 1] = f[i - 2]
    BY <2>1, <1>22
  <2>3. f[i - 1] = next[f[i - 2]]
    BY <2>1, <1>18
  <2>4. f[i - 2] \in T /\ f[i - 2] \in F /\ f[i - 1] # End
    BY <2>1, <1>19
  <2>5. f[i - 1] = h.mem[f[i - 2] + 1]
    BY <2>3, <2>4, <1>7
  <2> QED BY <2>2, <2>4, <2>5, <1>11
<1> QED BY <1>1, <1>21, <1>24, <1>25

-----------------------------------------------------------------------------
(* The least of a set of numbers is one of them. *)
LEMMA MinIs ==
  ASSUME NEW T \in SUBSET Nat, T # {}
  PROVE  Min(T) \in T
<1>1. PICK n \in T : \A m \in T : n <= m  BY LeastElement
<1>2. n \in T /\ \A m \in T : n =< m  BY <1>1
<1>. QED  BY <1>2 DEF Min

(* The lists hold every block of F that is large enough, and nothing else *)
(* that would be taken.                                                   *)
Covers(h, lists, asize, F) ==
  /\ DOMAIN lists \in SUBSET Nat /\ \A i \in DOMAIN lists : DOMAIN lists[i] \in SUBSET Nat
  /\ \A i \in DOMAIN lists : \A j \in DOMAIN lists[i] : Fits(h, lists[i][j], asize) => lists[i][j] \in F
  /\ \A b \in F : /\ asize <= Size(h, b) => Fits(h, b, asize) /\ \E i \in DOMAIN lists : b \in Elems(lists[i])
                  /\ Size(h, b) \in Int

(* f is a block of F that is large enough, if there is one. *)
Fitted(h, F, asize, f) ==
  \/ f \in F /\ asize <= Size(h, f)
  \/ f = NULL /\ \A b \in F : Size(h, b) < asize

(* find_fit takes the first block that fits of lists that hold them all. *)
LEMMA FitFound ==
  ASSUME NEW h, NEW asize \in Nat, NEW F, Covers(h, SearchLists(h, asize), asize, F)
  PROVE  Fitted(h, F, asize, find_fit(h, asize))
<1>1. PICK lists : lists = SearchLists(h, asize)  OBVIOUS
<1>2. PICK holding : holding = {i \in DOMAIN lists : Fitting(h, lists[i], asize) # {}}  OBVIOUS
<1>3. Covers(h, lists, asize, F)  BY <1>1
<1>4. CASE holding = {}
  <2>1. find_fit(h, asize) = NULL  BY <1>1, <1>2, <1>4 DEF find_fit
  <2>2. ASSUME NEW b \in F, asize <= Size(h, b)  PROVE FALSE
    <3>1. Fits(h, b, asize) /\ \E i \in DOMAIN lists : b \in Elems(lists[i])  BY <1>3, <2>2 DEF Covers
    <3>2. PICK i \in DOMAIN lists : b \in Elems(lists[i])  BY <3>1
    <3>3. PICK j \in DOMAIN lists[i] : lists[i][j] = b  BY <3>2 DEF Elems
    <3>4. j \in Fitting(h, lists[i], asize)  BY <3>1, <3>3 DEF Fitting
    <3>. QED  BY <3>2, <3>4, <1>2, <1>4
  <2>3. \A b \in F : Size(h, b) \in Int  BY <1>3 DEF Covers
  <2>. QED  BY <2>1, <2>2, <2>3 DEF Fitted
<1>5. CASE holding # {}
  <2>1. holding \in SUBSET Nat  BY <1>2, <1>3 DEF Covers
  <2>2. PICK i : i = Min(holding)  OBVIOUS
  <2>3. i \in holding  BY <2>1, <2>2, <1>5, MinIs
  <2>4. PICK fitting : fitting = Fitting(h, lists[i], asize)  OBVIOUS
  <2>5. fitting # {} /\ fitting \in SUBSET Nat  BY <2>3, <2>4, <1>2, <1>3 DEF Covers, Fitting
  <2>6. PICK j : j = Min(fitting)  OBVIOUS
  <2>7. j \in fitting  BY <2>5, <2>6, MinIs
  <2>8. find_fit(h, asize) = lists[i][j]  BY <1>1, <1>2, <1>5, <2>2, <2>4, <2>6 DEF find_fit
  <2>9. j \in DOMAIN lists[i] /\ Fits(h, lists[i][j], asize) /\ i \in DOMAIN lists
    BY <2>3, <2>4, <2>7, <1>2 DEF Fitting
  <2>10. lists[i][j] \in F  BY <2>9, <1>3 DEF Covers
  <2>11. asize <= Size(h, lists[i][j])  BY <2>9 DEF Fits, Size
  <2>. QED  BY <2>8, <2>10, <2>11 DEF Fitted
<1>. QED  BY <1>4, <1>5

(* nextfit comes past every block. *)
LEMMA CoversWalks ==
  ASSUME kind = "nextfit", NEW h, NEW B, Clean(h, B), NEW asize \in Nat, asize >= 4
  PROVE  Covers(h, SearchLists(h, asize), asize, FreeIn(h, B))
<1>1. PICK lists : lists = SearchLists(h, asize)  OBVIOUS
<1>2. lists = [round \in {1, 2} |-> SearchRound(h, round)]  BY <1>1 DEF SearchLists
<1>3. Tiled(h, B) /\ h.next_p \in B  BY DEF Clean
<1>4. heap_listp \in B  BY <1>3 DEF Tiled
<1>5. h.brk \in Nat /\ \A b \in B : b \in Nat /\ b >= heap_listp /\ b < h.brk
  BY <1>3, Bounds DEF heap_listp
<1>6. PICK n : ListOf(Walk(h, h.next_p, h.brk), n, Between(B, h.next_p, h.brk))  BY <1>3, <1>5, WalkIs
<1>7. PICK m : ListOf(Walk(h, heap_listp, h.next_p), m, Between(B, heap_listp, h.next_p))
  BY <1>3, <1>4, <1>5, WalkIs
<1>8. /\ DOMAIN lists = {1, 2} /\ lists[1] = Walk(h, h.next_p, h.brk)
      /\ lists[2] = Walk(h, heap_listp, h.next_p)
  BY <1>2 DEF SearchRound
<1>9. /\ ListOf(lists[1], n, Between(B, h.next_p, h.brk))
      /\ ListOf(lists[2], m, Between(B, heap_listp, h.next_p))
  BY <1>6, <1>7, <1>8
<1>10. \A i \in DOMAIN lists : DOMAIN lists[i] \in SUBSET Nat
  BY <1>8, <1>9 DEF ListOf
<1>11. ASSUME NEW i \in DOMAIN lists, NEW j \in DOMAIN lists[i]
       PROVE  lists[i][j] \in B
  <2>1. lists[i][j] \in Elems(lists[i])  BY DEF Elems
  <2>2. Elems(lists[i]) \subseteq B  BY <1>8, <1>9 DEF ListOf, Between
  <2>. QED  BY <2>1, <2>2
<1>12. ASSUME NEW b \in B, Fits(h, b, asize)  PROVE b \in FreeIn(h, B)
  BY <1>12 DEF Fits, FreeIn, Alloc
<1>13. ASSUME NEW b \in FreeIn(h, B)
       PROVE  /\ asize <= Size(h, b) => Fits(h, b, asize) /\ \E i \in DOMAIN lists : b \in Elems(lists[i])
              /\ Size(h, b) \in Int
  <2>1. b \in B /\ Alloc(h, b) = 0  BY DEF FreeIn
  <2>2. Size(h, b) \in Int  BY <1>3, <2>1, Bounds
  <2>3. \E i \in DOMAIN lists : b \in Elems(lists[i])
    <3>1. b \in Between(B, h.next_p, h.brk) \/ b \in Between(B, heap_listp, h.next_p)
      BY <1>3, <1>5, <2>1 DEF Between
    <3>. QED  BY <3>1, <1>8, <1>9 DEF ListOf
  <2>4. asize <= Size(h, b) => Fits(h, b, asize)  BY <2>1 DEF Fits, Size, Alloc
  <2>. QED  BY <2>2, <2>3, <2>4
<1>14. DOMAIN lists \in SUBSET Nat  BY <1>8
<1>15. \A i \in DOMAIN lists : \A j \in DOMAIN lists[i] :
         Fits(h, lists[i][j], asize) => lists[i][j] \in FreeIn(h, B)  BY <1>11, <1>12
<1>. QED  BY <1>1, <1>10, <1>13, <1>14, <1>15 DEF Covers

(* The lists hold every free block. *)
LEMMA CoversChains ==
  ASSUME kind \in {"explicit", "segregate"}, NEW h, NEW B, Clean(h, B), NEW asize \in Nat, asize >= 4
  PROVE  Covers(h, SearchLists(h, asize), asize, FreeIn(h, B))
<1>1. PICK lists : lists = SearchLists(h, asize)  OBVIOUS
<1>2. PICK F : F = FreeIn(h, B)  OBVIOUS
<1>3. Tiled(h, B) /\ Listed(h, F)  BY <1>2 DEF Clean
<1>4. Kind3  BY DEF Kind3
<1>5. Separate(F)  BY <1>2, <1>3, <1>4, Spread, FreeAre
<1>6. PICK rank, m : m \in Nat /\ (\A b \in F : rank[b] < m) /\ Linked(h, F, rank)
  BY <1>3 DEF Listed
<1>7. \A x \in ListHeads : \E n : ListOf(Chain(h, h.mem[x]), n, InList(h, F, x))
  <2>1. TAKE x \in ListHeads
  <2>. QED  BY <1>5, <1>6, ChainIs
<1>8. PICK I : I = {x - heap_listp : x \in ListHeads}  OBVIOUS
<1>9. ASSUME NEW i \in DOMAIN lists
      PROVE  \E x \in ListHeads : lists[i] = Chain(h, h.mem[x])
  <2>1. CASE kind = "explicit"
    <3>1. lists[i] = Chain(h, h.mem[heap_listp + 1])  BY <1>1, <1>9, <2>1 DEF SearchLists, NEX_EXPLICIT
    <3>. QED  BY <3>1, <2>1 DEF ListHeads
  <2>2. CASE kind = "segregate"
    <3>1. lists = [class \in findPosition(asize) .. Roots - 1 |-> Chain(h, h.mem[heap_listp + class])]
      BY <1>1, <2>2 DEF SearchLists
    <3>2. i \in findPosition(asize) .. Roots - 1 /\ lists[i] = Chain(h, h.mem[heap_listp + i])
      BY <3>1, <1>9
    <3>3. findPosition(asize) \in Nat  BY ClassIs
    <3>4. heap_listp + i \in ListHeads  BY <3>2, <3>3, <2>2, HeapAssumption DEF ListHeads, heap_listp
    <3>. QED  BY <3>2, <3>4
  <2>. QED  BY <2>1, <2>2
<1>10. ASSUME NEW i \in DOMAIN lists
       PROVE  DOMAIN lists[i] \in SUBSET Nat /\ Elems(lists[i]) \subseteq F
  <2>1. PICK x \in ListHeads : lists[i] = Chain(h, h.mem[x])  BY <1>9
  <2>2. PICK n : ListOf(lists[i], n, InList(h, F, x))  BY <2>1, <1>7
  <2>. QED  BY <2>2 DEF ListOf, InList
<1>11. DOMAIN lists \in SUBSET Nat
  <2>1. CASE kind = "explicit"
    BY <1>1, <2>1 DEF SearchLists
  <2>2. CASE kind = "segregate"
    <3>1. DOMAIN lists = findPosition(asize) .. Roots - 1  BY <1>1, <2>2 DEF SearchLists
    <3>2. findPosition(asize) \in Nat  BY ClassIs
    <3>. QED  BY <3>1, <3>2, HeapAssumption
  <2>. QED  BY <2>1, <2>2
<1>12. \A i \in DOMAIN lists : \A j \in DOMAIN lists[i] :
         Fits(h, lists[i][j], asize) => lists[i][j] \in F
  BY <1>10 DEF Elems
<1>13. ASSUME NEW b \in F
       PROVE  /\ asize <= Size(h, b) => Fits(h, b, asize) /\ \E i \in DOMAIN lists : b \in Elems(lists[i])
              /\ Size(h, b) \in Int
  <2>1. Size(h, b) \in Nat /\ Size(h, b) >= 4  BY <1>2, <1>3, FreeAre
  <2>2. ASSUME asize <= Size(h, b)  PROVE Fits(h, b, asize)
    BY <2>2 DEF Fits, Size
  <2>3. ASSUME asize <= Size(h, b)  PROVE \E i \in DOMAIN lists : b \in Elems(lists[i])
    <3>1. HeadOf(h, b) \in ListHeads /\ b \in InList(h, F, HeadOf(h, b))  BY <1>6 DEF Linked, InList
    <3>2. PICK n : ListOf(Chain(h, h.mem[HeadOf(h, b)]), n, InList(h, F, HeadOf(h, b)))  BY <1>7, <3>1
    <3>3. b \in Elems(Chain(h, h.mem[HeadOf(h, b)]))  BY <3>1, <3>2 DEF ListOf
    <3>4. CASE kind = "explicit"
      <4>1. DOMAIN lists = {1} /\ lists[1] = Chain(h, h.mem[heap_listp + 1])
        BY <1>1, <3>4 DEF SearchLists, NEX_EXPLICIT
      <4>. QED  BY <4>1, <3>3, <3>4 DEF HeadOf
    <3>5. CASE kind = "segregate"
      <4>1. PICK c : c = findPosition(Size(h, b))  OBVIOUS
      <4>2. HeadOf(h, b) = heap_listp + c  BY <3>5, <4>1 DEF HeadOf, Root, Size
      <4>3. c \in Nat /\ c <= Roots - 1  BY <4>1, <2>1, ClassIs
      <4>4. findPosition(asize) <= c  BY <4>1, <2>1, <2>3, ClassGrows
      <4>5. findPosition(asize) \in Nat  BY ClassIs
      <4>6. c \in findPosition(asize) .. Roots - 1  BY <4>3, <4>4, <4>5, LastClassIs
      <4>7. lists = [class \in findPosition(asize) .. Roots - 1 |-> Chain(h, h.mem[heap_listp + class])]
        BY <1>1, <3>5 DEF SearchLists
      <4>. QED  BY <4>2, <4>6, <4>7, <3>3
    <3>. QED  BY <3>4, <3>5
  <2>. QED  BY <2>1, <2>2, <2>3
<1>. QED  BY <1>1, <1>2, <1>10, <1>11, <1>12, <1>13 DEF Covers

(* find_fit finds a free block that is large enough, if there is one. *)
LEMMA Finds ==
  ASSUME Kind3, NEW h, NEW B, Clean(h, B), NEW asize \in Nat, asize >= 4
  PROVE  Fitted(h, FreeIn(h, B), asize, find_fit(h, asize))
<1>1. Covers(h, SearchLists(h, asize), asize, FreeIn(h, B))  BY CoversWalks, CoversChains DEF Kind3
<1>. QED  BY <1>1, FitFound

(* What mm_malloc makes of a heap when it does not fail. *)
Allocating(h, B, asize, g, C) ==
  /\ Clean(g, C) /\ g.bp \notin UsedIn(h, B) /\ g.bp \in Nat /\ g.bp > 2
  /\ UsedIn(g, C) = UsedIn(h, B) \cup {g.bp} /\ Size(g, g.bp) >= asize
  /\ Kept(h, g, UsedIn(h, B))
  /\ g.brk # h.brk => \A b \in FreeIn(h, B) : Size(h, b) < asize

(* What mm_malloc makes of a heap when it fails: no free block is large     *)
(* enough and extend_heap asks for more than there is.                     *)
Refusing(h, B, asize, g) ==
  /\ g = [h EXCEPT !.bp = NULL] /\ \A b \in FreeIn(h, B) : Size(h, b) < asize
  /\ h.brk + (IF asize > Chunk THEN asize ELSE Chunk) > MaxBrk

(* ALIGN leaves room for the header and the footer. *)
LEMMA AlignedIs ==
  ASSUME NEW n \in Nat \ {0}
  PROVE  Aligned(n) \in Nat /\ Aligned(n) % 2 = 0 /\ Aligned(n) >= 4 /\ Aligned(n) >= n + 2
BY DEF Aligned

(* mm_malloc leaves the heap as it is, for want of memory, or gives a block *)
(* that is large enough and was not in use.                                 *)
LEMMA Mallocs ==
  ASSUME Kind3, NEW h, NEW B, Clean(h, B), NEW n \in Nat \ {0}
  PROVE  \/ Refusing(h, B, Aligned(n), mm_malloc(h, n))
         \/ \E C : Allocating(h, B, Aligned(n), mm_malloc(h, n), C)
<1>1. PICK asize : asize = Aligned(n)  OBVIOUS
<1>2. asize \in Nat /\ asize % 2 = 0 /\ asize >= 4  BY <1>1, AlignedIs
<1>3. PICK fit : fit = find_fit(h, asize)  OBVIOUS
<1>4. Fitted(h, FreeIn(h, B), asize, fit)  BY <1>2, <1>3, Finds
<1>5. PICK words : words = IF asize > Chunk THEN asize ELSE Chunk  OBVIOUS
<1>6. words \in Nat /\ words % 2 = 0 /\ words >= 4 /\ words >= asize  BY <1>2, <1>5, HeapAssumption
<1>7. PICK ext : ext = extend_heap(h, words)  OBVIOUS
<1>8. mm_malloc(h, n) = IF fit # NULL THEN place(h, fit, asize)
                        ELSE IF ext.bp = NULL THEN ext ELSE place(ext, ext.bp, asize)
  BY <1>1, <1>3, <1>5, <1>7 DEF mm_malloc, PlaceExtended
<1>9. Tiled(h, B) /\ Typed(h)  BY DEF Clean, Tiled
<1>10. h.brk \in Nat /\ MaxBrk \in Nat  BY <1>9, HeapAssumption DEF Typed
<1>11. CASE fit # NULL
  <2>1. fit \in FreeIn(h, B) /\ asize <= Size(h, fit)  BY <1>4, <1>11 DEF Fitted
  <2>2. PICK C : Placing(h, B, fit, asize, place(h, fit, asize), C)  BY <1>2, <2>1, Places
  <2>3. Placing(h, B, fit, asize, mm_malloc(h, n), C)  BY <1>8, <1>11, <2>2
  <2>. QED  BY <1>1, <2>3 DEF Placing, Allocating
<1>12. CASE fit = NULL
  <2>1. \A b \in FreeIn(h, B) : Size(h, b) < asize
    <3>1. NULL \notin FreeIn(h, B)
      <4>1. \A b \in B : b >= 2  BY <1>9 DEF Tiled, heap_listp
      <4>. QED  BY <4>1 DEF FreeIn, NULL
    <3>. QED  BY <1>4, <1>12, <3>1 DEF Fitted
  <2>2. CASE h.brk + words > MaxBrk
    <3>1. ext = [h EXCEPT !.bp = NULL]  BY <1>7, <2>2, ExtendFails
    <3>2. ext.bp = NULL  BY <3>1, <1>9 DEF Typed
    <3>3. mm_malloc(h, n) = [h EXCEPT !.bp = NULL]  BY <3>1, <3>2, <1>8, <1>12
    <3>4. h.brk + (IF asize > Chunk THEN asize ELSE Chunk) > MaxBrk  BY <2>2, <1>5
    <3>. QED  BY <3>3, <3>4, <2>1, <1>1 DEF Refusing
  <2>3. CASE h.brk + words <= MaxBrk
    <3>1. PICK D : Extending(h, B, words, ext, D)  BY <1>6, <1>7, <2>3, Extends
    <3>2. /\ Clean(ext, D) /\ ext.bp \in FreeIn(ext, D) /\ Size(ext, ext.bp) >= words
          /\ UsedIn(ext, D) = UsedIn(h, B) /\ Kept(h, ext, UsedIn(h, B)) /\ ext.brk = h.brk + words
      BY <3>1 DEF Extending
    <3>3. ext.bp # NULL /\ Size(ext, ext.bp) \in Int
      <4>1. Tiled(ext, D) /\ ext.bp \in D  BY <3>2 DEF Clean, FreeIn
      <4>2. ext.bp >= 2 /\ ext.bp \in Nat /\ Size(ext, ext.bp) \in Int  BY <4>1, Bounds
      <4>. QED  BY <4>2 DEF NULL
    <3>4. asize <= Size(ext, ext.bp)  BY <1>2, <1>6, <3>2, <3>3
    <3>5. PICK C : Placing(ext, D, ext.bp, asize, place(ext, ext.bp, asize), C)  BY <1>2, <3>2, <3>4, Places
    <3>6. PICK g : g = mm_malloc(h, n)  OBVIOUS
    <3>7. Placing(ext, D, ext.bp, asize, g, C)  BY <1>8, <1>12, <3>3, <3>5, <3>6
    <3>8. Kept(ext, g, UsedIn(h, B))  BY <3>2, <3>7 DEF Placing
    <3>9. Kept(h, g, UsedIn(h, B))  BY <3>2, <3>8, KeptTrans
    <3>10. Allocating(h, B, asize, g, C)  BY <2>1, <3>2, <3>7, <3>9 DEF Placing, Allocating
    <3>. QED  BY <1>1, <3>6, <3>10
  <2>. QED  BY <1>6, <1>10, <2>2, <2>3
<1>. QED  BY <1>11, <1>12

(* What mm_free makes of a heap. *)
Freeing(h, B, bp, g, C) ==
  /\ Clean(g, C) /\ UsedIn(g, C) = UsedIn(h, B) \ {bp} /\ Kept(h, g, UsedIn(h, B) \ {bp}) /\ g.brk = h.brk

(* The block is free, but in no list yet. *)
LEMMA Untags ==
  ASSUME Kind3, NEW h, NEW B, Clean(h, B), NEW bp \in UsedIn(h, B), NEW g, g = Tag(h, bp, Size(h, bp), 0)
  PROVE  /\ Merging(g, B, bp) /\ UsedIn(g, B) = UsedIn(h, B) \ {bp} /\ g.brk = h.brk
         /\ Kept(h, g, UsedIn(h, B) \ {bp})
<1>1. bp \in B /\ bp # heap_listp /\ Alloc(h, bp) = 1  BY DEF UsedIn
<1>2. Tiled(h, B) /\ Listed(h, FreeIn(h, B))  BY DEF Clean
<1>3. PICK size : size = Size(h, bp)  OBVIOUS
<1>4. size \in Int /\ size % 2 = 0 /\ size >= 4 /\ bp \in Nat /\ bp + size \in B \cup {h.brk}
  <2>1. size \in Int /\ size % 2 = 0 /\ bp \in Nat  BY <1>1, <1>2, <1>3, Bounds
  <2>2. size >= 4 /\ bp + size \in B \cup {h.brk}  BY <1>1, <1>2, <1>3 DEF Tiled
  <2>. QED  BY <2>1, <2>2
<1>5. PICK r : r = bp + size  OBVIOUS
<1>6. r \in B \cup {h.brk} /\ bp < r /\ size = r - bp  BY <1>4, <1>5
<1>7. Around(B, bp, r) = B \ {bp}  BY <1>1, <1>2, <1>3, <1>5, AroundOne
<1>8. Retag(h, g, B, bp, r, size, 0)  BY <1>1, <1>2, <1>3, <1>4, <1>6, Retagged
<1>9. PICK F : F = FreeIn(h, B)  OBVIOUS
<1>10. bp \notin F  BY <1>1, <1>9 DEF FreeIn
<1>11. F \subseteq FreeIn(h, B) /\ F \subseteq Around(B, bp, r)  BY <1>7, <1>9, <1>10 DEF FreeIn
<1>12. Listed(g, F)  BY <1>1, <1>2, <1>3, <1>4, <1>6, <1>9, <1>11, Tagged
<1>13. (B \ {bp}) \cup {bp} = B  BY <1>1
<1>14. Tiled(g, B) /\ g.brk = h.brk /\ g.next_p = h.next_p /\ Alloc(g, bp) = 0 /\ Size(g, bp) = size
  BY <1>7, <1>8, <1>13 DEF Retag
<1>15. Alike(h, g, B \ {bp}) /\ Kept(h, g, B \ {bp})  BY <1>7, <1>8 DEF Retag
<1>16. \A b \in B \ {bp} : Size(g, b) = Size(h, b) /\ Alloc(g, b) = Alloc(h, b)  BY <1>15 DEF Alike
<1>17. FreeIn(g, B) = F \cup {bp}
  <2>1. PICK G : G = FreeIn(g, B)  OBVIOUS
  <2>2. \A b : b \in G <=> b \in B /\ Alloc(g, b) = 0  BY <2>1 DEF FreeIn
  <2>3. \A b : b \in F <=> b \in B /\ Alloc(h, b) = 0  BY <1>9 DEF FreeIn
  <2>4. \A b : b \in G <=> b \in F \cup {bp}  BY <2>2, <2>3, <1>16, <1>14, <1>1
  <2>. QED  BY <2>1, <2>4
<1>18. UsedIn(g, B) = UsedIn(h, B) \ {bp}
  <2>1. PICK U, V : U = UsedIn(g, B) /\ V = UsedIn(h, B)  OBVIOUS
  <2>2. \A b : b \in U <=> b \in B /\ b # heap_listp /\ Alloc(g, b) = 1  BY <2>1 DEF UsedIn
  <2>3. \A b : b \in V <=> b \in B /\ b # heap_listp /\ Alloc(h, b) = 1  BY <2>1 DEF UsedIn
  <2>4. \A b : b \in U <=> b \in V \ {bp}  BY <2>2, <2>3, <1>16, <1>14, <1>1
  <2>. QED  BY <2>1, <2>4
<1>19. FreeIn(g, B) \ {bp} = F  BY <1>10, <1>17
<1>20. \A b \in F : b + Size(g, b) \notin F
  <2>1. \A b \in F : b + Size(h, b) \notin F  BY <1>9 DEF Clean
  <2>2. \A b \in F : Size(g, b) = Size(h, b)  BY <1>16, <1>9, <1>10 DEF FreeIn
  <2>. QED  BY <2>1, <2>2
<1>21. kind = "nextfit" => g.next_p \in B  BY <1>14 DEF Clean
<1>22. bp \in FreeIn(g, B)  BY <1>17
<1>23. Merging(g, B, bp)  BY <1>12, <1>14, <1>19, <1>20, <1>21, <1>22 DEF Merging
<1>24. UsedIn(h, B) \ {bp} \subseteq B \ {bp}  BY DEF UsedIn
<1>25. Kept(h, g, UsedIn(h, B) \ {bp})  BY <1>15, <1>24, KeptLess
<1>. QED  BY <1>14, <1>18, <1>23, <1>25

(* mm_free leaves a clean heap without the block. *)
LEMMA Frees ==
  ASSUME Kind3, NEW h, NEW B, Clean(h, B), NEW bp \in UsedIn(h, B)
  PROVE  \E C : Freeing(h, B, bp, mm_free(h, bp), C)
<1>1. PICK g : g = Tag(h, bp, Size(h, bp), 0)  OBVIOUS
<1>2. /\ Merging(g, B, bp) /\ UsedIn(g, B) = UsedIn(h, B) \ {bp} /\ g.brk = h.brk
      /\ Kept(h, g, UsedIn(h, B) \ {bp})
  BY <1>1, Untags
<1>3. PICK k : k = coalesce_neighbours(g, bp)  OBVIOUS
<1>4. mm_free(h, bp) = k  BY <1>1, <1>3 DEF mm_free, coalesce, Kind3, Size
<1>5. PICK C : Coalescing(g, B, bp, k, C)  BY <1>2, <1>3, Coalesces
<1>6. Kept(g, k, UsedIn(h, B) \ {bp})  BY <1>2, <1>5 DEF Coalescing
<1>7. Kept(h, k, UsedIn(h, B) \ {bp})  BY <1>2, <1>6, KeptTrans
<1>8. Freeing(h, B, bp, k, C)  BY <1>2, <1>5, <1>7 DEF Coalescing, Freeing
<1>. QED  BY <1>4, <1>8

(* Only the result differs. *)
Resulting(h, g, B, b) ==
  /\ Typed(g) /\ g.bp = b /\ g.mem = h.mem /\ g.brk = h.brk /\ g.next_p = h.next_p
  /\ Clean(g, B) /\ Same(h, g, B)

(* Returning a block changes nothing. *)
LEMMA Results ==
  ASSUME Kind3, NEW h, NEW B, Clean(h, B), NEW b \in Nat
  PROVE  Resulting(h, [h EXCEPT !.bp = b], B, b)
<1>1. Tiled(h, B) /\ Listed(h, FreeIn(h, B))  BY DEF Clean
<1>2. Typed(h)  BY <1>1 DEF Tiled
<1>3. PICK g : g = [h EXCEPT !.bp = b]  OBVIOUS
<1>4. Typed(g) /\ g.mem = h.mem /\ g.brk = h.brk /\ g.next_p = h.next_p /\ g.bp = b
  BY <1>2, <1>3, ResultIs
<1>5. Same(h, g, B)  BY <1>1, <1>4, SameMemory
<1>6. Listed(g, FreeIn(h, B))  BY <1>1, <1>4, SameLists
<1>7. Clean(g, B)
  <2>1. Tiled(g, B) /\ FreeIn(g, B) = FreeIn(h, B)  BY <1>5 DEF Same
  <2>2. \A b1 \in FreeIn(h, B) : Size(g, b1) = Size(h, b1)  BY <1>5 DEF Same, FreeIn
  <2>. QED  BY <2>1, <2>2, <1>4, <1>6 DEF Clean
<1>. QED  BY <1>3, <1>4, <1>5, <1>7 DEF Resulting

(* Only what is in the block q differs. *)
Written(h, g, B, q) ==
  /\ Clean(g, B) /\ FreeIn(g, B) = FreeIn(h, B) /\ UsedIn(g, B) = UsedIn(h, B)
  /\ \A b \in B : Size(g, b) = Size(h, b)
  /\ Kept(h, g, UsedIn(h, B) \ {q})

(* What the client may write disturbs nothing. *)
LEMMA Writes ==
  ASSUME Kind3, NEW h, NEW B, Clean(h, B), NEW q \in UsedIn(h, B), NEW g, Typed(g), g.brk = h.brk,
         g.next_p = h.next_p, Unchanged(h, g, q .. q + Size(h, q) - 3)
  PROVE  Written(h, g, B, q)
<1>1. Tiled(h, B) /\ Listed(h, FreeIn(h, B))  BY DEF Clean
<1>2. q \in B /\ q # heap_listp /\ Alloc(h, q) = 1  BY DEF UsedIn
<1>3. PICK P : P = q .. q + Size(h, q) - 3  OBVIOUS
<1>4. \A x \in Addr \ P : g.mem[x] = h.mem[x]  BY <1>3 DEF Unchanged
<1>5. /\ q \in Nat /\ q >= 2 /\ Size(h, q) \in Int /\ q + Size(h, q) <= h.brk /\ h.brk \in Nat
      /\ h.brk - 1 \in Addr
  BY <1>1, <1>2, Bounds
<1>6. g.mem[h.brk - 1] = h.mem[h.brk - 1]
  <2>1. h.brk - 1 \notin P  BY <1>3, <1>5
  <2>. QED  BY <2>1, <1>4, <1>5
<1>7. ASSUME NEW b \in B
      PROVE  g.mem[b - 1] = h.mem[b - 1] /\ g.mem[b + Size(h, b) - 2] = h.mem[b + Size(h, b) - 2]
  <2>1. /\ b \in Nat /\ Size(h, b) \in Int /\ Size(h, b) >= 2
        /\ b - 1 \in Addr /\ b + Size(h, b) - 2 \in Addr
    BY <1>1, Bounds
  <2>2. b = q \/ b + Size(h, b) <= q \/ q + Size(h, q) <= b  BY <1>1, <1>2, Disjoint
  <2>3. b - 1 \notin P /\ b + Size(h, b) - 2 \notin P  BY <2>1, <2>2, <1>3, <1>5
  <2>. QED  BY <2>1, <2>3, <1>4
<1>8. /\ Tiled(g, B) /\ FreeIn(g, B) = FreeIn(h, B) /\ UsedIn(g, B) = UsedIn(h, B)
      /\ \A b \in B : Size(g, b) = Size(h, b) /\ Alloc(g, b) = Alloc(h, b)
  BY <1>1, <1>6, <1>7, SameTags
<1>9. PICK F : F = FreeIn(h, B)  OBVIOUS
<1>10. F \subseteq B \ {heap_listp} /\ q \notin F
  <2>1. F \subseteq B \ {heap_listp}  BY <1>1, <1>9, FreeAre
  <2>2. q \notin F  BY <1>2, <1>9 DEF FreeIn
  <2>. QED  BY <2>1, <2>2
<1>11. \A x \in Links(F) : g.mem[x] = h.mem[x]
  <2>1. TAKE x \in Links(F)
  <2>2. x \in Addr  BY <1>1, <1>10, LinksInside
  <2>3. x \notin P
    <3>1. \A y \in P : y \notin Links(F)
      <4>1. TAKE y \in P
      <4>2. y \in q .. q + Size(h, q) - 3  BY <1>3
      <4>. QED  BY <4>2, <1>1, <1>2, <1>10, PayloadWords
    <3>. QED  BY <3>1
  <2>. QED  BY <2>2, <2>3, <1>4
<1>12. \A b \in F : g.mem[b - 1] = h.mem[b - 1]  BY <1>7, <1>10
<1>13. kind # "buddy"  BY DEF Kind3
<1>14. Listed(g, F)  BY <1>1, <1>9, <1>11, <1>12, <1>13, SameLinks
<1>15. Clean(g, B)
  <2>1. \A b \in F : b + Size(g, b) \notin F
    <3>1. \A b \in F : b + Size(h, b) \notin F  BY <1>9 DEF Clean
    <3>. QED  BY <3>1, <1>8, <1>10
  <2>2. kind = "nextfit" => g.next_p \in B  BY DEF Clean
  <2>. QED  BY <2>1, <2>2, <1>8, <1>9, <1>14 DEF Clean
<1>16. Kept(h, g, UsedIn(h, B) \ {q})
  <2>1. SUFFICES ASSUME NEW b \in UsedIn(h, B) \ {q}
                 PROVE  Size(g, b) = Size(h, b) /\ \A x \in b .. b + Size(h, b) - 3 : g.mem[x] = h.mem[x]
    BY DEF Kept
  <2>2. b \in B /\ b # q  BY DEF UsedIn
  <2>3. /\ b \in Nat /\ Size(h, b) \in Int /\ Size(h, b) >= 2
        /\ b - 1 \in Addr /\ b + Size(h, b) - 2 \in Addr
    BY <2>2, <1>1, Bounds
  <2>4. b + Size(h, b) <= q \/ q + Size(h, q) <= b  BY <1>1, <1>2, <2>2, Disjoint
  <2>5. ASSUME NEW x \in b .. b + Size(h, b) - 3  PROVE g.mem[x] = h.mem[x]
    <3>1. x \notin P  BY <2>3, <2>4, <1>3, <1>5
    <3>2. x \in Addr  BY <2>3, HeapAssumption DEF Addr
    <3>. QED  BY <3>1, <3>2, <1>4
  <2>. QED  BY <2>2, <2>5, <1>8
<1>. QED  BY <1>8, <1>15, <1>16 DEF Written

(* What is in the block q is what was in p, as far as it fits. *)
Copied(h, g, p, q, n) == \A i \in 0 .. n - 1 : i <= Size(h, p) - 3 => g.mem[q + i] = h.mem[p + i]

(* memcpy into a block that is large enough stays within it. *)
LEMMA Copies ==
  ASSUME Kind3, NEW h, NEW B, Clean(h, B), NEW p \in UsedIn(h, B), NEW q \in UsedIn(h, B), p # q,
         NEW n \in Nat, Size(h, q) >= n + 2
  PROVE  LET g == Copy(h, p, q, n) IN
           Written(h, g, B, q) /\ Copied(h, g, p, q, n) /\ g.brk = h.brk /\ g.bp = h.bp
<1>1. PICK g : g = Copy(h, p, q, n)  OBVIOUS
<1>2. PICK size : size = IF n < Size(h, p) THEN n ELSE Size(h, p)  OBVIOUS
<1>3. Tiled(h, B) /\ p \in B /\ q \in B  BY DEF Clean, UsedIn
<1>4. Typed(h)  BY <1>3 DEF Tiled
<1>5. PICK new : new = [a \in Addr |-> IF a \in q .. q + size - 1 THEN h.mem[a - q + p] ELSE h.mem[a]]
  OBVIOUS
<1>6. g = [h EXCEPT !.mem = new]  BY <1>1, <1>2, <1>5 DEF Copy, Size
<1>7. /\ p \in Nat /\ p >= 2 /\ Size(h, p) \in Int /\ Size(h, p) >= 2 /\ p + Size(h, p) <= h.brk
      /\ h.brk \in Nat /\ h.brk <= MaxBrk /\ p + Size(h, p) - 2 \in Addr
  BY <1>3, Bounds
<1>8. /\ q \in Nat /\ q >= 2 /\ Size(h, q) \in Int /\ q + Size(h, q) <= h.brk
  BY <1>3, Bounds
<1>9. size \in Nat /\ size <= n /\ size <= Size(h, p)  BY <1>2, <1>7
<1>10. new \in [Addr -> Int]
  <2>1. \A a \in Addr : h.mem[a] \in Int  BY <1>4 DEF Typed
  <2>2. \A a \in Addr : a \in q .. q + size - 1 => a - q + p \in Addr
    BY <1>7, <1>8, <1>9, HeapAssumption DEF Addr
  <2>. QED  BY <2>1, <2>2, <1>5
<1>11. Typed(g) /\ g.brk = h.brk /\ g.next_p = h.next_p /\ g.bp = h.bp /\ g.mem = new
  BY <1>4, <1>6, <1>10 DEF Typed
<1>12. Unchanged(h, g, q .. q + Size(h, q) - 3)
  <2>1. SUFFICES ASSUME NEW x \in Addr, x \notin q .. q + Size(h, q) - 3  PROVE g.mem[x] = h.mem[x]
    BY DEF Unchanged
  <2>2. x \in Int  BY HeapAssumption DEF Addr
  <2>3. x \notin q .. q + size - 1  BY <2>1, <2>2, <1>8, <1>9
  <2>. QED  BY <2>3, <1>5, <1>11
<1>13. Written(h, g, B, q)  BY <1>11, <1>12, Writes
<1>14. Copied(h, g, p, q, n)
  <2>1. SUFFICES ASSUME NEW i \in 0 .. n - 1, i <= Size(h, p) - 3  PROVE g.mem[q + i] = h.mem[p + i]
    BY DEF Copied
  <2>2. i < size /\ q + i \in q .. q + size - 1 /\ (q + i) - q + p = p + i  BY <2>1, <1>2, <1>7, <1>8, <1>9
  <2>3. q + i \in Addr  BY <2>2, <1>7, <1>8, <1>9, HeapAssumption DEF Addr
  <2>. QED  BY <2>2, <2>3, <1>5, <1>11
<1>. QED  BY <1>1, <1>11, <1>13, <1>14

(* What mm_realloc makes of a heap when it does not fail. *)
Reallocating(h, B, p, n, g, C) ==
  /\ Clean(g, C) /\ g.bp \in Nat /\ g.bp > 2 /\ g.bp \notin UsedIn(h, B) \ {p}
  /\ UsedIn(g, C) = (UsedIn(h, B) \ {p}) \cup {g.bp} /\ Size(g, g.bp) >= Aligned(n)
  /\ Kept(h, g, UsedIn(h, B) \ {p}) /\ Copied(h, g, p, g.bp, n)
  /\ g.brk # h.brk => \A b \in FreeIn(h, B) : Size(h, b) < Aligned(n)

(* A copy stays where it is kept. *)
LEMMA CopiedKept ==
  ASSUME NEW h, NEW c, NEW g, NEW p, NEW q \in Nat, NEW n \in Nat, Copied(h, c, p, q, n),
         NEW U, Kept(c, g, U), q \in U, Size(c, q) \in Int, Size(c, q) >= n + 2
  PROVE  Copied(h, g, p, q, n)
<1>1. SUFFICES ASSUME NEW i \in 0 .. n - 1, i <= Size(h, p) - 3  PROVE g.mem[q + i] = h.mem[p + i]
  BY DEF Copied
<1>2. c.mem[q + i] = h.mem[p + i]  BY <1>1 DEF Copied
<1>3. q + i \in q .. q + Size(c, q) - 3  OBVIOUS
<1>4. g.mem[q + i] = c.mem[q + i]  BY <1>3 DEF Kept
<1>. QED  BY <1>2, <1>4

(* A copy of what is kept is a copy of what was there. *)
LEMMA KeptCopied ==
  ASSUME NEW h, NEW k, NEW c, NEW p \in Nat, NEW q, NEW n \in Nat, Copied(k, c, p, q, n),
         NEW U, Kept(h, k, U), p \in U, Size(h, p) \in Int
  PROVE  Copied(h, c, p, q, n)
<1>1. SUFFICES ASSUME NEW i \in 0 .. n - 1, i <= Size(h, p) - 3  PROVE c.mem[q + i] = h.mem[p + i]
  BY DEF Copied
<1>2. Size(k, p) = Size(h, p)  BY DEF Kept
<1>3. c.mem[q + i] = k.mem[p + i]  BY <1>1, <1>2 DEF Copied
<1>4. p + i \in p .. p + Size(h, p) - 3  BY <1>1
<1>5. k.mem[p + i] = h.mem[p + i]  BY <1>4 DEF Kept
<1>. QED  BY <1>3, <1>5

(* The realloc of most kinds: malloc, copy, free. *)
LEMMA Moves ==
  ASSUME Kind3, NEW h, NEW B, Clean(h, B), NEW p \in UsedIn(h, B), NEW n \in Nat \ {0}
  PROVE  \/ Moved(h, p, n) = [h EXCEPT !.bp = NULL]
         \/ \E C : Reallocating(h, B, p, n, Moved(h, p, n), C)
<1>1. PICK new : new = mm_malloc(h, n)  OBVIOUS
<1>2. CASE new = [h EXCEPT !.bp = NULL]
  <2>1. Typed(h)  BY DEF Clean, Tiled
  <2>2. new.bp = NULL  BY <2>1, <1>2 DEF Typed
  <2>3. Moved(h, p, n) = new  BY <1>1, <2>2 DEF Moved, MoveTo
  <2>. QED  BY <1>2, <2>3
<1>3. CASE \E C : Allocating(h, B, Aligned(n), new, C)
  <2>1. PICK D : Allocating(h, B, Aligned(n), new, D)  BY <1>3
  <2>2. PICK q : q = new.bp  OBVIOUS
  <2>3. /\ Clean(new, D) /\ q \notin UsedIn(h, B) /\ q \in Nat /\ q > 2
        /\ UsedIn(new, D) = UsedIn(h, B) \cup {q} /\ Size(new, q) >= Aligned(n)
        /\ Kept(h, new, UsedIn(h, B))
        /\ new.brk # h.brk => \A b \in FreeIn(h, B) : Size(h, b) < Aligned(n)
    BY <2>1, <2>2 DEF Allocating
  <2>4. p # q /\ p \in UsedIn(new, D) /\ q \in UsedIn(new, D)  BY <2>3
  <2>5. Aligned(n) >= n + 2 /\ Aligned(n) \in Nat /\ n \in Nat  BY AlignedIs
  <2>6. Size(new, q) \in Int
    <3>1. Tiled(new, D) /\ q \in D  BY <2>3, <2>4 DEF Clean, UsedIn
    <3>. QED  BY <3>1, Bounds
  <2>7. Size(new, q) >= n + 2  BY <2>3, <2>5, <2>6
  <2>8. PICK c : c = Copy(new, p, q, n)  OBVIOUS
  <2>9. Written(new, c, D, q) /\ Copied(new, c, p, q, n) /\ c.brk = new.brk
    <3>1. /\ Written(new, Copy(new, p, q, n), D, q) /\ Copied(new, Copy(new, p, q, n), p, q, n)
          /\ Copy(new, p, q, n).brk = new.brk
      <4>1. Clean(new, D)  BY <2>3
      <4>2. n \in Nat  OBVIOUS
      <4>. QED  BY <4>1, <4>2, <2>4, <2>7, Copies
    <3>. QED  BY <3>1, <2>8
  <2>10. /\ Clean(c, D) /\ UsedIn(c, D) = UsedIn(h, B) \cup {q} /\ Size(c, q) = Size(new, q)
         /\ Kept(new, c, UsedIn(new, D) \ {q})
    <3>1. q \in D  BY <2>4 DEF UsedIn
    <3>. QED  BY <3>1, <2>3, <2>9 DEF Written
  <2>11. p \in UsedIn(c, D)  BY <2>10
  <2>12. PICK k : k = mm_free(c, p)  OBVIOUS
  <2>13. PICK C : Freeing(c, D, p, k, C)  BY <2>10, <2>11, <2>12, Frees
  <2>14. /\ Clean(k, C) /\ UsedIn(k, C) = UsedIn(c, D) \ {p} /\ Kept(c, k, UsedIn(c, D) \ {p})
         /\ k.brk = c.brk
    BY <2>13 DEF Freeing
  <2>15. PICK g : g = [k EXCEPT !.bp = q]  OBVIOUS
  <2>16. Resulting(k, g, C, q)  BY <2>3, <2>14, <2>15, Results
  <2>17. /\ g.bp = q /\ g.mem = k.mem /\ g.brk = k.brk /\ Clean(g, C) /\ UsedIn(g, C) = UsedIn(k, C)
    BY <2>16 DEF Resulting, Same
  <2>18. Moved(h, p, n) = g
    <3>1. new.bp # NULL  BY <2>2, <2>3 DEF NULL
    <3>. QED  BY <3>1, <1>1, <2>2, <2>8, <2>12, <2>15 DEF Moved, MoveTo
  <2>19. UsedIn(g, C) = (UsedIn(h, B) \ {p}) \cup {q}  BY <2>4, <2>10, <2>14, <2>17
  <2>20. Kept(k, g, UsedIn(c, D) \ {p})  BY <2>17, KeptSame
  <2>21. Kept(c, g, UsedIn(c, D) \ {p})  BY <2>14, <2>20, KeptTrans
  <2>22. q \in UsedIn(c, D) \ {p}  BY <2>4, <2>10
  <2>23. Size(g, q) = Size(c, q)  BY <2>21, <2>22 DEF Kept
  <2>24. Kept(h, g, UsedIn(h, B) \ {p})
    <3>1. Kept(h, new, UsedIn(h, B) \ {p})  BY <2>3, KeptLess
    <3>2. UsedIn(h, B) \ {p} \subseteq UsedIn(new, D) \ {q}  BY <2>3
    <3>3. Kept(new, c, UsedIn(h, B) \ {p})  BY <2>10, <3>2, KeptLess
    <3>4. UsedIn(h, B) \ {p} \subseteq UsedIn(c, D) \ {p}  BY <2>10
    <3>5. Kept(c, g, UsedIn(h, B) \ {p})  BY <2>21, <3>4, KeptLess
    <3>6. Kept(h, c, UsedIn(h, B) \ {p})  BY <3>1, <3>3, KeptTrans
    <3>. QED  BY <3>5, <3>6, KeptTrans
  <2>25. Copied(h, g, p, q, n)
    <3>1. Size(h, p) \in Int /\ p \in Nat
      <4>1. Tiled(h, B) /\ p \in B  BY DEF Clean, UsedIn
      <4>. QED  BY <4>1, Bounds
    <3>2. Copied(h, c, p, q, n)  BY <3>1, <2>3, <2>5, <2>9, KeptCopied
    <3>3. Size(c, q) \in Int /\ Size(c, q) >= n + 2  BY <2>6, <2>7, <2>10
    <3>. QED  BY <3>2, <3>3, <2>3, <2>5, <2>21, <2>22, CopiedKept
  <2>26. g.brk = new.brk  BY <2>9, <2>14, <2>17
  <2>27. Reallocating(h, B, p, n, g, C)
    BY <2>3, <2>10, <2>17, <2>19, <2>23, <2>24, <2>25, <2>26 DEF Reallocating
  <2>. QED  BY <2>18, <2>27
<1>4. new = [h EXCEPT !.bp = NULL] \/ \E C : Allocating(h, B, Aligned(n), new, C)
  BY <1>1, Mallocs DEF Refusing
<1>. QED  BY <1>2, <1>3, <1>4

(* The block is large enough as it is. *)
LEMMA Stays ==
  ASSUME Kind3, NEW h, NEW B, Clean(h, B), NEW p \in UsedIn(h, B), NEW n \in Nat \ {0},
         Aligned(n) <= Size(h, p)
  PROVE  Reallocating(h, B, p, n, [h EXCEPT !.bp = p], B)
<1>1. Tiled(h, B) /\ p \in B /\ p # heap_listp  BY DEF Clean, UsedIn
<1>2. p \in Nat /\ p >= 2 /\ Size(h, p) \in Int  BY <1>1, Bounds
<1>3. PICK g : g = [h EXCEPT !.bp = p]  OBVIOUS
<1>4. Resulting(h, g, B, p)  BY <1>2, <1>3, Results
<1>5. /\ g.bp = p /\ g.mem = h.mem /\ g.brk = h.brk /\ Clean(g, B) /\ UsedIn(g, B) = UsedIn(h, B)
      /\ Size(g, p) = Size(h, p)
  BY <1>1, <1>4 DEF Resulting, Same
<1>6. Kept(h, g, UsedIn(h, B) \ {p})  BY <1>5, KeptSame
<1>7. Copied(h, g, p, p, n)  BY <1>5 DEF Copied
<1>8. p > 2  BY <1>1, <1>2 DEF heap_listp
<1>9. Size(g, p) >= Aligned(n)  BY <1>2, <1>5, AlignedIs
<1>10. UsedIn(g, B) = (UsedIn(h, B) \ {p}) \cup {p}  BY <1>5
<1>. QED  BY <1>2, <1>3, <1>5, <1>6, <1>7, <1>8, <1>9, <1>10 DEF Reallocating

(* A block grows over the free block after it. *)
LEMMA Grows ==
  ASSUME kind = "segregate", NEW h, NEW B, Clean(h, B), NEW p \in UsedIn(h, B), NEW n \in Nat \ {0},
         NEW next \in FreeIn(h, B), next = p + Size(h, p), Aligned(n) <= Size(h, p) + Size(h, next)
  PROVE  \E C : Reallocating(h, B, p, n, Grown(h, p, next), C)
<1>1. p \in B /\ p # heap_listp /\ Alloc(h, p) = 1 /\ next \in B /\ Alloc(h, next) = 0  BY DEF UsedIn, FreeIn
<1>2. Tiled(h, B) /\ Listed(h, FreeIn(h, B))  BY DEF Clean
<1>3. Kind3  BY DEF Kind3
<1>4. PICK F : F = FreeIn(h, B)  OBVIOUS
<1>5. PICK t : t = deleteExplicit(h, next)  OBVIOUS
<1>6. Same(h, t, B) /\ Listed(t, F \ {next})
  <2>1. F \subseteq FreeIn(h, B) /\ Listed(h, F) /\ next \in F  BY <1>2, <1>4
  <2>. QED  BY <2>1, <1>2, <1>3, <1>5, Taken
<1>7. /\ Tiled(t, B) /\ FreeIn(t, B) = F /\ UsedIn(t, B) = UsedIn(h, B) /\ t.brk = h.brk
      /\ \A b \in B : Size(t, b) = Size(h, b) /\ Alloc(t, b) = Alloc(h, b)
      /\ Kept(h, t, UsedIn(h, B))
  BY <1>4, <1>6 DEF Same
<1>8. /\ p \in Nat /\ Size(h, p) \in Int /\ Size(h, p) % 2 = 0 /\ Size(h, p) >= 2
  BY <1>1, <1>2, Bounds
<1>9. /\ Size(h, next) \in Int /\ Size(h, next) % 2 = 0 /\ Size(h, next) >= 2
  BY <1>1, <1>2, Bounds
<1>10. PICK size, r : size = Size(h, p) + Size(h, next) /\ r = next + Size(h, next)  OBVIOUS
<1>11. /\ size \in Int /\ size % 2 = 0 /\ r \in B \cup {t.brk} /\ p < r /\ size = r - p /\ r = p + size
       /\ next < r /\ r \in Int
  <2>1. r \in B \cup {h.brk}  BY <1>1, <1>2, <1>10 DEF Tiled
  <2>. QED  BY <2>1, <1>7, <1>8, <1>9, <1>10
<1>12. PICK g : g = Tag(t, p, size, 1)  OBVIOUS
<1>13. Retag(t, g, B, p, r, size, 1)  BY <1>1, <1>7, <1>11, <1>12, Retagged
<1>14. PICK C : C = Around(B, p, r) \cup {p}  OBVIOUS
<1>15. PICK O : O = Around(B, p, r)  OBVIOUS
<1>16. \A b : b \in O <=> b \in B /\ b # p /\ b # next
  <2>1. SUFFICES ASSUME NEW b \in B  PROVE b \in O <=> b # p /\ b # next
    BY <1>15 DEF Around
  <2>2. b \in Nat /\ Size(h, b) \in Int /\ Size(h, b) >= 2  BY <1>2, Bounds
  <2>3. b # p => b + Size(h, b) <= p \/ p + Size(h, p) <= b  BY <1>1, <1>2, Disjoint
  <2>4. b # next => b + Size(h, b) <= next \/ next + Size(h, next) <= b  BY <1>1, <1>2, Disjoint
  <2>5. b \in O <=> b < p \/ b >= r  BY <1>15 DEF Around
  <2>. QED  BY <2>2, <2>3, <2>4, <2>5, <1>8, <1>9, <1>10, <1>11
<1>17. /\ Typed(g) /\ g.brk = h.brk /\ Tiled(g, C) /\ Size(g, p) = size /\ Alloc(g, p) = 1
       /\ Unchanged(t, g, {p - 1, r - 2}) /\ Alike(t, g, O) /\ Kept(t, g, O)
  BY <1>7, <1>13, <1>14, <1>15 DEF Retag
<1>18. \A b \in O : Size(g, b) = Size(h, b) /\ Alloc(g, b) = Alloc(h, b)
  <2>1. TAKE b \in O
  <2>2. Size(g, b) = Size(t, b) /\ Alloc(g, b) = Alloc(t, b)  BY <1>17 DEF Alike
  <2>. QED  BY <2>2, <1>7, <1>16
<1>19. PICK E : E = F \ {next}  OBVIOUS
<1>20. E \subseteq FreeIn(t, B) /\ E \subseteq Around(B, p, r)
  <2>1. \A b \in E : b \in B /\ b # next /\ b # p  BY <1>1, <1>4, <1>19 DEF FreeIn
  <2>. QED  BY <2>1, <1>7, <1>15, <1>16, <1>19
<1>21. Listed(g, E)  BY <1>1, <1>3, <1>6, <1>7, <1>11, <1>12, <1>19, <1>20, Tagged
<1>22. FreeIn(g, C) = E
  <2>1. PICK G : G = FreeIn(g, C)  OBVIOUS
  <2>2. \A b : b \in G <=> b \in C /\ Alloc(g, b) = 0  BY <2>1 DEF FreeIn
  <2>3. \A b : b \in E <=> b \in B /\ Alloc(h, b) = 0 /\ b # next  BY <1>4, <1>19 DEF FreeIn
  <2>4. \A b : b \in C <=> b \in O \/ b = p  BY <1>14, <1>15
  <2>5. \A b : b \in G <=> b \in E  BY <2>2, <2>3, <2>4, <1>1, <1>16, <1>17, <1>18
  <2>. QED  BY <2>1, <2>5
<1>23. UsedIn(g, C) = UsedIn(h, B)
  <2>1. PICK U, V : U = UsedIn(g, C) /\ V = UsedIn(h, B)  OBVIOUS
  <2>2. \A b : b \in U <=> b \in C /\ b # heap_listp /\ Alloc(g, b) = 1  BY <2>1 DEF UsedIn
  <2>3. \A b : b \in V <=> b \in B /\ b # heap_listp /\ Alloc(h, b) = 1  BY <2>1 DEF UsedIn
  <2>4. \A b : b \in C <=> b \in O \/ b = p  BY <1>14, <1>15
  <2>5. \A b : b \in U <=> b \in V  BY <2>2, <2>3, <2>4, <1>1, <1>16, <1>17, <1>18
  <2>. QED  BY <2>1, <2>5
<1>24. Clean(g, C)
  <2>1. \A b \in E : b + Size(g, b) \notin E
    <3>1. TAKE b \in E
    <3>2. b \in F /\ b \in O  BY <1>15, <1>19, <1>20
    <3>3. b + Size(h, b) \notin F  BY <3>2, <1>4 DEF Clean
    <3>. QED  BY <3>2, <3>3, <1>18, <1>19
  <2>. QED  BY <2>1, <1>17, <1>21, <1>22 DEF Clean
<1>25. UsedIn(h, B) \ {p} \subseteq O
  <2>1. next \notin UsedIn(h, B)  BY <1>1 DEF UsedIn
  <2>2. UsedIn(h, B) \subseteq B  BY DEF UsedIn
  <2>. QED  BY <2>1, <2>2, <1>16
<1>26. Kept(h, g, UsedIn(h, B) \ {p})
  <2>1. Kept(h, t, UsedIn(h, B) \ {p})  BY <1>7, KeptLess
  <2>2. Kept(t, g, UsedIn(h, B) \ {p})  BY <1>17, <1>25, KeptLess
  <2>. QED  BY <2>1, <2>2, KeptTrans
<1>27. Copied(h, g, p, p, n)
  <2>1. SUFFICES ASSUME NEW i \in 0 .. n - 1, i <= Size(h, p) - 3  PROVE g.mem[p + i] = h.mem[p + i]
    BY DEF Copied
  <2>2. p + i \in p .. p + Size(h, p) - 3  BY <2>1, <1>8
  <2>3. t.mem[p + i] = h.mem[p + i]  BY <2>2, <1>7 DEF Kept
  <2>4. p + i # p - 1 /\ p + i # r - 2  BY <2>1, <1>8, <1>9, <1>11, <1>10
  <2>5. p + Size(h, p) - 2 \in Addr  BY <1>1, <1>2, Bounds
  <2>6. p + i \in Addr  BY <2>1, <2>5, <1>8, HeapAssumption DEF Addr
  <2>7. g.mem[p + i] = t.mem[p + i]  BY <2>4, <2>6, <1>17 DEF Unchanged
  <2>. QED  BY <2>3, <2>7
<1>28. PICK k : k = [g EXCEPT !.bp = p]  OBVIOUS
<1>29. Grown(h, p, next) = k  BY <1>5, <1>10, <1>12, <1>28 DEF Grown, Size
<1>30. Resulting(g, k, C, p)  BY <1>3, <1>8, <1>24, <1>28, Results
<1>31. /\ k.bp = p /\ k.mem = g.mem /\ k.brk = g.brk /\ Clean(k, C) /\ UsedIn(k, C) = UsedIn(g, C)
       /\ Size(k, p) = size
  <2>1. p \in C  BY <1>14
  <2>. QED  BY <2>1, <1>17, <1>30 DEF Resulting, Same
<1>32. Kept(g, k, UsedIn(h, B) \ {p})  BY <1>31, KeptSame
<1>33. Kept(h, k, UsedIn(h, B) \ {p})  BY <1>26, <1>32, KeptTrans
<1>34. Copied(h, k, p, p, n)  BY <1>27, <1>31 DEF Copied
<1>35. p > 2
  <2>1. p >= 2  BY <1>1, <1>2, Bounds
  <2>. QED  BY <2>1, <1>1, <1>8 DEF heap_listp
<1>36. UsedIn(k, C) = (UsedIn(h, B) \ {p}) \cup {p}  BY <1>23, <1>31
<1>37. Size(k, p) >= Aligned(n)  BY <1>10, <1>11, <1>31, AlignedIs
<1>38. k.brk = h.brk  BY <1>17, <1>31
<1>39. Reallocating(h, B, p, n, k, C)
  BY <1>8, <1>31, <1>33, <1>34, <1>35, <1>36, <1>37, <1>38 DEF Reallocating
<1>. QED  BY <1>29, <1>39

(* mm_realloc leaves the heap as it is or gives a block that holds what the *)
(* old one held.                                                            *)
LEMMA Reallocs ==
  ASSUME Kind3, NEW h, NEW B, Clean(h, B), NEW p \in UsedIn(h, B), NEW n \in Nat \ {0}
  PROVE  \/ mm_realloc(h, p, n) = [h EXCEPT !.bp = NULL]
         \/ \E C : Reallocating(h, B, p, n, mm_realloc(h, p, n), C)
<1>1. PICK next : next = NEXT_BLKP(h, p)  OBVIOUS
<1>2. Tiled(h, B) /\ p \in B  BY DEF Clean, UsedIn
<1>3. /\ next = p + Size(h, p) /\ GET_ALLOC(h, HDRP(next)) = Alloc(h, next)
      /\ GET_SIZE(h, HDRP(next)) = Size(h, next) /\ (Alloc(h, next) = 0 <=> next \in FreeIn(h, B))
  BY <1>1, <1>2, NextIs
<1>4. Size(h, p) \in Int /\ Aligned(n) \in Nat  BY <1>2, Bounds, AlignedIs
<1>5. CASE kind = "segregate" /\ Aligned(n) <= Size(h, p)
  <2>0. ~(Aligned(n) > Size(h, p))  BY <1>4, <1>5
  <2>1. mm_realloc(h, p, n) = [h EXCEPT !.bp = p]  BY <1>5, <2>0 DEF mm_realloc, Size
  <2>2. Reallocating(h, B, p, n, [h EXCEPT !.bp = p], B)  BY <1>5, Stays
  <2>. QED  BY <2>1, <2>2
<1>6. CASE /\ kind = "segregate" /\ Aligned(n) > Size(h, p) /\ Alloc(h, next) = 0
           /\ Aligned(n) <= Size(h, p) + Size(h, next)
  <2>1. ~(Aligned(n) <= Size(h, p))  BY <1>4, <1>6
  <2>2. mm_realloc(h, p, n) = Grown(h, p, next)  BY <1>1, <1>3, <1>6, <2>1 DEF mm_realloc, Size
  <2>3. \E C : Reallocating(h, B, p, n, Grown(h, p, next), C)  BY <1>3, <1>6, Grows
  <2>. QED  BY <2>2, <2>3
<1>7. CASE /\ ~(kind = "segregate" /\ Aligned(n) <= Size(h, p))
           /\ ~(/\ kind = "segregate" /\ Aligned(n) > Size(h, p) /\ Alloc(h, next) = 0
                /\ Aligned(n) <= Size(h, p) + Size(h, next))
  <2>1. mm_realloc(h, p, n) = Moved(h, p, n)  BY <1>1, <1>3, <1>7 DEF mm_realloc, Size
  <2>2. Moved(h, p, n) = [h EXCEPT !.bp = NULL] \/ \E C : Reallocating(h, B, p, n, Moved(h, p, n), C)
    BY Moves
  <2>. QED  BY <2>1, <2>2
<1>. QED  BY <1>5, <1>6, <1>7

-----------------------------------------------------------------------------
(* What is clean in a heap of this kind stays so in the next state. *)
LEMMA CleanNext ==
  ASSUME kind' = kind, NEW h, NEW B, Clean(h, B)
  PROVE  Clean(h, B)'
<1>1. Tiled(h, B)'
  <2>1. PrologueSize' = PrologueSize  BY DEF PrologueSize
  <2>2. Tiled(h, B)  BY DEF Clean
  <2>. QED  BY <2>1, <2>2 DEF Tiled
<1>2. Listed(h, FreeIn(h, B))'
  <2>1. PICK F : F = FreeIn(h, B)  OBVIOUS
  <2>2. ListHeads' = ListHeads /\ End' = End  BY DEF ListHeads, End
  <2>3. \A b : HeadOf(h, b)' = HeadOf(h, b)
    <3>1. LastClass' = LastClass  BY DEF LastClass
    <3>2. \A v : findPosition(v)' = findPosition(v)  BY <3>1 DEF findPosition
    <3>. QED  BY <3>2 DEF HeadOf, Root, GET_SIZE
  <2>4. ASSUME NEW rank, Linked(h, F, rank)  PROVE Linked(h, F, rank)'
    BY <2>2, <2>3, <2>4 DEF Linked
  <2>5. Listed(h, F)  BY <2>1 DEF Clean
  <2>6. Listed(h, F)'  BY <2>4, <2>5 DEF Listed
  <2>. QED  BY <2>1, <2>6
<1>3. (\A b \in FreeIn(h, B) : b + Size(h, b) \notin FreeIn(h, B))  BY DEF Clean
<1>4. kind' = "nextfit" => h.next_p \in B  BY DEF Clean
<1>. QED  BY <1>1, <1>2, <1>3, <1>4 DEF Clean

(* All that matters is the memory, its length and nextfit's pointer. *)
Standing(g, k, C) == Clean(k, C) /\ Same(g, k, C)

(* A clean heap stays clean when only what does not matter differs. *)
LEMMA Stands ==
  ASSUME Kind3, NEW g, NEW C, Clean(g, C), NEW k, Typed(k), k.mem = g.mem, k.brk = g.brk,
         kind = "nextfit" => k.next_p = g.next_p
  PROVE  Standing(g, k, C)
<1>1. Tiled(g, C) /\ Listed(g, FreeIn(g, C))  BY DEF Clean
<1>2. Same(g, k, C)  BY <1>1, SameMemory
<1>3. Listed(k, FreeIn(g, C))  BY <1>1, SameLists
<1>4. Tiled(k, C) /\ FreeIn(k, C) = FreeIn(g, C)  BY <1>2 DEF Same
<1>5. \A b \in FreeIn(g, C) : Size(k, b) = Size(g, b)  BY <1>2 DEF Same, FreeIn
<1>6. \A b \in FreeIn(g, C) : b + Size(g, b) \notin FreeIn(g, C)  BY DEF Clean
<1>7. kind = "nextfit" => k.next_p \in C  BY DEF Clean
<1>8. Clean(k, C)  BY <1>3, <1>4, <1>5, <1>6, <1>7 DEF Clean
<1>. QED  BY <1>2, <1>8 DEF Standing

(* The next state is what Set makes it. *)
BecomesOf(g, k, C) ==
  /\ Standing(g, k, C) /\ k.mem = g.mem /\ k.brk = g.brk
  /\ k = Heap' /\ kind' = kind

(* The state that Set makes of a clean heap is clean. *)
LEMMA Sets ==
  ASSUME Kind3, Typed(Heap), NEW g, NEW C, Clean(g, C), Set(g)
  PROVE  \E k : BecomesOf(g, k, C)
<1>1. mem' = g.mem /\ brk' = g.brk /\ kind' = kind
      /\ next_p' = IF kind = "nextfit" THEN g.next_p ELSE next_p
  BY DEF Set
<1>2. Typed(g)  BY DEF Clean, Tiled
<1>3. g.mem \in [Addr -> Int] /\ g.brk \in 0 .. MaxBrk /\ g.next_p \in Nat  BY <1>2 DEF Typed
<1>4. next_p \in Nat  BY DEF Typed, Heap
<1>5. PICK k : k = Heap'  OBVIOUS
<1>6. k = [mem |-> mem', brk |-> brk', next_p |-> next_p', bp |-> NULL]  BY <1>5 DEF Heap
<1>7. k.mem = g.mem /\ k.brk = g.brk /\ k.next_p = next_p'  BY <1>1, <1>6
<1>8. Typed(k)  BY <1>1, <1>3, <1>4, <1>6 DEF Typed, NULL
<1>9. kind = "nextfit" => k.next_p = g.next_p  BY <1>1, <1>7
<1>10. Standing(g, k, C)  BY <1>7, <1>8, <1>9, Stands
<1>. QED  BY <1>1, <1>5, <1>7, <1>10 DEF BecomesOf

(* The blocks in use are the client's, each with room for what it asked. *)
Served(h, B) ==
  /\ Clean(h, B) /\ DOMAIN live = UsedIn(h, B)
  /\ \A p \in DOMAIN live : live[p] \in Requests /\ live[p] + 2 <= Size(h, p)

(* A step to g that leaves the blocks U as they are. *)
Stepped(h, B, g, C, U) ==
  /\ g = Heap' /\ kind' = kind /\ Clean(g, C) /\ Kept(h, g, U) /\ U \subseteq UsedIn(h, B)

(* A step grows the heap only when no free block is large enough. *)
Needed(h, B, g, n) == g.brk # h.brk => \A b \in FreeIn(h, B) : Size(h, b) < Aligned(n)

MallocDone(h, B, g, C, n, q) ==
  /\ Stepped(h, B, g, C, UsedIn(h, B)) /\ q \notin UsedIn(h, B) /\ q \in Nat
  /\ UsedIn(g, C) = UsedIn(h, B) \cup {q} /\ Size(g, q) \in Int /\ Size(g, q) >= n + 2
  /\ live' = [p \in DOMAIN live \cup {q} |-> IF p = q THEN n ELSE live[p]]
  /\ Needed(h, B, g, n)

FreeDone(h, B, g, C, p) ==
  /\ Stepped(h, B, g, C, UsedIn(h, B) \ {p}) /\ UsedIn(g, C) = UsedIn(h, B) \ {p}
  /\ live' = [q \in DOMAIN live \ {p} |-> live[q]] /\ g.brk = h.brk

ReallocDone(h, B, g, C, p, n, q) ==
  /\ Stepped(h, B, g, C, UsedIn(h, B) \ {p}) /\ q \notin UsedIn(h, B) \ {p} /\ q \in Nat
  /\ UsedIn(g, C) = (UsedIn(h, B) \ {p}) \cup {q} /\ Size(g, q) \in Int /\ Size(g, q) >= n + 2
  /\ Copied(h, g, p, q, n)
  /\ live' = [b \in (DOMAIN live \ {p}) \cup {q} |-> IF b = q THEN n ELSE live[b]]
  /\ Needed(h, B, g, n)

(* A call that fails leaves everything as it is. *)
LEMMA Fails ==
  ASSUME NEW g, g = [Heap EXCEPT !.bp = NULL], Set(g), UNCHANGED live
  PROVE  UNCHANGED vars
<1>1. g.mem = mem /\ g.brk = brk /\ g.next_p = next_p  BY DEF Heap
<1>. QED  BY <1>1 DEF Set, vars

(* The steps, one by one. *)
LEMMA MallocStep ==
  ASSUME Kind3, NEW h, h = Heap, NEW B, Served(h, B), NEW n \in Requests, Malloc(n)
  PROVE  UNCHANGED vars \/ \E g, C, q : MallocDone(h, B, g, C, n, q)
<1>1. PICK m : m = mm_malloc(h, n)  OBVIOUS
<1>2. n \in Nat \ {0} /\ n \in Nat /\ Fill[n] \in Int  BY HeapAssumption
<1>3. Clean(h, B) /\ Typed(h)  BY DEF Served, Clean, Tiled
<1>4. m = [h EXCEPT !.bp = NULL] \/ \E C : Allocating(h, B, Aligned(n), m, C)
  BY <1>1, <1>2, <1>3, Mallocs DEF Refusing
<1>5. CASE m = [h EXCEPT !.bp = NULL]
  <2>1. m.bp = NULL  BY <1>3, <1>5 DEF Typed
  <2>2. Set(m) /\ UNCHANGED live  BY <1>1, <2>1 DEF Malloc, Allocated
  <2>. QED  BY <1>5, <2>2, Fails
<1>6. CASE \E C : Allocating(h, B, Aligned(n), m, C)
  <2>1. PICK C : Allocating(h, B, Aligned(n), m, C)  BY <1>6
  <2>2. PICK q : q = m.bp  OBVIOUS
  <2>3. /\ Clean(m, C) /\ q \notin UsedIn(h, B) /\ q \in Nat /\ q > 2
        /\ UsedIn(m, C) = UsedIn(h, B) \cup {q} /\ Size(m, q) >= Aligned(n)
        /\ Kept(h, m, UsedIn(h, B))
    BY <2>1, <2>2 DEF Allocating
  <2>4. Needed(h, B, m, n)  BY <2>1 DEF Allocating, Needed
  <2>5. PICK new : new = [a \in Addr |-> IF a \in q .. q + n - 1 THEN Fill[n] ELSE m.mem[a]]  OBVIOUS
  <2>6. PICK w : w = [m EXCEPT !.mem = new]  OBVIOUS
  <2>7. Set(w) /\ live' = [p \in DOMAIN live \cup {q} |-> IF p = q THEN n ELSE live[p]]
    <3>1. q # NULL  BY <2>3 DEF NULL
    <3>2. Given(Filled(m, n), n, {})  BY <1>1, <2>2, <3>1 DEF Malloc, Allocated
    <3>3. Filled(m, n) = w  BY <2>2, <2>5, <2>6 DEF Filled
    <3>4. w.bp = q  BY <2>2, <2>3, <2>6 DEF Clean, Tiled, Typed
    <3>5. (DOMAIN live \ {}) \cup {q} = DOMAIN live \cup {q}  OBVIOUS
    <3>. QED  BY <3>2, <3>3, <3>4, <3>5 DEF Given
  <2>8. Typed(m)  BY <2>3 DEF Clean, Tiled
  <2>9. /\ Typed(w) /\ w.brk = m.brk /\ w.next_p = m.next_p /\ w.mem = new
    <3>1. new \in [Addr -> Int]
      <4>1. \A a \in Addr : m.mem[a] \in Int  BY <2>8 DEF Typed
      <4>. QED  BY <4>1, <1>2, <2>5
    <3>. QED  BY <3>1, <2>6, <2>8 DEF Typed
  <2>10. Size(m, q) \in Int /\ q \in C
    <3>1. Tiled(m, C) /\ q \in C  BY <2>3 DEF Clean, UsedIn
    <3>. QED  BY <3>1, Bounds
  <2>11. Size(m, q) >= n + 2  BY <1>2, <2>3, <2>10, AlignedIs
  <2>12. Unchanged(m, w, q .. q + Size(m, q) - 3)
    <3>1. SUFFICES ASSUME NEW x \in Addr, x \notin q .. q + Size(m, q) - 3  PROVE w.mem[x] = m.mem[x]
      BY DEF Unchanged
    <3>2. x \in Int  BY HeapAssumption DEF Addr
    <3>3. x \notin q .. q + n - 1  BY <3>1, <3>2, <1>2, <2>3, <2>10, <2>11
    <3>. QED  BY <3>3, <2>5, <2>9
  <2>13. q \in UsedIn(m, C)  BY <2>3
  <2>14. Written(m, w, C, q)
    <3>1. Clean(m, C)  BY <2>3
    <3>. QED  BY <3>1, <2>9, <2>12, <2>13, Writes
  <2>15. /\ Clean(w, C) /\ UsedIn(w, C) = UsedIn(h, B) \cup {q} /\ Size(w, q) = Size(m, q)
         /\ Kept(m, w, UsedIn(m, C) \ {q})
    BY <2>3, <2>10, <2>14 DEF Written
  <2>16. Typed(Heap)  BY <1>3
  <2>17. PICK g : BecomesOf(w, g, C)  BY <2>7, <2>15, <2>16, Sets
  <2>18. /\ Clean(g, C) /\ UsedIn(g, C) = UsedIn(w, C) /\ Size(g, q) = Size(w, q)
         /\ g.mem = w.mem /\ g.brk = w.brk /\ g = Heap' /\ kind' = kind
    BY <2>10, <2>17 DEF BecomesOf, Standing, Same
  <2>19. Kept(h, g, UsedIn(h, B))
    <3>1. UsedIn(h, B) \subseteq UsedIn(m, C) \ {q}  BY <2>3
    <3>2. Kept(m, w, UsedIn(h, B))  BY <3>1, <2>15, KeptLess
    <3>3. Kept(w, g, UsedIn(h, B))  BY <2>18, KeptSame
    <3>4. Kept(h, w, UsedIn(h, B))  BY <2>3, <3>2, KeptTrans
    <3>. QED  BY <3>3, <3>4, KeptTrans
  <2>20. Needed(h, B, g, n)  BY <2>4, <2>9, <2>18 DEF Needed
  <2>21. Stepped(h, B, g, C, UsedIn(h, B))  BY <2>18, <2>19 DEF Stepped
  <2>22. Size(g, q) \in Int /\ Size(g, q) >= n + 2  BY <2>10, <2>11, <2>15, <2>18
  <2>23. UsedIn(g, C) = UsedIn(h, B) \cup {q}  BY <2>15, <2>18
  <2>24. MallocDone(h, B, g, C, n, q)
    BY <2>3, <2>7, <2>20, <2>21, <2>22, <2>23 DEF MallocDone
  <2>. QED  BY <2>24
<1>. QED  BY <1>4, <1>5, <1>6

LEMMA FreeStep ==
  ASSUME Kind3, NEW h, h = Heap, NEW B, Served(h, B), NEW p \in DOMAIN live, Free(p)
  PROVE  \E g, C : FreeDone(h, B, g, C, p)
<1>1. PICK m : m = mm_free(h, p)  OBVIOUS
<1>2. Clean(h, B) /\ Typed(h) /\ p \in UsedIn(h, B)  BY DEF Served, Clean, Tiled
<1>3. PICK C : Freeing(h, B, p, m, C)  BY <1>1, <1>2, Frees
<1>4. Clean(m, C) /\ UsedIn(m, C) = UsedIn(h, B) \ {p} /\ Kept(h, m, UsedIn(h, B) \ {p}) /\ m.brk = h.brk
  BY <1>3 DEF Freeing
<1>5. Set(m) /\ live' = [q \in DOMAIN live \ {p} |-> live[q]]  BY <1>1 DEF Free
<1>6. Typed(Heap)  BY <1>2
<1>7. PICK g : BecomesOf(m, g, C)  BY <1>4, <1>5, <1>6, Sets
<1>8. /\ Clean(g, C) /\ UsedIn(g, C) = UsedIn(m, C) /\ g.mem = m.mem /\ g.brk = m.brk
      /\ g = Heap' /\ kind' = kind
  BY <1>7 DEF BecomesOf, Standing, Same
<1>9. Kept(m, g, UsedIn(h, B) \ {p})  BY <1>8, KeptSame
<1>10. Kept(h, g, UsedIn(h, B) \ {p})  BY <1>4, <1>9, KeptTrans
<1>11. Stepped(h, B, g, C, UsedIn(h, B) \ {p})  BY <1>8, <1>10 DEF Stepped
<1>12. FreeDone(h, B, g, C, p)  BY <1>4, <1>5, <1>8, <1>11 DEF FreeDone
<1>. QED  BY <1>12

LEMMA ReallocStep ==
  ASSUME Kind3, NEW h, h = Heap, NEW B, Served(h, B), NEW p \in DOMAIN live, NEW n \in Requests,
         Realloc(p, n)
  PROVE  UNCHANGED vars \/ \E g, C, q : ReallocDone(h, B, g, C, p, n, q)
<1>1. PICK m : m = mm_realloc(h, p, n)  OBVIOUS
<1>2. n \in Nat \ {0} /\ n \in Nat  BY HeapAssumption
<1>3. Clean(h, B) /\ Typed(h) /\ p \in UsedIn(h, B)  BY DEF Served, Clean, Tiled
<1>4. m = [h EXCEPT !.bp = NULL] \/ \E C : Reallocating(h, B, p, n, m, C)
  BY <1>1, <1>2, <1>3, Reallocs
<1>5. CASE m = [h EXCEPT !.bp = NULL]
  <2>1. m.bp = NULL  BY <1>3, <1>5 DEF Typed
  <2>2. Set(m) /\ UNCHANGED live  BY <1>1, <2>1 DEF Realloc, Reallocated
  <2>. QED  BY <1>5, <2>2, Fails
<1>6. CASE \E C : Reallocating(h, B, p, n, m, C)
  <2>1. PICK C : Reallocating(h, B, p, n, m, C)  BY <1>6
  <2>2. PICK q : q = m.bp  OBVIOUS
  <2>3. /\ Clean(m, C) /\ q \in Nat /\ q > 2 /\ q \notin UsedIn(h, B) \ {p}
        /\ UsedIn(m, C) = (UsedIn(h, B) \ {p}) \cup {q} /\ Size(m, q) >= Aligned(n)
        /\ Kept(h, m, UsedIn(h, B) \ {p}) /\ Copied(h, m, p, q, n)
    BY <2>1, <2>2 DEF Reallocating
  <2>4. Needed(h, B, m, n)  BY <2>1 DEF Reallocating, Needed
  <2>5. Set(m) /\ live' = [b \in (DOMAIN live \ {p}) \cup {q} |-> IF b = q THEN n ELSE live[b]]
    <3>1. q # NULL  BY <2>3 DEF NULL
    <3>. QED  BY <1>1, <2>2, <3>1 DEF Realloc, Reallocated, Given
  <2>6. Size(m, q) \in Int /\ q \in C
    <3>1. Tiled(m, C) /\ q \in C  BY <2>3 DEF Clean, UsedIn
    <3>. QED  BY <3>1, Bounds
  <2>7. Size(m, q) >= n + 2  BY <1>2, <2>3, <2>6, AlignedIs
  <2>8. Typed(Heap)  BY <1>3
  <2>9. PICK g : BecomesOf(m, g, C)  BY <2>3, <2>5, <2>8, Sets
  <2>10. /\ Clean(g, C) /\ UsedIn(g, C) = UsedIn(m, C) /\ Size(g, q) = Size(m, q)
         /\ g.mem = m.mem /\ g.brk = m.brk /\ g = Heap' /\ kind' = kind
    BY <2>6, <2>9 DEF BecomesOf, Standing, Same
  <2>11. Kept(m, g, UsedIn(h, B) \ {p})  BY <2>10, KeptSame
  <2>12. Kept(h, g, UsedIn(h, B) \ {p})  BY <2>3, <2>11, KeptTrans
  <2>13. Stepped(h, B, g, C, UsedIn(h, B) \ {p})  BY <2>10, <2>12 DEF Stepped
  <2>14. Copied(h, g, p, q, n)  BY <2>3, <2>10 DEF Copied
  <2>15. Needed(h, B, g, n)  BY <2>4, <2>10 DEF Needed
  <2>16. Size(g, q) \in Int /\ Size(g, q) >= n + 2  BY <2>6, <2>7, <2>10
  <2>17. UsedIn(g, C) = (UsedIn(h, B) \ {p}) \cup {q}  BY <2>3, <2>10
  <2>18. ReallocDone(h, B, g, C, p, n, q)
    BY <2>3, <2>5, <2>13, <2>14, <2>15, <2>16, <2>17 DEF ReallocDone
  <2>. QED  BY <2>18
<1>. QED  BY <1>4, <1>5, <1>6

(* The heap mm_init starts from: the prologue and the empty lists. *)
LEMMA PrologueClean ==
  ASSUME Kind3
  PROVE  /\ Clean(Prologue, {heap_listp}) /\ UsedIn(Prologue, {heap_listp}) = {}
         /\ Prologue.brk + Chunk <= MaxBrk
<1>1. PICK h : h = Prologue  OBVIOUS
<1>2. PICK s : s = PrologueSize  OBVIOUS
<1>3. /\ s \in Nat /\ s >= 2 /\ s % 2 = 0 /\ s + 2 + Chunk <= MaxBrk /\ s + 2 <= MaxBrk
      /\ kind = "nextfit" => s = 2
      /\ kind = "explicit" => s = 4
      /\ kind = "segregate" => s = Roots + 2
  BY <1>2, HeapAssumption DEF PrologueSize, Kind3
<1>4. PICK m : m = [a \in Addr |->
        CASE a \in {1, s} -> PACK(s, 1)
          [] a = s + 1 -> PACK(0, 1)
          [] kind = "explicit" /\ a \in {2, 3} -> 5 - a
          [] OTHER -> 0]
  OBVIOUS
<1>5. PICK links : links = IF kind = "explicit" THEN [a \in {2, 3} |-> 5 - a] ELSE [a \in {} |-> NULL]
  OBVIOUS
<1>6. \A a : a \in DOMAIN links <=> kind = "explicit" /\ a \in {2, 3}  BY <1>5
<1>7. \A a \in DOMAIN links : links[a] = 5 - a  BY <1>5, <1>6
<1>8. PICK l : l = [a \in Addr |->
        CASE a \in {1, s} -> PACK(s, 1)
          [] a = s + 1 -> PACK(0, 1)
          [] a \in DOMAIN links -> links[a]
          [] OTHER -> 0]
  OBVIOUS
<1>9. h = [mem |-> l, brk |-> s + 2, next_p |-> heap_listp, bp |-> NULL]
  BY <1>1, <1>2, <1>5, <1>8 DEF Prologue
<1>10. /\ l[1] = s + 1 /\ l[s] = s + 1 /\ l[s + 1] = 1
       /\ \A a \in Addr : a \notin {1, s, s + 1} => l[a] = IF kind = "explicit" /\ a \in {2, 3} THEN 5 - a ELSE 0
  <2>1. 1 \in Addr /\ s \in Addr /\ s + 1 \in Addr  BY <1>3, HeapAssumption DEF Addr
  <2>2. s + 1 \notin {1, s} /\ PACK(s, 1) = s + 1 /\ PACK(0, 1) = 1  BY <1>3 DEF PACK
  <2>3. l[1] = s + 1 /\ l[s] = s + 1
    <3>1. 1 \notin DOMAIN links /\ s \notin DOMAIN links  BY <1>3, <1>6
    <3>2. 1 # s + 1 /\ s # s + 1  BY <1>3
    <3>. QED  BY <3>1, <3>2, <2>1, <2>2, <1>8
  <2>4. l[s + 1] = 1
    <3>1. s + 1 \notin DOMAIN links  BY <1>3, <1>6
    <3>. QED  BY <3>1, <2>1, <2>2, <1>8
  <2>5. ASSUME NEW a \in Addr, a \notin {1, s, s + 1}
        PROVE  l[a] = IF kind = "explicit" /\ a \in {2, 3} THEN 5 - a ELSE 0
    <3>1. CASE a \in DOMAIN links
      BY <2>5, <3>1, <1>6, <1>7, <1>8
    <3>2. CASE a \notin DOMAIN links
      BY <2>5, <3>2, <1>6, <1>8
    <3>. QED  BY <3>1, <3>2
  <2>. QED  BY <2>3, <2>4, <2>5
<1>11. h.mem = l /\ h.brk = s + 2 /\ h.next_p = 2 /\ h.bp = 0  BY <1>9 DEF heap_listp, NULL
<1>12. Typed(h)
  <2>1. ASSUME NEW a \in Addr  PROVE l[a] \in Int
    BY <1>3, <1>10
  <2>2. l \in [Addr -> Int]  BY <1>8, <2>1
  <2>3. s + 2 \in 0 .. MaxBrk  BY <1>3, HeapAssumption
  <2>. QED  BY <1>9, <2>2, <2>3 DEF Typed, heap_listp, NULL
<1>13. Size(h, 2) = s /\ Alloc(h, 2) = 1
  <2>1. h.mem[1] = PACK(s, 1)  BY <1>10, <1>11 DEF PACK
  <2>2. GET_SIZE(h, 1) = s /\ GET_ALLOC(h, 1) = 1  BY <2>1, <1>3, TagParts
  <2>. QED  BY <2>2 DEF Size, Alloc, HDRP
<1>14. Tiled(h, {2})
  <2>1. h.mem[h.brk - 1] = PACK(0, 1)  BY <1>3, <1>10, <1>11 DEF PACK
  <2>2. 2 + s - 2 = s /\ 2 - 1 = 1 /\ 2 + s = h.brk /\ 2 < h.brk  BY <1>3, <1>11
  <2>3. h.mem[2 + Size(h, 2) - 2] = h.mem[2 - 1]  BY <2>2, <1>10, <1>11, <1>13
  <2>4. \A b, c \in {2} : b < c => b + Size(h, b) <= c  OBVIOUS
  <2>5. \A c \in {2} \cup {h.brk} : c = 2 \/ \E b \in {2} : b + Size(h, b) = c  BY <2>2, <1>13
  <2>6. 2 + Size(h, 2) = h.brk /\ 2 + Size(h, 2) <= h.brk  BY <2>2, <1>13, <1>3, <1>11
  <2>. QED  BY <2>1, <2>2, <2>3, <2>4, <2>5, <2>6, <1>2, <1>3, <1>12, <1>13 DEF Tiled, heap_listp
<1>15. FreeIn(h, {2}) = {} /\ UsedIn(h, {2}) = {}  BY <1>13 DEF FreeIn, UsedIn, heap_listp
<1>16. Listed(h, {})
  <2>1. SUFFICES ASSUME kind # "nextfit"  PROVE \E rank, n : n \in Nat /\ (\A b \in {} : rank[b] < n) /\ Linked(h, {}, rank)
    BY DEF Listed
  <2>2. ASSUME NEW x \in ListHeads  PROVE h.mem[x] = End
    <3>1. CASE kind = "explicit"
      <4>1. x = 3 /\ End = 2  BY <2>2, <3>1 DEF ListHeads, End, heap_listp
      <4>2. 3 \in Addr  BY <1>3, <3>1, HeapAssumption DEF Addr
      <4>. QED  BY <4>1, <4>2, <3>1, <1>3, <1>10, <1>11
    <3>2. CASE kind = "segregate"
      <4>1. x \in 2 .. 2 + Roots - 1 /\ End = 0  BY <2>2, <3>2 DEF ListHeads, End, heap_listp, NULL
      <4>2. x \in Addr /\ x \notin {1, s, s + 1}  BY <4>1, <1>3, <3>2, HeapAssumption DEF Addr
      <4>. QED  BY <4>1, <4>2, <3>2, <1>10, <1>11
    <3>. QED  BY <2>1, <3>1, <3>2 DEF Kind3
  <2>3. PICK rank : rank = [b \in {} |-> 0]  OBVIOUS
  <2>4. Linked(h, {}, rank)  BY <2>2 DEF Linked
  <2>5. 0 \in Nat /\ \A b \in {} : rank[b] < 0  OBVIOUS
  <2>. QED  BY <2>4, <2>5
<1>17. Clean(h, {2})  BY <1>11, <1>14, <1>15, <1>16 DEF Clean
<1>18. h.brk + Chunk <= MaxBrk  BY <1>3, <1>11, HeapAssumption
<1>. QED  BY <1>1, <1>15, <1>17, <1>18 DEF heap_listp

(* The invariant: the heap is filled by blocks, no two free ones side by   *)
(* side, all free ones in their lists, and those in use are the client's.  *)
HeapInv == kind \in Kinds /\ (kind # "buddy" => \E h, B : h = Heap /\ Served(h, B))

(* mm_init establishes the invariant. *)
LEMMA HeapInit == Init => HeapInv
<1> SUFFICES ASSUME Init  PROVE HeapInv
  OBVIOUS
<1>1. kind \in Kinds  BY DEF Init
<1>2. ASSUME kind # "buddy"  PROVE \E h, B : h = Heap /\ Served(h, B)
  <2>1. Kind3  BY <1>1, <1>2, HeapAssumption DEF Kind3
  <2>2. PICK p : p = Prologue  OBVIOUS
  <2>3. Clean(p, {heap_listp}) /\ UsedIn(p, {heap_listp}) = {} /\ p.brk + Chunk <= MaxBrk
    BY <2>1, <2>2, PrologueClean
  <2>4. PICK g : g = extend_heap(p, Chunk)  OBVIOUS
  <2>5. Chunk \in Nat /\ Chunk % 2 = 0 /\ Chunk >= 4  BY HeapAssumption
  <2>6. PICK C : Extending(p, {heap_listp}, Chunk, g, C)  BY <2>1, <2>3, <2>4, <2>5, Extends
  <2>7. Clean(g, C) /\ UsedIn(g, C) = {}  BY <2>3, <2>6 DEF Extending
  <2>8. Typed(g)  BY <2>7 DEF Clean, Tiled
  <2>9. mem = g.mem /\ brk = g.brk /\ next_p = g.next_p /\ live = [q \in {} |-> 0]
    BY <2>2, <2>4 DEF Init
  <2>10. PICK h : h = Heap  OBVIOUS
  <2>11. h.mem = g.mem /\ h.brk = g.brk /\ h.next_p = g.next_p  BY <2>9, <2>10 DEF Heap
  <2>12. Typed(h)  BY <2>8, <2>9, <2>10 DEF Typed, Heap, NULL
  <2>13. Standing(g, h, C)  BY <2>1, <2>7, <2>11, <2>12, Stands
  <2>14. Clean(h, C) /\ UsedIn(h, C) = {}  BY <2>7, <2>13 DEF Standing, Same
  <2>15. Served(h, C)  BY <2>9, <2>14 DEF Served
  <2>. QED  BY <2>10, <2>15
<1>. QED  BY <1>1, <1>2 DEF HeapInv

(* A program has one allocator. *)
LEMMA KindStays ==
  ASSUME [Next]_vars
  PROVE  kind' = kind
<1>1. ASSUME NEW n \in Requests, Malloc(n)  PROVE kind' = kind
  BY <1>1 DEF Malloc, Allocated, Given, Set
<1>2. ASSUME NEW p \in DOMAIN live, Free(p)  PROVE kind' = kind
  BY <1>2 DEF Free, Set
<1>3. ASSUME NEW p \in DOMAIN live, NEW n \in Requests, Realloc(p, n)  PROVE kind' = kind
  BY <1>3 DEF Realloc, Reallocated, Given, Set
<1>. QED  BY <1>1, <1>2, <1>3 DEF Next, vars

(* What a step of the client may come to. *)
SomeMalloc(h, B) == \E n \in Requests : \E g, C, q : MallocDone(h, B, g, C, n, q)
SomeFree(h, B) == \E p \in DOMAIN live : \E g, C : FreeDone(h, B, g, C, p)
SomeRealloc(h, B) ==
  \E p \in DOMAIN live : \E n \in Requests : \E g, C, q : ReallocDone(h, B, g, C, p, n, q)

(* A step fails, or does one of these. *)
LEMMA Outcomes ==
  ASSUME Kind3, NEW h, h = Heap, NEW B, Served(h, B), [Next]_vars
  PROVE  UNCHANGED vars \/ SomeMalloc(h, B) \/ SomeFree(h, B) \/ SomeRealloc(h, B)
<1>1. ASSUME NEW n \in Requests, Malloc(n)  PROVE UNCHANGED vars \/ SomeMalloc(h, B)
  <2>1. UNCHANGED vars \/ \E g, C, q : MallocDone(h, B, g, C, n, q)  BY <1>1, MallocStep
  <2>. QED  BY <2>1 DEF SomeMalloc
<1>2. ASSUME NEW p \in DOMAIN live, Free(p)  PROVE SomeFree(h, B)
  <2>1. \E g, C : FreeDone(h, B, g, C, p)  BY <1>2, FreeStep
  <2>. QED  BY <2>1 DEF SomeFree
<1>3. ASSUME NEW p \in DOMAIN live, NEW n \in Requests, Realloc(p, n)
      PROVE  UNCHANGED vars \/ SomeRealloc(h, B)
  <2>1. UNCHANGED vars \/ \E g, C, q : ReallocDone(h, B, g, C, p, n, q)  BY <1>3, ReallocStep
  <2>. QED  BY <2>1 DEF SomeRealloc
<1>. QED  BY <1>1, <1>2, <1>3 DEF Next

(* The blocks that stay have their size. *)
LEMMA ServedAfter ==
  ASSUME NEW h, NEW B, Served(h, B), NEW g, NEW C, NEW U, Stepped(h, B, g, C, U),
         DOMAIN live' = UsedIn(g, C),
         \A p \in DOMAIN live' : \/ live'[p] \in Requests /\ live'[p] + 2 <= Size(g, p)
                                 \/ p \in U /\ live'[p] = live[p]
  PROVE  g = Heap' /\ Served(g, C)'
<1>1. g = Heap' /\ kind' = kind /\ Clean(g, C) /\ Kept(h, g, U) /\ U \subseteq UsedIn(h, B)
  BY DEF Stepped
<1>2. Clean(g, C)'  BY <1>1, CleanNext
<1>3. ASSUME NEW p \in DOMAIN live'  PROVE live'[p] \in Requests /\ live'[p] + 2 <= Size(g, p)
  <2>1. CASE p \in U /\ live'[p] = live[p]
    <3>1. Size(g, p) = Size(h, p)  BY <1>1, <2>1 DEF Kept
    <3>2. p \in DOMAIN live  BY <1>1, <2>1 DEF Served
    <3>3. live[p] \in Requests /\ live[p] + 2 <= Size(h, p)  BY <3>2 DEF Served
    <3>. QED  BY <2>1, <3>1, <3>3
  <2>. QED  BY <2>1
<1>. QED  BY <1>1, <1>2, <1>3 DEF Served

(* The invariant holds of the heap a step leaves. *)
LEMMA ServedNext ==
  ASSUME Kind3, NEW h, h = Heap, NEW B, Served(h, B), [Next]_vars
  PROVE  \E g, C : g = Heap' /\ Served(g, C)'
<1>1. DOMAIN live = UsedIn(h, B)  BY DEF Served
<1>2. CASE UNCHANGED vars
  <2>1. kind' = kind /\ live' = live /\ Heap' = Heap  BY <1>2 DEF vars, Heap
  <2>2. Clean(h, B)  BY DEF Served
  <2>3. Clean(h, B)'  BY <2>1, <2>2, CleanNext
  <2>4. Served(h, B)'  BY <2>1, <2>3 DEF Served
  <2>5. h = Heap'  BY <2>1
  <2>. QED  BY <2>4, <2>5
<1>3. CASE SomeMalloc(h, B)
  <2>1. PICK n \in Requests : \E g, C, q : MallocDone(h, B, g, C, n, q)  BY <1>3 DEF SomeMalloc
  <2>2. PICK g, C, q : MallocDone(h, B, g, C, n, q)  BY <2>1
  <2>3. /\ Stepped(h, B, g, C, UsedIn(h, B)) /\ q \notin UsedIn(h, B)
        /\ UsedIn(g, C) = UsedIn(h, B) \cup {q} /\ Size(g, q) \in Int /\ Size(g, q) >= n + 2
        /\ live' = [p \in DOMAIN live \cup {q} |-> IF p = q THEN n ELSE live[p]]
    BY <2>2 DEF MallocDone
  <2>4. DOMAIN live' = UsedIn(g, C)  BY <1>1, <2>3
  <2>5. n \in Int  BY HeapAssumption
  <2>6. \A p \in DOMAIN live' : \/ live'[p] \in Requests /\ live'[p] + 2 <= Size(g, p)
                                \/ p \in UsedIn(h, B) /\ live'[p] = live[p]
    <3>1. TAKE p \in DOMAIN live'
    <3>2. CASE p = q
      BY <2>3, <2>5, <3>2
    <3>3. CASE p # q
      BY <1>1, <2>3, <3>3
    <3>. QED  BY <3>2, <3>3
  <2>7. g = Heap' /\ Served(g, C)'  BY <2>3, <2>4, <2>6, ServedAfter
  <2>. QED  BY <2>7
<1>4. CASE SomeFree(h, B)
  <2>1. PICK p \in DOMAIN live : \E g, C : FreeDone(h, B, g, C, p)  BY <1>4 DEF SomeFree
  <2>2. PICK g, C : FreeDone(h, B, g, C, p)  BY <2>1
  <2>3. /\ Stepped(h, B, g, C, UsedIn(h, B) \ {p}) /\ UsedIn(g, C) = UsedIn(h, B) \ {p}
        /\ live' = [q \in DOMAIN live \ {p} |-> live[q]]
    BY <2>2 DEF FreeDone
  <2>4. DOMAIN live' = UsedIn(g, C)  BY <1>1, <2>3
  <2>5. \A q \in DOMAIN live' : q \in UsedIn(h, B) \ {p} /\ live'[q] = live[q]  BY <1>1, <2>3
  <2>6. g = Heap' /\ Served(g, C)'  BY <2>3, <2>4, <2>5, ServedAfter
  <2>. QED  BY <2>6
<1>5. CASE SomeRealloc(h, B)
  <2>1. PICK p \in DOMAIN live : \E n \in Requests : \E g, C, q : ReallocDone(h, B, g, C, p, n, q)
    BY <1>5 DEF SomeRealloc
  <2>2. PICK n \in Requests : \E g, C, q : ReallocDone(h, B, g, C, p, n, q)  BY <2>1
  <2>3. PICK g, C, q : ReallocDone(h, B, g, C, p, n, q)  BY <2>2
  <2>4. /\ Stepped(h, B, g, C, UsedIn(h, B) \ {p}) /\ q \notin UsedIn(h, B) \ {p}
        /\ UsedIn(g, C) = (UsedIn(h, B) \ {p}) \cup {q} /\ Size(g, q) \in Int /\ Size(g, q) >= n + 2
        /\ live' = [b \in (DOMAIN live \ {p}) \cup {q} |-> IF b = q THEN n ELSE live[b]]
    BY <2>3 DEF ReallocDone
  <2>5. DOMAIN live' = UsedIn(g, C)  BY <1>1, <2>4
  <2>6. n \in Int  BY HeapAssumption
  <2>7. \A b \in DOMAIN live' : \/ live'[b] \in Requests /\ live'[b] + 2 <= Size(g, b)
                                \/ b \in UsedIn(h, B) \ {p} /\ live'[b] = live[b]
    <3>1. TAKE b \in DOMAIN live'
    <3>2. CASE b = q
      BY <2>4, <2>6, <3>2
    <3>3. CASE b # q
      BY <1>1, <2>4, <3>3
    <3>. QED  BY <3>2, <3>3
  <2>8. g = Heap' /\ Served(g, C)'  BY <2>4, <2>5, <2>7, ServedAfter
  <2>. QED  BY <2>8
<1>. QED  BY <1>2, <1>3, <1>4, <1>5, Outcomes

(* Every step preserves the invariant. *)
LEMMA HeapStep == HeapInv /\ [Next]_vars => HeapInv'
<1> SUFFICES ASSUME HeapInv, [Next]_vars  PROVE HeapInv'
  OBVIOUS
<1>1. kind' = kind  BY KindStays
<1>2. kind \in Kinds  BY DEF HeapInv
<1>3. ASSUME kind # "buddy"  PROVE \E g, C : g = Heap' /\ Served(g, C)'
  <2>1. Kind3  BY <1>2, <1>3, HeapAssumption DEF Kind3
  <2>2. PICK h, B : h = Heap /\ Served(h, B)  BY <1>3 DEF HeapInv
  <2>. QED  BY <2>1, <2>2, ServedNext
<1>. QED  BY <1>1, <1>2, <1>3 DEF HeapInv

(* The heap keeps its shape, whatever the client asks for and frees. *)
THEOREM HeapKeepsItsShape == Spec => []HeapInv
<1>1. Init => HeapInv  BY HeapInit
<1>2. HeapInv /\ [Next]_vars => HeapInv'  BY HeapStep
<1>. QED  BY <1>1, <1>2, PTL DEF Spec

-----------------------------------------------------------------------------
(* The walk of the properties meets the blocks of the invariant. *)
LEMMA BlocksAre ==
  ASSUME NEW h, h = Heap, NEW B, Tiled(h, B)
  PROVE  Blocks = B \ {heap_listp} /\ FreeBlocks = FreeIn(h, B)
<1>1. heap_listp \in B /\ \A b \in B : b >= heap_listp  BY DEF Tiled
<1>2. h.brk = brk /\ h.brk \in Nat /\ \A b \in B : b \in Nat /\ b < h.brk /\ h.brk >= heap_listp
  BY <1>1, Bounds DEF Heap
<1>3. PICK n : ListOf(Walk(h, heap_listp, h.brk), n, Between(B, heap_listp, h.brk))  BY <1>1, <1>2, WalkIs
<1>4. Between(B, heap_listp, h.brk) = B  BY <1>1, <1>2 DEF Between
<1>5. Blocks = B \ {heap_listp}
  <2>1. Elems(Walk(h, heap_listp, h.brk)) = B  BY <1>3, <1>4 DEF ListOf
  <2>. QED  BY <2>1, <1>2 DEF Blocks
<1>6. FreeBlocks = FreeIn(h, B)
  <2>1. Alloc(h, heap_listp) = 1  BY DEF Tiled
  <2>2. \A b : b \in FreeBlocks <=> b \in B /\ b # heap_listp /\ Alloc(h, b) = 0  BY <1>5 DEF FreeBlocks, Alloc
  <2>3. \A b : b \in FreeIn(h, B) <=> b \in B /\ Alloc(h, b) = 0  BY DEF FreeIn
  <2>4. \A b : b \in FreeBlocks <=> b \in FreeIn(h, B)  BY <2>1, <2>2, <2>3
  <2>. QED  BY <2>4
<1>. QED  BY <1>5, <1>6

(* The invariant implies the properties. *)
LEMMA InvTags == HeapInv /\ kind # "buddy" => TagsConsistent
<1> SUFFICES ASSUME HeapInv, kind # "buddy"  PROVE TagsConsistent
  OBVIOUS
<1>1. PICK h, B : h = Heap /\ Served(h, B)  BY DEF HeapInv
<1>2. Clean(h, B) /\ Tiled(h, B) /\ DOMAIN live = UsedIn(h, B)  BY <1>1 DEF Served, Clean
<1>3. Blocks = B \ {heap_listp} /\ FreeBlocks = FreeIn(h, B)  BY <1>1, <1>2, BlocksAre
<1>4. h.mem = mem /\ h.brk = brk /\ h.next_p = next_p  BY <1>1 DEF Heap
<1>5. ASSUME NEW b \in Blocks  PROVE mem[HDRP(b)] = mem[FTRP(Heap, b)] /\ NEXT_BLKP(Heap, b) \in Blocks \cup {brk}
  <2>1. b \in B /\ b # heap_listp  BY <1>3
  <2>2. /\ b + Size(h, b) \in B \cup {h.brk} /\ h.mem[b + Size(h, b) - 2] = h.mem[b - 1]
        /\ b >= heap_listp
    BY <2>1, <1>2 DEF Tiled
  <2>3. b \in Nat /\ Size(h, b) \in Int /\ Size(h, b) >= 2  BY <2>1, <1>2, Bounds
  <2>4. FTRP(Heap, b) = b + Size(h, b) - 2 /\ NEXT_BLKP(Heap, b) = b + Size(h, b) /\ HDRP(b) = b - 1
    BY <1>1 DEF FTRP, NEXT_BLKP, HDRP, Size
  <2>5. b + Size(h, b) # heap_listp  BY <2>2, <2>3 DEF heap_listp
  <2>. QED  BY <2>2, <2>4, <2>5, <1>3, <1>4
<1>6. Blocks \ FreeBlocks = DOMAIN live
  <2>1. \A b \in B : Alloc(h, b) \in {0, 1}  BY <1>2, Bounds
  <2>2. \A b : b \in FreeIn(h, B) <=> b \in B /\ Alloc(h, b) = 0  BY DEF FreeIn
  <2>3. \A b : b \in UsedIn(h, B) <=> b \in B /\ b # heap_listp /\ Alloc(h, b) = 1  BY DEF UsedIn
  <2>4. \A b : b \in B \ {heap_listp} /\ b \notin FreeIn(h, B) <=> b \in UsedIn(h, B)  BY <2>1, <2>2, <2>3
  <2>. QED  BY <2>4, <1>2, <1>3
<1>7. kind = "nextfit" => next_p \in Blocks \cup {heap_listp}
  <2>1. kind = "nextfit" => h.next_p \in B  BY <1>2 DEF Clean
  <2>. QED  BY <2>1, <1>3, <1>4
<1>. QED  BY <1>5, <1>6, <1>7 DEF TagsConsistent

LEMMA InvCoalesced == HeapInv /\ kind # "buddy" => Coalesced
<1> SUFFICES ASSUME HeapInv, kind # "buddy"  PROVE Coalesced
  OBVIOUS
<1>1. PICK h, B : h = Heap /\ Served(h, B)  BY DEF HeapInv
<1>2. Clean(h, B) /\ Tiled(h, B)  BY <1>1 DEF Served, Clean
<1>3. FreeBlocks = FreeIn(h, B)  BY <1>1, <1>2, BlocksAre
<1>4. ASSUME NEW b \in FreeBlocks  PROVE NEXT_BLKP(Heap, b) \notin FreeBlocks
  <2>1. b \in FreeIn(h, B)  BY <1>3
  <2>2. b + Size(h, b) \notin FreeIn(h, B)  BY <2>1, <1>2 DEF Clean
  <2>3. NEXT_BLKP(Heap, b) = b + Size(h, b)  BY <1>1 DEF NEXT_BLKP, Size
  <2>. QED  BY <2>2, <2>3, <1>3
<1>. QED  BY <1>4 DEF Coalesced

LEMMA InvPayloads == HeapInv /\ kind # "buddy" => PayloadsDisjoint
<1> SUFFICES ASSUME HeapInv, kind # "buddy"  PROVE PayloadsDisjoint
  OBVIOUS
<1>1. PICK h, B : h = Heap /\ Served(h, B)  BY DEF HeapInv
<1>2. Tiled(h, B) /\ DOMAIN live = UsedIn(h, B)  BY <1>1 DEF Served, Clean
<1>3. ASSUME NEW p \in DOMAIN live
      PROVE  p \in B /\ p \in Nat /\ Size(h, p) \in Int /\ live[p] \in Int /\ live[p] + 2 <= Size(h, p)
  <2>1. p \in B  BY <1>2 DEF UsedIn
  <2>2. live[p] \in Requests /\ live[p] + 2 <= Size(h, p)  BY <1>1 DEF Served
  <2>3. live[p] \in Int
    <3>1. \A n \in Requests : n \in Int  BY HeapAssumption
    <3>. QED  BY <3>1, <2>2
  <2>. QED  BY <2>1, <2>2, <2>3, <1>2, Bounds
<1>4. ASSUME NEW p \in DOMAIN live, NEW q \in DOMAIN live, p # q
      PROVE  (p .. p + live[p] - 1) \cap (q .. q + live[q] - 1) = {}
  <2>1. p \in B /\ p \in Nat /\ Size(h, p) \in Int /\ live[p] \in Int /\ live[p] + 2 <= Size(h, p)  BY <1>3
  <2>2. q \in B /\ q \in Nat /\ Size(h, q) \in Int /\ live[q] \in Int /\ live[q] + 2 <= Size(h, q)  BY <1>3
  <2>3. p + Size(h, p) <= q \/ q + Size(h, q) <= p  BY <1>2, <1>4, <2>1, <2>2, Disjoint
  <2>. QED  BY <2>1, <2>2, <2>3
<1>. QED  BY <1>4 DEF PayloadsDisjoint

(* A chain is a sequence. *)
LEMMA ChainSeq ==
  ASSUME NEW h, NEW b, NEW n, NEW S, ListOf(Chain(h, b), n, S)
  PROVE  Len(Chain(h, b)) = n
<1>1. PICK l : l = Chain(h, b)  OBVIOUS
<1>2. l = [i \in DOMAIN l |-> l[i]]  BY <1>1 DEF Chain, Path
<1>3. n \in Nat /\ DOMAIN l = 1 .. n /\ Elems(l) = S  BY <1>1 DEF ListOf
<1>4. \A i \in 1 .. n : l[i] \in S  BY <1>3 DEF Elems
<1>5. l \in [1 .. n -> S]  BY <1>2, <1>3, <1>4
<1>6. l \in Seq(S)  BY <1>3, <1>5
<1>7. Len(l) \in Nat /\ DOMAIN l = 1 .. Len(l)  BY <1>6
<1>8. Len(l) = n
  <2>1. 1 .. n = 1 .. Len(l)  BY <1>3, <1>7
  <2>. QED  BY <2>1, <1>3, <1>7
<1>. QED  BY <1>1, <1>8

(* The list with head x holds the blocks of its class and links back. *)
Exact(h, F, x) ==
  /\ Elems(Chain(h, h.mem[x])) = InList(h, F, x)
  /\ LinkedBack(h, Chain(h, h.mem[x]), Len(Chain(h, h.mem[x])))

(* Every list of a clean heap is exact. *)
LEMMA ChainsExact ==
  ASSUME kind \in {"explicit", "segregate"}, NEW h, NEW B, Clean(h, B), NEW x \in ListHeads
  PROVE  Exact(h, FreeIn(h, B), x) /\ \A b \in FreeIn(h, B) : HeadOf(h, b) \in ListHeads
<1>1. PICK F : F = FreeIn(h, B)  OBVIOUS
<1>2. Tiled(h, B) /\ Listed(h, F)  BY <1>1 DEF Clean
<1>3. Kind3  BY DEF Kind3
<1>4. Separate(F)  BY <1>1, <1>2, <1>3, Spread, FreeAre
<1>5. PICK rank, m : m \in Nat /\ (\A b \in F : rank[b] < m) /\ Linked(h, F, rank)
  BY <1>2 DEF Listed
<1>6. PICK n : ListOf(Chain(h, h.mem[x]), n, InList(h, F, x)) /\ LinkedBack(h, Chain(h, h.mem[x]), n)
  BY <1>4, <1>5, ChainIs
<1>7. Len(Chain(h, h.mem[x])) = n  BY <1>6, ChainSeq
<1>8. Exact(h, F, x)  BY <1>6, <1>7 DEF Exact, ListOf
<1>9. \A b \in F : HeadOf(h, b) \in ListHeads  BY <1>5 DEF Linked
<1>. QED  BY <1>1, <1>8, <1>9

LEMMA InvLists == HeapInv /\ kind # "buddy" => ListsExact
<1> SUFFICES ASSUME HeapInv, kind # "buddy"  PROVE ListsExact
  OBVIOUS
<1>1. PICK h, B : h = Heap /\ Served(h, B)  BY DEF HeapInv
<1>2. Clean(h, B) /\ Tiled(h, B)  BY <1>1 DEF Served, Clean
<1>3. FreeBlocks = FreeIn(h, B)  BY <1>1, <1>2, BlocksAre
<1>4. kind \in {"nextfit", "explicit", "segregate"}  BY HeapAssumption DEF HeapInv
<1>5. h.mem = mem  BY <1>1 DEF Heap
<1>6. PICK F : F = FreeIn(h, B)  OBVIOUS
<1>7. CASE kind = "nextfit"
  <2>1. Lists = {}  BY <1>7 DEF Lists
  <2>. QED  BY <2>1, <1>7 DEF ListsExact
<1>8. CASE kind \in {"explicit", "segregate"}
  <2>1. Lists = {Chain(h, h.mem[x]) : x \in ListHeads}
    <3>1. CASE kind = "explicit"
      <4>1. Lists = {Chain(h, h.mem[heap_listp + 1])}  BY <3>1, <1>1, <1>5 DEF Lists, NEX_EXPLICIT
      <4>. QED  BY <4>1, <3>1 DEF ListHeads
    <3>2. CASE kind = "segregate"
      <4>1. Lists = {Chain(h, h.mem[heap_listp + c]) : c \in 0 .. Roots - 1}  BY <3>2, <1>1, <1>5 DEF Lists
      <4>2. ListHeads = 2 .. 2 + Roots - 1 /\ Roots \in Nat  BY <3>2, HeapAssumption DEF ListHeads, heap_listp
      <4>3. \A x \in ListHeads : x - 2 \in 0 .. Roots - 1 /\ heap_listp + (x - 2) = x  BY <4>2 DEF heap_listp
      <4>4. \A c \in 0 .. Roots - 1 : heap_listp + c \in ListHeads  BY <4>2 DEF heap_listp
      <4>5. \A l : l \in Lists <=> \E c \in 0 .. Roots - 1 : l = Chain(h, h.mem[heap_listp + c])  BY <4>1
      <4>6. \A l : l \in Lists <=> \E x \in ListHeads : l = Chain(h, h.mem[x])  BY <4>3, <4>4, <4>5
      <4>. QED  BY <4>6
    <3>. QED  BY <1>8, <3>1, <3>2
  <2>2. \A x \in ListHeads : Exact(h, F, x)
    <3>1. TAKE x \in ListHeads
    <3>. QED  BY <1>2, <1>6, <1>8, ChainsExact
  <2>3. \A b \in F : HeadOf(h, b) \in ListHeads
    <3>1. \E x : x \in ListHeads  BY <1>8, HeapAssumption DEF ListHeads, heap_listp
    <3>. QED  BY <3>1, <1>2, <1>6, <1>8, ChainsExact
  <2>4. FreeBlocks = UNION {Elems(l) : l \in Lists}
    <3>1. ASSUME NEW b \in F  PROVE \E l \in Lists : b \in Elems(l)
      <4>1. HeadOf(h, b) \in ListHeads /\ b \in InList(h, F, HeadOf(h, b))  BY <2>3 DEF InList
      <4>2. b \in Elems(Chain(h, h.mem[HeadOf(h, b)]))  BY <4>1, <2>2 DEF Exact
      <4>. QED  BY <4>1, <4>2, <2>1
    <3>2. ASSUME NEW l \in Lists, NEW b \in Elems(l)  PROVE b \in F
      <4>1. PICK x \in ListHeads : l = Chain(h, h.mem[x])  BY <2>1
      <4>2. Elems(l) = InList(h, F, x)  BY <4>1, <2>2 DEF Exact
      <4>. QED  BY <4>2, <3>2 DEF InList
    <3>. QED  BY <3>1, <3>2, <1>3, <1>6
  <2>5. ASSUME NEW l \in Lists, NEW i \in 2 .. Len(l)  PROVE PRE_EXPLICIT(Heap, l[i]) = l[i - 1]
    <3>1. PICK x \in ListHeads : l = Chain(h, h.mem[x])  BY <2>1
    <3>2. LinkedBack(h, l, Len(l))  BY <3>1, <2>2 DEF Exact
    <3>. QED  BY <3>2, <1>1 DEF LinkedBack, PRE_EXPLICIT
  <2>6. ASSUME kind = "segregate", NEW c \in 0 .. Roots - 1, NEW b \in Elems(Chain(Heap, mem[heap_listp + c]))
        PROVE  Root(Heap, b) = heap_listp + c
    <3>1. heap_listp + c \in ListHeads  BY <2>6, HeapAssumption DEF ListHeads, heap_listp
    <3>2. b \in InList(h, F, heap_listp + c)  BY <3>1, <2>2, <1>1, <1>5 DEF Exact
    <3>. QED  BY <3>2, <2>6, <1>1 DEF InList, HeadOf
  <2>. QED  BY <2>4, <2>5, <2>6 DEF ListsExact
<1>. QED  BY <1>4, <1>7, <1>8

(* All but mm.c, whose blocks may be smaller than what was asked for. *)
NoBuddy == kind # "buddy"

(* The invariant and the kind are preserved together. *)
LEMMA NoBuddyStep == HeapInv /\ NoBuddy /\ [Next]_vars => HeapInv' /\ NoBuddy'
<1> SUFFICES ASSUME HeapInv, NoBuddy, [Next]_vars  PROVE HeapInv' /\ NoBuddy'
  OBVIOUS
<1>1. HeapInv'  BY HeapStep
<1>2. kind' = kind  BY KindStays
<1>. QED  BY <1>1, <1>2 DEF NoBuddy

(* The boundary tags always agree, from block to block one gets exactly to *)
(* the end of the heap, and the blocks in use are the client's.            *)
THEOREM TagsAlwaysConsistent == Spec /\ kind # "buddy" => []TagsConsistent
<1>1. Init /\ kind # "buddy" => HeapInv /\ NoBuddy  BY HeapInit DEF NoBuddy
<1>2. HeapInv /\ NoBuddy /\ [Next]_vars => HeapInv' /\ NoBuddy'  BY NoBuddyStep
<1>3. HeapInv /\ NoBuddy => TagsConsistent  BY InvTags DEF NoBuddy
<1>. QED  BY <1>1, <1>2, <1>3, PTL DEF Spec

(* No two free blocks are ever side by side. *)
THEOREM NoFreeNeighbours == Spec /\ kind # "buddy" => []Coalesced
<1>1. Init /\ kind # "buddy" => HeapInv /\ NoBuddy  BY HeapInit DEF NoBuddy
<1>2. HeapInv /\ NoBuddy /\ [Next]_vars => HeapInv' /\ NoBuddy'  BY NoBuddyStep
<1>3. HeapInv /\ NoBuddy => Coalesced  BY InvCoalesced DEF NoBuddy
<1>. QED  BY <1>1, <1>2, <1>3, PTL DEF Spec

(* The free lists hold exactly the free blocks, each in the list of its    *)
(* class, and their links back agree with their links forward.             *)
THEOREM ListsHoldTheFree == Spec /\ kind # "buddy" => []ListsExact
<1>1. Init /\ kind # "buddy" => HeapInv /\ NoBuddy  BY HeapInit DEF NoBuddy
<1>2. HeapInv /\ NoBuddy /\ [Next]_vars => HeapInv' /\ NoBuddy'  BY NoBuddyStep
<1>3. HeapInv /\ NoBuddy => ListsExact  BY InvLists DEF NoBuddy
<1>. QED  BY <1>1, <1>2, <1>3, PTL DEF Spec

(* The payloads of two blocks never overlap. *)
THEOREM PayloadsNeverOverlap == Spec /\ kind # "buddy" => []PayloadsDisjoint
<1>1. Init /\ kind # "buddy" => HeapInv /\ NoBuddy  BY HeapInit DEF NoBuddy
<1>2. HeapInv /\ NoBuddy /\ [Next]_vars => HeapInv' /\ NoBuddy'  BY NoBuddyStep
<1>3. HeapInv /\ NoBuddy => PayloadsDisjoint  BY InvPayloads DEF NoBuddy
<1>. QED  BY <1>1, <1>2, <1>3, PTL DEF Spec

(* A call that moves brk found no block that fits its request. *)
LEMMA GrowthNeeded ==
  ASSUME HeapInv, NoBuddy, NEW n \in Requests, Serves(n), brk' # brk
  PROVE  NothingFits(n)
<1>1. PICK h, B : h = Heap /\ Served(h, B)  BY DEF HeapInv, NoBuddy
<1>2. Kind3  BY HeapAssumption DEF HeapInv, NoBuddy, Kind3
<1>3. Tiled(h, B)  BY <1>1 DEF Served, Clean
<1>4. FreeBlocks = FreeIn(h, B)  BY <1>1, <1>3, BlocksAre
<1>5. \A g : g = Heap' => g.brk = brk'  BY DEF Heap
<1>6. h.brk = brk  BY <1>1 DEF Heap
<1>7. ASSUME NEW g, g = Heap', Needed(h, B, g, n)
      PROVE  NothingFits(n)
  <2>1. g.brk # h.brk  BY <1>5, <1>6, <1>7
  <2>2. \A b \in FreeIn(h, B) : Size(h, b) < Aligned(n)  BY <1>7, <2>1 DEF Needed
  <2>. QED  BY <2>2, <1>1, <1>4 DEF NothingFits, Size
<1>8. ~UNCHANGED vars  BY DEF vars
<1>9. CASE Malloc(n)
  <2>1. PICK g, C, q : MallocDone(h, B, g, C, n, q)  BY <1>1, <1>2, <1>8, <1>9, MallocStep
  <2>2. g = Heap' /\ Needed(h, B, g, n)  BY <2>1 DEF MallocDone, Stepped
  <2>. QED  BY <2>2, <1>7
<1>10. CASE \E p \in DOMAIN live : Realloc(p, n)
  <2>1. PICK p \in DOMAIN live : Realloc(p, n)  BY <1>10
  <2>2. PICK g, C, q : ReallocDone(h, B, g, C, p, n, q)  BY <1>1, <1>2, <1>8, <2>1, ReallocStep
  <2>3. g = Heap' /\ Needed(h, B, g, n)  BY <2>2 DEF ReallocDone, Stepped
  <2>. QED  BY <2>3, <1>7
<1>. QED  BY <1>9, <1>10 DEF Serves

(* mm_malloc refuses a request only for want of memory. *)
LEMMA InvFails == HeapInv /\ NoBuddy => FailsOnlyWhenFull
<1> SUFFICES ASSUME HeapInv, NoBuddy, NEW n \in Requests, mm_malloc(Heap, n).bp = NULL
    PROVE  NothingFits(n) /\ brk + (IF Aligned(n) > Chunk THEN Aligned(n) ELSE Chunk) > MaxBrk
  BY DEF FailsOnlyWhenFull
<1>1. PICK h, B : h = Heap /\ Served(h, B)  BY DEF HeapInv, NoBuddy
<1>2. Kind3  BY HeapAssumption DEF HeapInv, NoBuddy, Kind3
<1>3. Clean(h, B) /\ Tiled(h, B)  BY <1>1 DEF Served, Clean
<1>4. FreeBlocks = FreeIn(h, B)  BY <1>1, <1>3, BlocksAre
<1>5. n \in Nat \ {0}  BY HeapAssumption
<1>6. PICK g : g = mm_malloc(h, n)  OBVIOUS
<1>7. g.bp = NULL /\ h.brk = brk  BY <1>1, <1>6 DEF Heap
<1>8. Refusing(h, B, Aligned(n), g)
  <2>1. ASSUME NEW C, Allocating(h, B, Aligned(n), g, C)  PROVE FALSE
    BY <2>1, <1>7 DEF Allocating, NULL
  <2>. QED  BY <2>1, <1>2, <1>3, <1>5, <1>6, Mallocs
<1>9. NothingFits(n)  BY <1>1, <1>4, <1>8 DEF Refusing, NothingFits, Size
<1>. QED  BY <1>7, <1>8, <1>9 DEF Refusing

(* The heap grows for a request only when no free block can hold that very *)
(* request.                                                                *)
THEOREM GrowthOnlyWhenFull == Spec /\ kind # "buddy" => GrowsOnlyWhenFull
<1>1. Init /\ kind # "buddy" => HeapInv /\ NoBuddy  BY HeapInit DEF NoBuddy
<1>2. HeapInv /\ NoBuddy /\ [Next]_vars => HeapInv' /\ NoBuddy'  BY NoBuddyStep
<1>3. HeapInv /\ NoBuddy =>
        [\A n \in Requests : Serves(n) /\ brk' # brk => NothingFits(n)]_vars
  BY GrowthNeeded
<1>. QED  BY <1>1, <1>2, <1>3, PTL DEF Spec, GrowsOnlyWhenFull

(* malloc returns NULL only when no free block can hold the request and    *)
(* mem_sbrk has too little left.                                           *)
THEOREM FailureOnlyWhenFull == Spec /\ kind # "buddy" => []FailsOnlyWhenFull
<1>1. Init /\ kind # "buddy" => HeapInv /\ NoBuddy  BY HeapInit DEF NoBuddy
<1>2. HeapInv /\ NoBuddy /\ [Next]_vars => HeapInv' /\ NoBuddy'  BY NoBuddyStep
<1>3. HeapInv /\ NoBuddy => FailsOnlyWhenFull  BY InvFails
<1>. QED  BY <1>1, <1>2, <1>3, PTL DEF Spec

-----------------------------------------------------------------------------
(* What Allocator sees of the heap. *)
Contents == [p \in DOMAIN live |-> [i \in 1 .. live[p] |-> mem[p + i - 1]]]

ContentsIn(g, q, n) == [i \in 1 .. n |-> g.mem[q + i - 1]]

(* A block that is kept has the contents it had. *)
LEMMA ContentsKept ==
  ASSUME NEW h, NEW g, NEW U, Kept(h, g, U), NEW b \in U, b \in Nat, NEW n \in Nat, Size(h, b) \in Int,
         n + 2 <= Size(h, b)
  PROVE  ContentsIn(g, b, n) = ContentsIn(h, b, n)
<1>1. ASSUME NEW i \in 1 .. n  PROVE g.mem[b + i - 1] = h.mem[b + i - 1]
  <2>1. b + i - 1 \in b .. b + Size(h, b) - 3  OBVIOUS
  <2>. QED  BY <2>1 DEF Kept
<1>. QED  BY <1>1 DEF ContentsIn

(* As many words as were asked for. *)
LEMMA ContentsLen ==
  ASSUME NEW g, NEW q, NEW n \in Nat
  PROVE  Len(ContentsIn(g, q, n)) = n /\ DOMAIN ContentsIn(g, q, n) = 1 .. n
<1>1. PICK s : s = ContentsIn(g, q, n)  OBVIOUS
<1>2. s = [i \in 1 .. n |-> g.mem[q + i - 1]]  BY <1>1 DEF ContentsIn
<1>3. PICK S : S = {g.mem[q + i - 1] : i \in 1 .. n}  OBVIOUS
<1>4. s \in [1 .. n -> S]  BY <1>2, <1>3
<1>5. s \in Seq(S)  BY <1>4
<1>6. Len(s) \in Nat /\ DOMAIN s = 1 .. Len(s) /\ DOMAIN s = 1 .. n  BY <1>2, <1>5
<1>7. Len(s) = n
  <2>1. PICK m : m = Len(s)  OBVIOUS
  <2>2. m \in Nat /\ 1 .. n = 1 .. m  BY <1>6, <2>1
  <2>3. \A i \in Nat : i >= 1 /\ i <= n <=> i >= 1 /\ i <= m  BY <2>2
  <2>4. n = m  BY <2>2, <2>3
  <2>. QED  BY <2>1, <2>4
<1>. QED  BY <1>1, <1>6, <1>7

(* The words of a block are contents as Allocator has them. *)
LEMMA ContentsAre ==
  ASSUME NEW g, NEW C, Tiled(g, C), NEW q \in UsedIn(g, C), NEW n \in Requests, n + 2 <= Size(g, q)
  PROVE  A!IsContents(ContentsIn(g, q, n))
<1>1. n \in Nat  BY HeapAssumption
<1>2. Len(ContentsIn(g, q, n)) = n  BY <1>1, ContentsLen
<1>3. q \in C  BY DEF UsedIn
<1>4. /\ q \in Nat /\ q >= 2 /\ Size(g, q) \in Int /\ q + Size(g, q) <= g.brk /\ g.brk <= MaxBrk /\ g.brk \in Nat
  BY <1>3, Bounds
<1>5. Typed(g)  BY DEF Tiled
<1>6. ASSUME NEW i \in 1 .. n  PROVE ContentsIn(g, q, n)[i] \in Int
  <2>1. q + i - 1 \in Addr  BY <1>1, <1>4, HeapAssumption DEF Addr
  <2>2. g.mem[q + i - 1] \in Int  BY <2>1, <1>5 DEF Typed
  <2>. QED  BY <2>2 DEF ContentsIn
<1>. QED  BY <1>2, <1>6 DEF A!IsContents

(* The contents, in terms of a heap. *)
LEMMA ContentsOf ==
  ASSUME NEW h, h = Heap
  PROVE  Contents = [p \in DOMAIN live |-> ContentsIn(h, p, live[p])]
BY DEF Contents, ContentsIn, Heap

LEMMA ContentsNext ==
  ASSUME NEW g, g = Heap'
  PROVE  Contents' = [p \in DOMAIN live' |-> ContentsIn(g, p, live'[p])]
BY DEF Contents, ContentsIn, Heap

(* The blocks that stay keep their contents. *)
LEMMA ContentsStay ==
  ASSUME NEW h, h = Heap, NEW B, Served(h, B), NEW g, NEW C, NEW U, Stepped(h, B, g, C, U),
         NEW b \in U, b \in DOMAIN live', live'[b] = live[b]
  PROVE  Contents'[b] = Contents[b]
<1>1. g = Heap' /\ Kept(h, g, U) /\ b \in UsedIn(h, B)  BY DEF Stepped
<1>2. Tiled(h, B) /\ b \in B  BY <1>1 DEF Served, Clean, UsedIn
<1>3. b \in Nat /\ Size(h, b) \in Int  BY <1>2, Bounds
<1>4. b \in DOMAIN live  BY <1>1 DEF Served
<1>5. live[b] \in Requests /\ live[b] + 2 <= Size(h, b)  BY <1>4 DEF Served
<1>6. live[b] \in Nat
  <2>1. \A n \in Requests : n \in Nat  BY HeapAssumption
  <2>. QED  BY <2>1, <1>5
<1>7. ContentsIn(g, b, live[b]) = ContentsIn(h, b, live[b])  BY <1>1, <1>3, <1>5, <1>6, ContentsKept
<1>8. Contents[b] = ContentsIn(h, b, live[b])  BY <1>4, ContentsOf
<1>9. Contents'[b] = ContentsIn(g, b, live[b])  BY <1>1, ContentsNext
<1>. QED  BY <1>7, <1>8, <1>9

(* Contents is a function of the client's blocks. *)
LEMMA Domains == DOMAIN Contents = DOMAIN live /\ DOMAIN Contents' = DOMAIN live'
                 /\ Contents = [p \in DOMAIN live |-> Contents[p]]
                 /\ Contents' = [p \in DOMAIN live' |-> Contents'[p]]
BY DEF Contents

(* Each step is a step of Allocator. *)
LEMMA MallocAllocates ==
  ASSUME NEW h, h = Heap, NEW B, Served(h, B), NEW n \in Requests, NEW g, NEW C, NEW q,
         MallocDone(h, B, g, C, n, q)
  PROVE  A!Next
<1>1. /\ Stepped(h, B, g, C, UsedIn(h, B)) /\ q \notin UsedIn(h, B)
      /\ UsedIn(g, C) = UsedIn(h, B) \cup {q} /\ Size(g, q) >= n + 2
      /\ live' = [p \in DOMAIN live \cup {q} |-> IF p = q THEN n ELSE live[p]] /\ Size(g, q) \in Int
  BY DEF MallocDone
<1>2. g = Heap' /\ Tiled(g, C) /\ q \in UsedIn(g, C)  BY <1>1 DEF Stepped, Clean
<1>3. DOMAIN live = UsedIn(h, B)  BY DEF Served
<1>4. DOMAIN live' = DOMAIN live \cup {q} /\ live'[q] = n /\ q \notin DOMAIN live  BY <1>1, <1>3
<1>5. PICK c, d : c = Contents /\ d = Contents'  OBVIOUS
<1>6. DOMAIN c = DOMAIN live /\ DOMAIN d = DOMAIN live \cup {q} /\ d = [p \in DOMAIN live' |-> d[p]]
  BY <1>4, <1>5, Domains
<1>7. \A b \in DOMAIN live : d[b] = c[b]
  <2>1. TAKE b \in DOMAIN live
  <2>2. b \in UsedIn(h, B) /\ b \in DOMAIN live' /\ live'[b] = live[b]  BY <1>1, <1>3, <1>4
  <2>. QED  BY <2>2, <1>1, <1>5, ContentsStay
<1>8. d = A!With(c, q, d[q])
  <2>1. A!With(c, q, d[q]) = [a \in DOMAIN live \cup {q} |-> IF a = q THEN d[q] ELSE c[a]]
    BY <1>6 DEF A!With
  <2>2. \A a \in DOMAIN live \cup {q} : d[a] = IF a = q THEN d[q] ELSE c[a]  BY <1>4, <1>7
  <2>3. d = [a \in DOMAIN live \cup {q} |-> d[a]]  BY <1>4, <1>6
  <2>. QED  BY <2>1, <2>2, <2>3
<1>9. d[q] = ContentsIn(g, q, n)  BY <1>2, <1>4, <1>5, ContentsNext
<1>10. A!IsContents(d[q])
  <2>1. n \in Nat  BY HeapAssumption
  <2>2. n + 2 <= Size(g, q)  BY <2>1, <1>1
  <2>. QED  BY <2>2, <1>2, <1>9, ContentsAre
<1>11. q \in DOMAIN d \ DOMAIN c  BY <1>4, <1>6
<1>12. q \notin DOMAIN c /\ d = A!With(c, q, d[q])  BY <1>8, <1>11
<1>13. \E p \in DOMAIN Contents' \ DOMAIN Contents :
         A!IsContents(Contents'[p]) /\ p \notin DOMAIN Contents /\ Contents' = A!With(Contents, p, Contents'[p])
  BY <1>5, <1>10, <1>11, <1>12
<1>. QED  BY <1>13 DEF A!Next, A!Malloc, Contents

LEMMA FreeAllocates ==
  ASSUME NEW h, h = Heap, NEW B, Served(h, B), NEW p \in DOMAIN live, NEW g, NEW C, FreeDone(h, B, g, C, p)
  PROVE  A!Next
<1>1. Stepped(h, B, g, C, UsedIn(h, B) \ {p}) /\ live' = [q \in DOMAIN live \ {p} |-> live[q]]
  BY DEF FreeDone
<1>2. DOMAIN live = UsedIn(h, B) /\ DOMAIN live' = DOMAIN live \ {p}  BY <1>1 DEF Served
<1>3. PICK c, d : c = Contents /\ d = Contents'  OBVIOUS
<1>4. DOMAIN c = DOMAIN live /\ d = [b \in DOMAIN live \ {p} |-> d[b]]  BY <1>2, <1>3, Domains
<1>5. \A b \in DOMAIN live \ {p} : d[b] = c[b]
  <2>1. TAKE b \in DOMAIN live \ {p}
  <2>2. b \in UsedIn(h, B) \ {p} /\ b \in DOMAIN live' /\ live'[b] = live[b]  BY <1>1, <1>2
  <2>. QED  BY <2>2, <1>1, <1>3, ContentsStay
<1>6. d = A!Without(c, p)  BY <1>4, <1>5 DEF A!Without
<1>7. \E b \in DOMAIN Contents : Contents' = A!Without(Contents, b)  BY <1>3, <1>4, <1>6
<1>. QED  BY <1>7 DEF A!Next, A!Free, Contents

LEMMA ReallocAllocates ==
  ASSUME NEW h, h = Heap, NEW B, Served(h, B), NEW p \in DOMAIN live, NEW n \in Requests,
         NEW g, NEW C, NEW q, ReallocDone(h, B, g, C, p, n, q)
  PROVE  A!Next
<1>1. /\ Stepped(h, B, g, C, UsedIn(h, B) \ {p}) /\ q \notin UsedIn(h, B) \ {p} /\ q \in Nat
      /\ UsedIn(g, C) = (UsedIn(h, B) \ {p}) \cup {q} /\ Size(g, q) >= n + 2 /\ Size(g, q) \in Int
      /\ Copied(h, g, p, q, n)
      /\ live' = [b \in (DOMAIN live \ {p}) \cup {q} |-> IF b = q THEN n ELSE live[b]]
  BY DEF ReallocDone
<1>2. g = Heap' /\ Tiled(g, C) /\ q \in UsedIn(g, C)  BY <1>1 DEF Stepped, Clean
<1>3. DOMAIN live = UsedIn(h, B)  BY DEF Served
<1>4. DOMAIN live' = (DOMAIN live \ {p}) \cup {q} /\ live'[q] = n /\ q \notin DOMAIN live \ {p}  BY <1>1, <1>3
<1>5. PICK c, d : c = Contents /\ d = Contents'  OBVIOUS
<1>6. DOMAIN c = DOMAIN live /\ DOMAIN d = DOMAIN live' /\ d = [b \in DOMAIN live' |-> d[b]]
  BY <1>5, Domains
<1>7. \A b \in DOMAIN live \ {p} : d[b] = c[b]
  <2>1. TAKE b \in DOMAIN live \ {p}
  <2>2. b \in UsedIn(h, B) \ {p} /\ b \in DOMAIN live' /\ live'[b] = live[b]  BY <1>1, <1>3, <1>4
  <2>. QED  BY <2>2, <1>1, <1>5, ContentsStay
<1>8. d = A!With(A!Without(c, p), q, d[q])
  <2>1. PICK e : e = A!Without(c, p)  OBVIOUS
  <2>2. DOMAIN e = DOMAIN live \ {p} /\ \A b \in DOMAIN live \ {p} : e[b] = c[b]  BY <2>1, <1>6 DEF A!Without
  <2>3. A!With(e, q, d[q]) = [a \in (DOMAIN live \ {p}) \cup {q} |-> IF a = q THEN d[q] ELSE e[a]]
    BY <2>2 DEF A!With
  <2>4. \A a \in (DOMAIN live \ {p}) \cup {q} : d[a] = IF a = q THEN d[q] ELSE e[a]  BY <1>7, <2>2
  <2>5. d = [a \in (DOMAIN live \ {p}) \cup {q} |-> d[a]]  BY <1>4, <1>6
  <2>. QED  BY <2>1, <2>3, <2>4, <2>5
<1>9. d[q] = ContentsIn(g, q, n)  BY <1>2, <1>4, <1>5, ContentsNext
<1>10. n \in Nat  BY HeapAssumption
<1>11. A!IsContents(d[q])
  <2>1. n + 2 <= Size(g, q)  BY <1>1, <1>10
  <2>. QED  BY <2>1, <1>2, <1>9, ContentsAre
<1>12. Len(d[q]) = n  BY <1>9, <1>10, ContentsLen
<1>13. live[p] \in Nat /\ live[p] + 2 <= Size(h, p) /\ p \in Nat /\ Size(h, p) \in Int
  <2>1. \A m \in Requests : m \in Nat  BY HeapAssumption
  <2>2. live[p] \in Requests /\ live[p] + 2 <= Size(h, p)  BY DEF Served
  <2>3. Tiled(h, B) /\ p \in B  BY <1>3 DEF Served, Clean, UsedIn
  <2>. QED  BY <2>1, <2>2, <2>3, Bounds
<1>14. c[p] = ContentsIn(h, p, live[p])  BY <1>5, ContentsOf
<1>15. Len(c[p]) = live[p]  BY <1>13, <1>14, ContentsLen
<1>16. ASSUME NEW i \in 1 .. Len(d[q]), i <= Len(c[p])  PROVE d[q][i] = c[p][i]
  <2>1. i \in 1 .. n /\ i \in 1 .. live[p] /\ i \in Int /\ i >= 1  BY <1>10, <1>12, <1>13, <1>15, <1>16
  <2>2. d[q][i] = g.mem[q + i - 1]  BY <2>1, <1>9 DEF ContentsIn
  <2>3. c[p][i] = h.mem[p + i - 1]  BY <2>1, <1>14 DEF ContentsIn
  <2>4. PICK k : k = i - 1  OBVIOUS
  <2>5. k \in 0 .. n - 1 /\ k <= Size(h, p) - 3 /\ q + k = q + i - 1 /\ p + k = p + i - 1
    BY <2>1, <2>4, <1>1, <1>10, <1>13
  <2>6. g.mem[q + k] = h.mem[p + k]  BY <2>5, <1>1 DEF Copied
  <2>. QED  BY <2>2, <2>3, <2>5, <2>6
<1>17. \E b \in DOMAIN Contents : \E a \in DOMAIN Contents' :
         /\ A!IsContents(Contents'[a]) /\ a \notin DOMAIN Contents \ {b}
         /\ \A i \in 1 .. Len(Contents'[a]) : i <= Len(Contents[b]) => Contents'[a][i] = Contents[b][i]
         /\ Contents' = A!With(A!Without(Contents, b), a, Contents'[a])
  <2>1. p \in DOMAIN c /\ q \in DOMAIN d /\ q \notin DOMAIN c \ {p}  BY <1>4, <1>6
  <2>2. /\ A!IsContents(d[q]) /\ q \notin DOMAIN c \ {p}
        /\ \A i \in 1 .. Len(d[q]) : i <= Len(c[p]) => d[q][i] = c[p][i]
        /\ d = A!With(A!Without(c, p), q, d[q])
    BY <2>1, <1>8, <1>11, <1>16
  <2>. QED  BY <2>1, <2>2, <1>5
<1>. QED  BY <1>17 DEF A!Next, A!Realloc, Contents

(* So is every step, or Allocator sees nothing of it. *)
LEMMA AllocatorStep ==
  ASSUME HeapInv, NoBuddy, [Next]_vars
  PROVE  A!Next \/ UNCHANGED Contents
<1>1. PICK h, B : h = Heap /\ Served(h, B)  BY DEF HeapInv, NoBuddy
<1>2. Kind3  BY HeapAssumption DEF HeapInv, NoBuddy, Kind3
<1>3. CASE UNCHANGED vars
  BY <1>3 DEF vars, Contents
<1>4. CASE SomeMalloc(h, B)
  <2>1. PICK n \in Requests : \E g, C, q : MallocDone(h, B, g, C, n, q)  BY <1>4 DEF SomeMalloc
  <2>2. PICK g, C, q : MallocDone(h, B, g, C, n, q)  BY <2>1
  <2>. QED  BY <2>2, <1>1, MallocAllocates
<1>5. CASE SomeFree(h, B)
  <2>1. PICK p \in DOMAIN live : \E g, C : FreeDone(h, B, g, C, p)  BY <1>5 DEF SomeFree
  <2>2. PICK g, C : FreeDone(h, B, g, C, p)  BY <2>1
  <2>. QED  BY <2>2, <1>1, FreeAllocates
<1>6. CASE SomeRealloc(h, B)
  <2>1. PICK p \in DOMAIN live : \E n \in Requests : \E g, C, q : ReallocDone(h, B, g, C, p, n, q)
    BY <1>6 DEF SomeRealloc
  <2>2. PICK n \in Requests : \E g, C, q : ReallocDone(h, B, g, C, p, n, q)  BY <2>1
  <2>3. PICK g, C, q : ReallocDone(h, B, g, C, p, n, q)  BY <2>2
  <2>. QED  BY <2>3, <1>1, ReallocAllocates
<1>. QED  BY <1>1, <1>2, <1>3, <1>4, <1>5, <1>6, Outcomes

(* A block keeps its contents until the client frees it, and realloc keeps *)
(* as much of them as fits.                                                *)
THEOREM HeapImplementsAllocator == Spec /\ kind # "buddy" => ImplementsAllocator
<1>1. Init /\ kind # "buddy" => HeapInv /\ NoBuddy  BY HeapInit DEF NoBuddy
<1>2. HeapInv /\ NoBuddy /\ [Next]_vars => HeapInv' /\ NoBuddy'  BY NoBuddyStep
<1>3. Init => A!Init
  <2>1. SUFFICES ASSUME Init  PROVE A!Init
    OBVIOUS
  <2>2. live = [p \in {} |-> 0]  BY <2>1 DEF Init
  <2>3. DOMAIN live = {}  BY <2>2
  <2>. QED  BY <2>3 DEF A!Init
<1>4. HeapInv /\ NoBuddy /\ [Next]_vars =>
        A!Next \/ UNCHANGED [p \in DOMAIN live |-> [i \in 1 .. live[p] |-> mem[p + i - 1]]]
  BY AllocatorStep DEF Contents
<1>. QED  BY <1>1, <1>2, <1>3, <1>4, PTL DEF Spec, ImplementsAllocator, A!Spec

=============================================================================
