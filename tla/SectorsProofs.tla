---------------------------- MODULE SectorsProofs -----------------------------
(***************************************************************************)
(* Proofs about the sectors, for every disk, directory and set of          *)
(* processes of which one at a time uses what it has read in the           *)
(* directory: every sector in use has one owner and is marked in the free  *)
(* map, only a create that fails or a stop of the machine leaves a sector  *)
(* marked that nobody owns, and the calls implement the abstract store.    *)
(***************************************************************************)
EXTENDS FilesProofs, Sequences

(* The sectors of an inode or a call. *)

Linking == Finding \cup {"remove_erase"}
HasSector == Creating \cup Created \cup {"release_inode"}
HasData == Created \cup {"release_inode", "release_data"}

InUse(s) == s \in Linked \/ inodes[s] # None
InodeSectors(s) == IF InUse(s) THEN {s} \cup DataSectors(disk[s]) ELSE {}
CallSectors(p) ==
  (IF pc[p] \in HasSector THEN {call[p].sector} ELSE {})
  \cup (IF pc[p] \in HasData THEN DataSectors(call[p]) ELSE {})

Owner == ({"inode"} \X Sector) \cup ({"call"} \X Process)
Owns(o) == IF o[1] = "inode" THEN InodeSectors(o[2]) ELSE CallSectors(o[2])
OwnedOnce ==
  /\ \A o \in Owner : Owns(o) \subseteq free_map
  /\ \A o, r \in Owner : o # r => Owns(o) \cap Owns(r) = {}

FileOn(s) == \E p \in Process, fd \in Fd : fd_table[p][fd] # None /\ fd_table[p][fd].inode = s

(* An inode in use: what is in memory of it is what is on the disk, when   *)
(* it has been read, and before that no descriptor leads to it.            *)
InodeGood(s) ==
  InUse(s) =>
    /\ disk[s] \in DiskInode /\ s \notin DataSectors(disk[s])
    /\ inodes[s] # None => (inodes[s].removed = TRUE <=> s \notin Linked)
    /\ inodes[s] # None /\ ~Unread(s) =>
         inodes[s].start = disk[s].start /\ inodes[s].length = disk[s].length
    /\ Unread(s) => ~FileOn(s)

(* A call: what it remembers of the directory and the disk is still so.    *)
CallGood(p) ==
  /\ pc[p] \in Created \cup {"release_inode"} => call[p].sector \notin DataSectors(call[p])
  /\ pc[p] \in Created \ {"create_inode"} =>
       disk[call[p].sector] = [start |-> call[p].start, length |-> call[p].length]
  /\ pc[p] \in Linking =>
       call[p].fd \in Slot /\ entry[call[p].fd] # None /\ entry[call[p].fd][2] = call[p].sector
  /\ pc[p] = "create_add" => entry[call[p].fd] = None

OneInWindow == \A p, q \in Process : pc[p] \in Window /\ pc[q] \in Window => p = q
EntryOnce ==
  \A i, j \in Slot : entry[i] # None /\ entry[j] # None /\ entry[i][2] = entry[j][2] => i = j

SectorsInv ==
  /\ OneInWindow /\ EntryOnce /\ OwnedOnce
  /\ \A p \in Process : CallGood(p)
  /\ \A s \in Sector : InodeGood(s)

(* No sector is lost: what is marked and has no owner was so before. *)
Kept == \A x : x \in free_map' /\ (\A o \in Owner : x \notin Owns(o)')
                 => x \in free_map /\ \A o \in Owner : x \notin Owns(o)

LEMMA OwnersKnown ==
  /\ \A s \in Sector : /\ <<"inode", s>> \in Owner
                       /\ Owns(<<"inode", s>>) = InodeSectors(s)
                       /\ Owns(<<"inode", s>>)' = InodeSectors(s)'
  /\ \A p \in Process : /\ <<"call", p>> \in Owner
                        /\ Owns(<<"call", p>>) = CallSectors(p)
                        /\ Owns(<<"call", p>>)' = CallSectors(p)'
  /\ \A o \in Owner : (\E s \in Sector : o = <<"inode", s>>) \/ (\E p \in Process : o = <<"call", p>>)
<1>1. ASSUME NEW s \in Sector
      PROVE  /\ <<"inode", s>> \in Owner
             /\ Owns(<<"inode", s>>) = InodeSectors(s)
             /\ Owns(<<"inode", s>>)' = InodeSectors(s)'
  BY DEF Owner, Owns
<1>2. ASSUME NEW p \in Process
      PROVE  /\ <<"call", p>> \in Owner
             /\ Owns(<<"call", p>>) = CallSectors(p)
             /\ Owns(<<"call", p>>)' = CallSectors(p)'
  BY DEF Owner, Owns
<1>3. \A o \in Owner : (\E s \in Sector : o = <<"inode", s>>) \/ (\E p \in Process : o = <<"call", p>>)
  BY DEF Owner
<1> QED BY <1>1, <1>2, <1>3

(* Two owners exchange sectors, allocate the sectors N or release D. *)
LEMMA Exchange ==
  ASSUME OwnedOnce, NEW o1 \in Owner, NEW o2 \in Owner, NEW N, NEW D,
         \A o \in Owner : o # o1 /\ o # o2 => Owns(o)' = Owns(o),
         N \cap free_map = {}, D \subseteq Owns(o1), free_map' = (free_map \cup N) \ D,
         Owns(o1)' \cup Owns(o2)' \subseteq (Owns(o1) \cup Owns(o2) \cup N) \ D,
         o1 # o2 => Owns(o1)' \cap Owns(o2)' = {}
  PROVE  /\ OwnedOnce'
         /\ (Owns(o1) \cup Owns(o2) \cup N) \ D \subseteq Owns(o1)' \cup Owns(o2)' => Kept
<1>1. ASSUME NEW o \in Owner PROVE Owns(o)' \subseteq free_map'
  <2>1. CASE o = o1 \/ o = o2
    BY <2>1 DEF OwnedOnce
  <2>2. CASE o # o1 /\ o # o2
    BY <2>2 DEF OwnedOnce
  <2> QED BY <2>1, <2>2
<1>2. ASSUME NEW o \in Owner, NEW r \in Owner, o # r PROVE Owns(o)' \cap Owns(r)' = {}
  <2>1. ASSUME NEW a \in Owner, a # o1, a # o2
        PROVE  Owns(a)' \cap Owns(o1)' = {} /\ Owns(a)' \cap Owns(o2)' = {}
    BY <2>1 DEF OwnedOnce
  <2>2. CASE o # o1 /\ o # o2 /\ r # o1 /\ r # o2
    BY <1>2, <2>2 DEF OwnedOnce
  <2> QED BY <1>2, <2>1, <2>2
<1>3. ASSUME (Owns(o1) \cup Owns(o2) \cup N) \ D \subseteq Owns(o1)' \cup Owns(o2)',
             NEW x, x \in free_map', \A o \in Owner : x \notin Owns(o)'
      PROVE  x \in free_map /\ \A o \in Owner : x \notin Owns(o)
  <2>1. x \notin Owns(o1) /\ x \notin Owns(o2) /\ x \notin N
    BY <1>3
  <2> QED BY <1>3, <2>1
<1> QED BY <1>1, <1>2, <1>3 DEF OwnedOnce, Kept

-----------------------------------------------------------------------------
(* What the theorem says, from the owners.                                 *)

LEMMA SectorsKnown == ASSUME SectorsInv, NEW s \in Sector, InUse(s)
                      PROVE  DataSectors(InodeOf(s)) = DataSectors(disk[s])
<1>1. InodeGood(s) /\ disk[s] \in DiskInode
  BY DEF SectorsInv, InodeGood
<1>2. OnDisk(s) = disk[s]
  BY <1>1 DEF OnDisk, DiskInode
<1>3. CASE inodes[s] = None \/ Unread(s)
  BY <1>2, <1>3 DEF InodeOf
<1>4. CASE inodes[s] # None /\ ~Unread(s)
  BY <1>1, <1>4 DEF InodeOf, InodeGood, DataSectors
<1> QED BY <1>3, <1>4

(* Holdings are what the owners own. *)
LEMMA HoldingsOwned ==
  ASSUME FilesInv, SectorsInv
  PROVE  \A h : h \in Holdings <=>
           \/ \E s \in Sector : InUse(s) /\ h = <<s, Owns(<<"inode", s>>)>>
           \/ \E p \in Process : pc[p] \in HasSector \cup HasData /\ h = <<p, Owns(<<"call", p>>)>>
<1> DEFINE A == {<<s, {s} \cup DataSectors(InodeOf(s))>> : s \in Linked \cup {t \in Sector : inodes[t] # None}}
           B == {<<p, {call[p].sector}>> : p \in {q \in Process : pc[q] \in Creating}}
           C == {<<p, {call[p].sector} \cup DataSectors(call[p])>> :
                    p \in {q \in Process : pc[q] \in Created \cup {"release_inode"}}}
           D == {<<p, DataSectors(call[p])>> : p \in {q \in Process : At(q, "release_data")}}
<1>1. Holdings = A \cup B \cup C \cup D
  BY DEF Holdings
<1>2. ASSUME NEW h PROVE h \in A <=> \E s \in Sector : InUse(s) /\ h = <<s, Owns(<<"inode", s>>)>>
  <2>1. ASSUME NEW s PROVE s \in Linked \cup {t \in Sector : inodes[t] # None} <=> s \in Sector /\ InUse(s)
    BY FilesParts DEF Linked, InUse, StoreTyped
  <2>2. ASSUME NEW s \in Sector, InUse(s)
        PROVE  Owns(<<"inode", s>>) = {s} \cup DataSectors(InodeOf(s))
    BY <2>2, SectorsKnown, OwnersKnown DEF InodeSectors
  <2> QED BY <2>1, <2>2
<1>3. ASSUME NEW h
      PROVE  h \in B \cup C \cup D <=>
               \E p \in Process : pc[p] \in HasSector \cup HasData /\ h = <<p, Owns(<<"call", p>>)>>
  <2>1. ASSUME NEW p \in Process
        PROVE  /\ pc[p] \in Creating => Owns(<<"call", p>>) = {call[p].sector}
               /\ pc[p] \in Created \cup {"release_inode"} =>
                    Owns(<<"call", p>>) = {call[p].sector} \cup DataSectors(call[p])
               /\ At(p, "release_data") => Owns(<<"call", p>>) = DataSectors(call[p])
               /\ pc[p] \in HasSector \cup HasData <=>
                    pc[p] \in Creating \/ pc[p] \in Created \cup {"release_inode"} \/ At(p, "release_data")
    BY OwnersKnown DEF CallSectors, HasSector, HasData, Creating, Created, At
  <2>2. h \in B <=> \E p \in Process : pc[p] \in Creating /\ h = <<p, Owns(<<"call", p>>)>>
    BY <2>1
  <2>3. h \in C <=> \E p \in Process : pc[p] \in Created \cup {"release_inode"} /\ h = <<p, Owns(<<"call", p>>)>>
    BY <2>1
  <2>4. h \in D <=> \E p \in Process : At(p, "release_data") /\ h = <<p, Owns(<<"call", p>>)>>
    BY <2>1
  <2> HIDE DEF B, C, D
  <2> QED BY <2>1, <2>2, <2>3, <2>4
<1> HIDE DEF A, B, C, D
<1> QED BY <1>1, <1>2, <1>3

LEMMA HoldingIsOf ==
  ASSUME FilesInv, SectorsInv, NEW k \in Holdings PROVE \E o \in Owner : k = <<o[2], Owns(o)>>
<1>1. CASE \E s \in Sector : k = <<s, Owns(<<"inode", s>>)>>
  <2>1. PICK s \in Sector : k = <<s, Owns(<<"inode", s>>)>>
    BY <1>1
  <2> DEFINE o == <<"inode", s>>
  <2>2. o \in Owner /\ o[2] = s
    BY OwnersKnown
  <2> QED BY <2>1, <2>2
<1>2. CASE \E p \in Process : k = <<p, Owns(<<"call", p>>)>>
  <2>1. PICK p \in Process : k = <<p, Owns(<<"call", p>>)>>
    BY <1>2
  <2> DEFINE o == <<"call", p>>
  <2>2. o \in Owner /\ o[2] = p
    BY OwnersKnown
  <2> QED BY <2>1, <2>2
<1> QED BY <1>1, <1>2, HoldingsOwned

LEMMA SectorsOwned == ASSUME FilesInv, SectorsInv PROVE SectorsOwnedOnce
<1>1. Held \subseteq free_map
  <2>1. ASSUME NEW h \in Holdings PROVE h[2] \subseteq free_map
    <3>1. PICK o \in Owner : h = <<o[2], Owns(o)>>
      BY HoldingIsOf
    <3> QED BY <3>1 DEF SectorsInv, OwnedOnce
  <2> QED BY <2>1 DEF Held
<1>2. ASSUME NEW g \in Holdings, NEW h \in Holdings, g # h PROVE g[2] \cap h[2] = {}
  <2>1. \A o, r \in Owner : o # r => Owns(o) \cap Owns(r) = {}
    BY DEF SectorsInv, OwnedOnce
  <2>3. PICK o \in Owner : g = <<o[2], Owns(o)>>
    BY HoldingIsOf
  <2>4. PICK r \in Owner : h = <<r[2], Owns(r)>>
    BY HoldingIsOf
  <2>5. o # r
    BY <1>2, <2>3, <2>4
  <2> QED BY <2>1, <2>3, <2>4, <2>5
<1>3. ASSUME NEW s \in Linked PROVE "length" \in DOMAIN disk[s]
  <2>1. s \in Sector /\ InUse(s)
    BY FilesParts DEF Linked, InUse, StoreTyped
  <2> QED BY <2>1 DEF SectorsInv, InodeGood, DiskInode
<1> QED BY <1>1, <1>2, <1>3 DEF SectorsOwnedOnce

LEMMA HeldOwned ==
  ASSUME FilesInv, SectorsInv, NEW x PROVE x \in Held <=> \E o \in Owner : x \in Owns(o)
<1>1. ASSUME NEW h \in Holdings, x \in h[2] PROVE \E o \in Owner : x \in Owns(o)
  <2>1. PICK o \in Owner : h = <<o[2], Owns(o)>>
    BY HoldingIsOf
  <2> QED BY <1>1, <2>1
<1>2. ASSUME NEW s \in Sector, x \in Owns(<<"inode", s>>) PROVE \E h \in Holdings : x \in h[2]
  <2>1. InUse(s)
    BY <1>2, OwnersKnown DEF InodeSectors
  <2>2. <<s, Owns(<<"inode", s>>)>> \in Holdings
    BY <2>1, HoldingsOwned
  <2> QED BY <1>2, <2>2
<1>3. ASSUME NEW p \in Process, x \in Owns(<<"call", p>>) PROVE \E h \in Holdings : x \in h[2]
  <2>1. pc[p] \in HasSector \cup HasData
    BY <1>3, OwnersKnown DEF CallSectors
  <2>2. <<p, Owns(<<"call", p>>)>> \in Holdings
    BY <2>1, HoldingsOwned
  <2> QED BY <1>3, <2>2
<1>4. x \in Held <=> \E h \in Holdings : x \in h[2]
  BY DEF Held
<1> QED BY <1>1, <1>2, <1>3, <1>4, OwnersKnown

HeldIsOwned == \A x : x \in Held <=> \E o \in Owner : x \in Owns(o)

LEMMA HeldAlways == FilesInv /\ SectorsInv => HeldIsOwned
BY HeldOwned DEF HeldIsOwned

LEMMA NothingLeaks ==
  FilesInv /\ SectorsInv /\ FilesInv' /\ SectorsInv' /\ Kept => Leaked' \subseteq Leaked
<1>1. FilesInv /\ SectorsInv /\ FilesInv' /\ SectorsInv' => HeldIsOwned /\ HeldIsOwned'
  BY HeldAlways, PTL
<1>2. HeldIsOwned /\ HeldIsOwned' /\ Kept => Leaked' \subseteq Leaked
  BY DEF HeldIsOwned, Leaked, Kept
<1> QED BY <1>1, <1>2

-----------------------------------------------------------------------------
(* Steps that move no sector.                                              *)

(* In a step of p nothing changes at the others. *)
LEMMA OthersGood ==
  ASSUME SectorsInv, NEW p \in Process, OthersStay(p), entry' = entry \/ pc[p] \in Window,
         \A q \in Process : q # p /\ pc[q] \in Created \ {"create_inode"} =>
                              disk'[call[q].sector] = disk[call[q].sector]
  PROVE  \A q \in Process : q # p => CallGood(q)' /\ CallSectors(q)' = CallSectors(q)
<1> SUFFICES ASSUME NEW q \in Process, q # p PROVE CallGood(q)' /\ CallSectors(q)' = CallSectors(q)
  OBVIOUS
<1>1. pc'[q] = pc[q] /\ call'[q] = call[q] /\ CallGood(q)
  BY DEF OthersStay, SectorsInv
<1>2. CallSectors(q)' = CallSectors(q)
  BY <1>1 DEF CallSectors
<1>3. pc[q] \in Window => entry' = entry
  BY DEF SectorsInv, OneInWindow
<1>4. Linking \subseteq Window /\ "create_add" \in Window
  BY DEF Linking, Finding, Window
<1>5. CallGood(q)'
  BY <1>1, <1>3, <1>4 DEF CallGood, DataSectors
<1> QED BY <1>2, <1>5

LEMMA UnreadSame ==
  ASSUME NEW p \in Process, OthersStay(p), NEW s,
         pc[p] = "fill_inode" => call[p].sector # s, pc'[p] = "fill_inode" => call'[p].sector # s
  PROVE  Unread(s)' <=> Unread(s)
BY DEF OthersStay, Unread, At

(* What SectorsInv knows of the inode of s is the same in the table u. *)
SameFace(t, u, s) ==
  /\ u[s] = None <=> t[s] = None
  /\ t[s] # None => u[s].removed = t[s].removed /\ u[s].start = t[s].start /\ u[s].length = t[s].length

LEMMA InodeSame ==
  ASSUME SectorsInv, NEW s \in Sector, InUse(s) => disk'[s] = disk[s],
         s \in Linked' <=> s \in Linked, SameFace(inodes, inodes', s),
         Unread(s)' <=> Unread(s), FileOn(s)' => FileOn(s)
  PROVE  InodeGood(s)' /\ InodeSectors(s)' = InodeSectors(s)
<1>1. InUse(s)' <=> InUse(s)
  BY DEF InUse, SameFace
<1>2. InodeSectors(s)' = InodeSectors(s)
  BY <1>1 DEF InodeSectors, DataSectors
<1>3. InodeGood(s)
  BY DEF SectorsInv
<1>4. ASSUME InUse(s)
      PROVE  /\ disk'[s] \in DiskInode /\ s \notin DataSectors(disk[s])'
             /\ inodes'[s] # None => (inodes'[s].removed = TRUE <=> s \notin Linked')
             /\ inodes'[s] # None /\ ~Unread(s)' =>
                  inodes'[s].start = disk'[s].start /\ inodes'[s].length = disk'[s].length
             /\ Unread(s)' => ~FileOn(s)'
  <2>1. disk'[s] = disk[s] /\ disk[s] \in DiskInode /\ s \notin DataSectors(disk[s])
    BY <1>3, <1>4 DEF InodeGood
  <2>2. inodes'[s] # None => (inodes'[s].removed = TRUE <=> s \notin Linked')
    BY <1>3, <1>4 DEF InodeGood, SameFace
  <2>3. inodes'[s] # None /\ ~Unread(s)' =>
          inodes'[s].start = disk'[s].start /\ inodes'[s].length = disk'[s].length
    BY <1>3, <1>4, <2>1 DEF InodeGood, SameFace
  <2>4. Unread(s)' => ~FileOn(s)'
    BY <1>3, <1>4 DEF InodeGood
  <2> QED BY <2>1, <2>2, <2>3, <2>4 DEF DataSectors
<1>5. InodeGood(s)'
  BY <1>1, <1>4 DEF InodeGood, DiskInode, Starts
<1> QED BY <1>2, <1>5

(* Steps that move no sector. *)
LEMMA SectorsSame ==
  ASSUME SectorsInv, OneInWindow', EntryOnce', free_map' = free_map,
         \A p \in Process : CallGood(p)' /\ CallSectors(p)' = CallSectors(p),
         \A s \in Sector : InodeGood(s)' /\ InodeSectors(s)' = InodeSectors(s)
  PROVE  SectorsInv' /\ Kept
<1>1. ASSUME NEW o \in Owner PROVE Owns(o)' = Owns(o)
  <2>1. CASE \E s \in Sector : o = <<"inode", s>>
    BY <2>1, OwnersKnown
  <2>2. CASE \E p \in Process : o = <<"call", p>>
    BY <2>2, OwnersKnown
  <2> QED BY <2>1, <2>2, OwnersKnown
<1>2. OwnedOnce'
  BY <1>1 DEF OwnedOnce, SectorsInv
<1>3. Kept
  BY <1>1 DEF Kept
<1> QED BY <1>2, <1>3 DEF SectorsInv

(* The directory is the same, and so is what is known of the inodes. *)
LEMMA SectorsQuiet ==
  ASSUME SectorsInv, OneInWindow', NEW p \in Process, OthersStay(p),
         UNCHANGED <<disk, entry, free_map>>,
         \A s \in Sector : SameFace(inodes, inodes', s) /\ (FileOn(s)' => FileOn(s)),
         pc[p] # "fill_inode", pc'[p] # "fill_inode",
         CallGood(p)', CallSectors(p)' = CallSectors(p)
  PROVE  SectorsInv' /\ Kept
<1>1. \A q \in Process : CallGood(q)' /\ CallSectors(q)' = CallSectors(q)
  BY OthersGood
<1>2. ASSUME NEW s \in Sector PROVE InodeGood(s)' /\ InodeSectors(s)' = InodeSectors(s)
  <2>1. Unread(s)' <=> Unread(s)
    BY UnreadSame
  <2>2. s \in Linked' <=> s \in Linked
    BY DEF Linked
  <2> QED BY <2>1, <2>2, InodeSame
<1>3. EntryOnce'
  BY DEF SectorsInv, EntryOnce
<1> QED BY <1>1, <1>2, <1>3, SectorsSame

(* No process moves. *)
LEMMA SectorsStill ==
  ASSUME SectorsInv, Stay, UNCHANGED <<disk, entry, free_map>>,
         \A s \in Sector : SameFace(inodes, inodes', s) /\ (FileOn(s)' => FileOn(s))
  PROVE  SectorsInv' /\ Kept
<1>1. OneInWindow'
  BY DEF SectorsInv, OneInWindow, Stay
<1>2. ASSUME NEW p \in Process PROVE CallGood(p)' /\ CallSectors(p)' = CallSectors(p)
  <2>1. CallGood(p)
    BY DEF SectorsInv
  <2> QED BY <2>1 DEF CallGood, CallSectors, DataSectors, Stay
<1>3. ASSUME NEW s \in Sector PROVE InodeGood(s)' /\ InodeSectors(s)' = InodeSectors(s)
  <2>1. Unread(s)' <=> Unread(s)
    BY DEF Unread, At, Stay
  <2>2. s \in Linked' <=> s \in Linked
    BY DEF Linked
  <2> QED BY <2>1, <2>2, InodeSame
<1>4. EntryOnce'
  BY DEF SectorsInv, EntryOnce
<1> QED BY <1>1, <1>2, <1>3, <1>4, SectorsSame

-----------------------------------------------------------------------------
(* Steps of a create, up to its entry in the directory.                    *)

LEMMA GoOne ==
  ASSUME FilesInv, NEW p \in Process, NEW l, NEW c, Go(p, l, c)
  PROVE  OthersStay(p) /\ pc'[p] = l /\ call'[p] = c
BY FilesParts DEF CallsTyped, Go, OthersStay

LEMMA Disjoint ==
  ASSUME SectorsInv
  PROVE  /\ \A s \in Sector : InodeSectors(s) \subseteq free_map /\ (InUse(s) => s \in InodeSectors(s))
         /\ \A p \in Process : CallSectors(p) \subseteq free_map
         /\ \A s \in Sector, p \in Process : InodeSectors(s) \cap CallSectors(p) = {}
         /\ \A s, r \in Sector : s # r => InodeSectors(s) \cap InodeSectors(r) = {}
         /\ \A p, q \in Process : p # q => CallSectors(p) \cap CallSectors(q) = {}
<1>0. /\ \A o \in Owner : Owns(o) \subseteq free_map
      /\ \A o, r \in Owner : o # r => Owns(o) \cap Owns(r) = {}
  BY DEF SectorsInv, OwnedOnce
<1>1. ASSUME NEW s \in Sector PROVE InodeSectors(s) \subseteq free_map /\ (InUse(s) => s \in InodeSectors(s))
  BY <1>0, OwnersKnown DEF InodeSectors
<1>2. ASSUME NEW p \in Process PROVE CallSectors(p) \subseteq free_map
  BY <1>0, OwnersKnown
<1>3. ASSUME NEW s \in Sector, NEW p \in Process PROVE InodeSectors(s) \cap CallSectors(p) = {}
  <2>1. <<"inode", s>> # <<"call", p>>
    OBVIOUS
  <2> QED BY <1>0, <2>1, OwnersKnown
<1>4. ASSUME NEW s \in Sector, NEW r \in Sector, s # r PROVE InodeSectors(s) \cap InodeSectors(r) = {}
  <2>1. <<"inode", s>> # <<"inode", r>>
    BY <1>4
  <2> QED BY <1>0, <2>1, OwnersKnown
<1>5. ASSUME NEW p \in Process, NEW q \in Process, p # q PROVE CallSectors(p) \cap CallSectors(q) = {}
  <2>1. <<"call", p>> # <<"call", q>>
    BY <1>5
  <2> QED BY <1>0, <2>1, OwnersKnown
<1> QED BY <1>1, <1>2, <1>3, <1>4, <1>5

(* A call allocates the sectors N or releases the sectors D. *)
LEMMA CallStep ==
  ASSUME SectorsInv, OneInWindow', NEW p \in Process, OthersStay(p),
         UNCHANGED <<entry, inodes, fd_table>>, pc[p] # "fill_inode", pc'[p] # "fill_inode",
         NEW N, NEW D, N \cap free_map = {}, D \subseteq CallSectors(p), free_map' = (free_map \cup N) \ D,
         CallSectors(p)' \subseteq (CallSectors(p) \cup N) \ D, CallGood(p)',
         \A s \in Sector : InUse(s) => disk'[s] = disk[s],
         \A q \in Process : q # p /\ pc[q] \in Created \ {"create_inode"} =>
                              disk'[call[q].sector] = disk[call[q].sector]
  PROVE  SectorsInv' /\ ((CallSectors(p) \cup N) \ D \subseteq CallSectors(p)' => Kept)
<1>1. \A q \in Process : q # p => CallGood(q)' /\ CallSectors(q)' = CallSectors(q)
  BY OthersGood
<1>2. ASSUME NEW s \in Sector PROVE InodeGood(s)' /\ InodeSectors(s)' = InodeSectors(s)
  <2>1. Unread(s)' <=> Unread(s)
    BY UnreadSame
  <2>2. s \in Linked' <=> s \in Linked
    BY DEF Linked
  <2>3. SameFace(inodes, inodes', s) /\ (FileOn(s)' => FileOn(s))
    BY DEF SameFace, FileOn
  <2> QED BY <2>1, <2>2, <2>3, InodeSame
<1>3. EntryOnce' /\ OwnedOnce
  BY DEF SectorsInv, EntryOnce
<1> DEFINE o1 == <<"call", p>>
<1>4. o1 \in Owner /\ Owns(o1) = CallSectors(p) /\ Owns(o1)' = CallSectors(p)'
  BY OwnersKnown
<1>5. ASSUME NEW o \in Owner, o # o1 PROVE Owns(o)' = Owns(o)
  <2>1. CASE \E s \in Sector : o = <<"inode", s>>
    BY <1>2, <2>1, OwnersKnown
  <2>2. CASE \E q \in Process : o = <<"call", q>>
    BY <1>1, <1>5, <2>2, OwnersKnown
  <2> QED BY <2>1, <2>2, OwnersKnown
<1> HIDE DEF o1
<1>6. OwnedOnce' /\ ((CallSectors(p) \cup N) \ D \subseteq CallSectors(p)' => Kept)
  <2>1. /\ D \subseteq Owns(o1) /\ Owns(o1)' \cup Owns(o1)' \subseteq (Owns(o1) \cup Owns(o1) \cup N) \ D
    BY <1>4
  <2>2. /\ OwnedOnce'
        /\ (Owns(o1) \cup Owns(o1) \cup N) \ D \subseteq Owns(o1)' \cup Owns(o1)' => Kept
    BY <1>3, <1>4, <1>5, <2>1, Exchange
  <2> QED BY <1>4, <2>2
<1> QED BY <1>1, <1>2, <1>3, <1>6 DEF SectorsInv

(* A call goes on with its sectors, or with fewer. *)
LEMMA CallKeeps ==
  ASSUME SectorsInv, OneInWindow', NEW p \in Process, OthersStay(p),
         UNCHANGED <<entry, free_map, inodes, fd_table>>, pc[p] # "fill_inode", pc'[p] # "fill_inode",
         CallSectors(p)' \subseteq CallSectors(p), CallGood(p)',
         \A s \in Sector : InUse(s) => disk'[s] = disk[s],
         \A q \in Process : q # p /\ pc[q] \in Created \ {"create_inode"} =>
                              disk'[call[q].sector] = disk[call[q].sector]
  PROVE  SectorsInv' /\ (CallSectors(p)' = CallSectors(p) => Kept)
<1> DEFINE N == {}
           D == {}
<1>1. /\ N \cap free_map = {} /\ D \subseteq CallSectors(p) /\ free_map' = (free_map \cup N) \ D
      /\ (CallSectors(p) \cup N) \ D = CallSectors(p)
  OBVIOUS
<1> HIDE DEF N, D
<1>2. CallSectors(p)' \subseteq (CallSectors(p) \cup N) \ D
  BY <1>1
<1>3. SectorsInv' /\ ((CallSectors(p) \cup N) \ D \subseteq CallSectors(p)' => Kept)
  BY <1>1, <1>2, CallStep
<1> QED BY <1>1, <1>3

Undone(p) == pc[p] \in {"create_lookup", "create_slot", "create_add"} /\ pc'[p] = "create_undo"

LEMMA OneRun == ASSUME NEW f \in Nat PROVE f .. f + 1 - 1 = {f}
OBVIOUS

LEMMA CreateSectors ==
  ASSUME FilesInv, SectorsInv, OneInWindow', NEW p \in Process, NEW n \in Name, NEW len \in Length,
         Create(p, n, len)
  PROVE  SectorsInv' /\ Kept
<1> DEFINE f == FirstFit(1)
           c == [NoCall EXCEPT !.name = n, !.sector = f, !.length = len]
<1>1. CASE CanAllocate(1) /\ free_map_allocate(f, 1) /\ Go(p, "create_data", c)
  <2>1. f \in Sector /\ (f .. f + 1 - 1) \cap free_map = {}
    <3>1. FitOK(1)
      BY <1>1, FitTyped
    <3> QED BY <3>1 DEF FitOK
  <2>2. f .. f + 1 - 1 = {f}
    <3> HIDE DEF f
    <3> QED BY <2>1, NumbersKnown, OneRun
  <2>3. c.sector = f
    BY DEF NoCall
  <2> HIDE DEF f, c
  <2>4. OthersStay(p) /\ pc'[p] = "create_data" /\ call'[p] = c
    BY <1>1, GoOne
  <2>5. pc[p] = "user" /\ UNCHANGED <<disk, entry, inodes, fd_table>>
    BY DEF Create, At, procVars
  <2>6. CallSectors(p) = {} /\ CallSectors(p)' = {f}
    BY <2>3, <2>4, <2>5 DEF CallSectors, HasSector, HasData, Creating, Created
  <2>7. CallGood(p)'
    BY <2>4 DEF CallGood, Created, Linking, Finding
  <2>8. free_map' = (free_map \cup {f}) \ {}
    BY <1>1, <2>2 DEF free_map_allocate
  <2> QED BY <2>1, <2>2, <2>4, <2>5, <2>6, <2>7, <2>8, CallStep
<1>2. CASE ~(CanAllocate(1) /\ free_map_allocate(f, 1) /\ Go(p, "create_data", c))
  <2>1. Stay /\ UNCHANGED <<disk, entry, free_map, inodes, fd_table>>
    BY <1>2 DEF Create, procVars
  <2>2. \A s \in Sector : SameFace(inodes, inodes', s) /\ (FileOn(s)' => FileOn(s))
    BY <2>1 DEF SameFace, FileOn
  <2> QED BY <2>1, <2>2, SectorsStill
<1> QED BY <1>1, <1>2

LEMMA CreateDataSectors ==
  ASSUME FilesInv, SectorsInv, OneInWindow', NEW p \in Process, CreateData(p)
  PROVE  SectorsInv' /\ Kept
<1> DEFINE len == call[p].length
           f == FirstFit(len)
           c == [call[p] EXCEPT !.start = f]
<1>1. pc[p] = "create_data" /\ UNCHANGED <<disk, entry, inodes, fd_table>>
  BY DEF CreateData, At, procVars
<1>2. call[p] \in CallType /\ len \in Nat
  BY CallGoes, NumbersKnown DEF CallType
<1>3. CallSectors(p) = {call[p].sector}
  BY <1>1 DEF CallSectors, HasSector, HasData, Creating, Created
<1>4. CASE CanAllocate(len) /\ free_map_allocate(f, len) /\ Go(p, "create_inode", c)
  <2> DEFINE N == f .. f + len - 1
  <2>1. N \cap free_map = {}
    BY <1>2, <1>4, FitTyped DEF FitOK
  <2>2. c.sector = call[p].sector /\ DataSectors(c) = N
    BY <1>2 DEF DataSectors, CallType
  <2>3. free_map' = (free_map \cup N) \ {}
    BY <1>4 DEF free_map_allocate
  <2> HIDE DEF N, c
  <2>4. OthersStay(p) /\ pc'[p] = "create_inode" /\ call'[p] = c
    BY <1>4, GoOne
  <2>5. CallSectors(p)' = {call[p].sector} \cup N
    BY <2>2, <2>4 DEF CallSectors, HasSector, HasData, Creating, Created, DataSectors
  <2>6. call[p].sector \notin N
    BY <1>3, <2>1, Disjoint
  <2>7. CallGood(p)'
    BY <2>2, <2>4, <2>6 DEF CallGood, Created, Linking, Finding, DataSectors
  <2> QED BY <1>1, <1>3, <2>1, <2>3, <2>4, <2>5, <2>7, CallStep
<1>5. CASE UNCHANGED free_map /\ Go(p, "create_undo", call[p])
  <2>1. OthersStay(p) /\ pc'[p] = "create_undo" /\ call'[p] = call[p]
    BY <1>5, GoOne
  <2>2. CallSectors(p)' = {call[p].sector}
    BY <2>1 DEF CallSectors, HasSector, HasData, Creating, Created
  <2>3. CallGood(p)'
    BY <2>1 DEF CallGood, Created, Linking, Finding
  <2> QED BY <1>1, <1>3, <1>5, <2>1, <2>2, <2>3, CallKeeps
<1> QED BY <1>4, <1>5 DEF CreateData

LEMMA CreateInodeSectors ==
  ASSUME FilesInv, SectorsInv, OneInWindow', NEW p \in Process, CreateInode(p)
  PROVE  SectorsInv' /\ Kept
<1> DEFINE i == [start |-> call[p].start, length |-> call[p].length]
<1>1. /\ pc[p] = "create_inode" /\ Go(p, "create_lookup", call[p])
      /\ disk' = [s \in Sector |-> IF s = call[p].sector THEN i
                                   ELSE IF s \in DataSectors(i) THEN Data(0) ELSE disk[s]]
      /\ UNCHANGED <<entry, free_map, inodes, fd_table>>
  BY DEF CreateInode, At, procVars
<1>2. DataSectors(i) = DataSectors(call[p])
  BY DEF DataSectors
<1>3. CallSectors(p) = {call[p].sector} \cup DataSectors(i)
  BY <1>1, <1>2 DEF CallSectors, HasSector, HasData, Created
<1>4. call[p].sector \in Sector
  BY <1>1, CallGoes DEF Created
<1>5. OthersStay(p) /\ pc'[p] = "create_lookup" /\ call'[p] = call[p]
  BY <1>1, GoOne
<1>6. disk'[call[p].sector] = i
  BY <1>1, <1>4
<1>7. CallGood(p)'
  <2>1. call[p].sector \notin DataSectors(call[p])
    BY <1>1 DEF SectorsInv, CallGood, Created
  <2> QED BY <1>5, <1>6, <2>1 DEF CallGood, Created, Linking, Finding, DataSectors
<1>8. CallSectors(p)' = CallSectors(p)
  BY <1>1, <1>5 DEF CallSectors, HasSector, HasData, Created, DataSectors
<1>9. ASSUME NEW s \in Sector, s \notin CallSectors(p) PROVE disk'[s] = disk[s]
  BY <1>1, <1>3, <1>9
<1> HIDE DEF i
<1>10. ASSUME NEW s \in Sector, InUse(s) PROVE disk'[s] = disk[s]
  BY <1>9, <1>10, Disjoint
<1>11. ASSUME NEW q \in Process, q # p, pc[q] \in Created PROVE disk'[call[q].sector] = disk[call[q].sector]
  <2>1. call[q].sector \in Sector /\ call[q].sector \in CallSectors(q)
    BY <1>11, CallGoes DEF CallSectors, HasSector
  <2> QED BY <1>9, <1>11, <2>1, Disjoint
<1> QED BY <1>1, <1>5, <1>7, <1>8, <1>10, <1>11, CallKeeps

LEMMA CreateLookupSectors ==
  ASSUME FilesInv, SectorsInv, OneInWindow', NEW p \in Process, CreateLookup(p)
  PROVE  SectorsInv' /\ (Kept \/ Undone(p))
<1>1. PICK l \in {"create_slot", "create_undo"} : Go(p, l, call[p])
  BY DEF CreateLookup
<1>2. pc[p] = "create_lookup" /\ UNCHANGED <<disk, entry, free_map, inodes, fd_table>>
  BY DEF CreateLookup, At, fsVars, procVars
<1>3. OthersStay(p) /\ pc'[p] = l /\ call'[p] = call[p]
  BY <1>1, GoOne
<1>4. CallGood(p)' /\ CallSectors(p)' \subseteq CallSectors(p)
  <2>1. CallGood(p)
    BY DEF SectorsInv
  <2> QED BY <1>2, <1>3, <2>1
          DEF CallGood, CallSectors, HasSector, HasData, Creating, Created, Linking, Finding, DataSectors
<1>5. l = "create_slot" => CallSectors(p)' = CallSectors(p)
  BY <1>2, <1>3 DEF CallSectors, HasSector, HasData, Created, DataSectors
<1> QED BY <1>2, <1>3, <1>4, <1>5, CallKeeps DEF Undone

LEMMA CreateSlotSectors ==
  ASSUME FilesInv, SectorsInv, OneInWindow', NEW p \in Process, CreateSlot(p)
  PROVE  SectorsInv' /\ (Kept \/ Undone(p))
<1> DEFINE m == Min(EmptySlots)
           c == [call[p] EXCEPT !.fd = m]
<1>1. pc[p] = "create_slot" /\ UNCHANGED <<disk, entry, free_map, inodes, fd_table>>
  BY DEF CreateSlot, At, fsVars, procVars
<1>2. CallGood(p)
  BY DEF SectorsInv
<1>3. CASE Go(p, "create_undo", call[p])
  <2>1. OthersStay(p) /\ pc'[p] = "create_undo" /\ call'[p] = call[p]
    BY <1>3, GoOne
  <2>2. CallGood(p)' /\ CallSectors(p)' \subseteq CallSectors(p)
    BY <1>1, <1>2, <2>1
       DEF CallGood, CallSectors, HasSector, HasData, Creating, Created, Linking, Finding, DataSectors
  <2> QED BY <1>1, <2>1, <2>2, CallKeeps DEF Undone
<1>4. CASE EmptySlots # {} /\ Go(p, "create_add", c)
  <2>1. m \in EmptySlots
    <3>1. EmptySlots \in SUBSET Nat
      BY NumbersKnown DEF EmptySlots
    <3> QED BY <1>4, <3>1, MinIsLeast
  <2> HIDE DEF m
  <2>2. /\ c.fd = m /\ c.sector = call[p].sector /\ c.start = call[p].start
        /\ c.length = call[p].length
    BY CallGoes DEF CallType
  <2> HIDE DEF c
  <2>3. OthersStay(p) /\ pc'[p] = "create_add" /\ call'[p] = c
    BY <1>4, GoOne
  <2>4. entry[m] = None
    BY <2>1 DEF EmptySlots
  <2>5. CallGood(p)'
    BY <1>1, <1>2, <2>2, <2>3, <2>4 DEF CallGood, Created, Linking, Finding, DataSectors
  <2>6. CallSectors(p)' = CallSectors(p)
    BY <1>1, <2>2, <2>3 DEF CallSectors, HasSector, HasData, Created, DataSectors
  <2> QED BY <1>1, <2>3, <2>5, <2>6, CallKeeps
<1> QED BY <1>3, <1>4 DEF CreateSlot

-----------------------------------------------------------------------------
(* The entry in the directory, and the release of sectors.                 *)

LEMMA LinkedIs ==
  ASSUME NEW r
  PROVE  /\ r \in Linked <=> \E i \in Slot : entry[i] # None /\ entry[i][2] = r
         /\ r \in Linked' <=> \E i \in Slot : entry'[i] # None /\ entry'[i][2] = r
BY DEF Linked

LEMMA CreateAddSectors ==
  ASSUME FilesInv, SectorsInv, OneInWindow', NEW p \in Process, CreateAdd(p)
  PROVE  SectorsInv' /\ (Kept \/ Undone(p))
<1>1. pc[p] = "create_add" /\ UNCHANGED <<disk, free_map, inodes, fd_table>>
  BY DEF CreateAdd, At, procVars
<1>0. call[p].sector \in Sector /\ call[p].fd \in Slot
  BY <1>1, CallGoes DEF CallOK, Created
<1>2. PICK s \in Sector, fd \in Slot : s = call[p].sector /\ fd = call[p].fd
  BY <1>0
<1>6. call[p] \in CallType /\ call[p].name \in Name /\ call[p].start \in Starts
  BY <1>1, CallGoes DEF Created
<1> DEFINE o1 == <<"call", p>>
           o2 == <<"inode", s>>
<1>3. /\ CallGood(p) /\ entry[fd] = None /\ s \notin DataSectors(call[p])
      /\ disk[s] = [start |-> call[p].start, length |-> call[p].length]
  BY <1>1, <1>2 DEF SectorsInv, CallGood, Created
<1>4. CASE UNCHANGED entry /\ Go(p, "create_undo", call[p])
  <2>1. OthersStay(p) /\ pc'[p] = "create_undo" /\ call'[p] = call[p]
    BY <1>4, GoOne
  <2>2. CallGood(p)' /\ CallSectors(p)' \subseteq CallSectors(p)
    BY <1>1, <1>3, <2>1
       DEF CallGood, CallSectors, HasSector, HasData, Creating, Created, Linking, Finding, DataSectors
  <2> QED BY <1>1, <1>4, <2>1, <2>2, CallKeeps DEF Undone
<1>5. CASE entry' = [entry EXCEPT ![fd] = <<call[p].name, s>>] /\ Return(p)
  <2>1. OthersStay(p) /\ pc'[p] = "user" /\ call'[p] = NoCall
    BY <1>5, GoOne DEF Return
  <2>2. CallSectors(p) = {s} \cup DataSectors(disk[s]) /\ DataSectors(disk[s]) = DataSectors(call[p])
    BY <1>1, <1>2, <1>3 DEF CallSectors, HasSector, HasData, Created, DataSectors
  <2>3. ~InUse(s) /\ InodeSectors(s) = {}
    <3>1. ~InUse(s)
      BY <1>2, <2>2, Disjoint
    <3> QED BY <3>1 DEF InodeSectors
  <2>4. /\ entry'[fd] = <<call[p].name, s>> /\ entry'[fd] # None /\ entry'[fd][2] = s
        /\ \A i \in Slot : i # fd => entry'[i] = entry[i]
    <3>1. entry \in [Slot -> {None} \cup (Name \X Sector)]
      BY FilesParts DEF StoreTyped
    <3>2. <<call[p].name, s>> \in Name \X Sector
      BY <1>2, <1>6
    <3> QED BY <1>2, <1>5, <3>1, <3>2, NoneAssumption
  <2>5. \A r : r \in Linked' <=> r \in Linked \/ r = s
    <3>1. ASSUME NEW r, r \in Linked' PROVE r \in Linked \/ r = s
      <4>1. PICK i \in Slot : entry'[i] # None /\ entry'[i][2] = r
        BY <3>1, LinkedIs
      <4>2. CASE i = fd
        BY <2>4, <4>1, <4>2
      <4>3. CASE i # fd
        BY <2>4, <4>1, <4>3, LinkedIs
      <4> QED BY <4>2, <4>3
    <3>2. ASSUME NEW r, r \in Linked PROVE r \in Linked'
      <4>1. PICK i \in Slot : entry[i] # None /\ entry[i][2] = r
        BY <3>2, LinkedIs
      <4>2. i # fd
        BY <1>3, <4>1
      <4> QED BY <2>4, <4>1, <4>2, LinkedIs
    <3>3. s \in Linked'
      BY <1>2, <2>4, LinkedIs
    <3> QED BY <3>1, <3>2, <3>3
  <2>6. EntryOnce'
    <3>1. \A i \in Slot : entry[i] # None => entry[i][2] # s
      BY <2>3 DEF InUse, Linked
    <3> QED BY <2>4, <3>1 DEF SectorsInv, EntryOnce
  <2>7. \A q \in Process : q # p => CallGood(q)' /\ CallSectors(q)' = CallSectors(q)
    BY <1>1, <2>1, OthersGood DEF Window
  <2>8. CallGood(p)' /\ CallSectors(p)' = {}
    BY <2>1 DEF CallGood, CallSectors, HasSector, HasData, Creating, Created, Linking, Finding
  <2>9. ASSUME NEW r \in Sector, r # s PROVE InodeGood(r)' /\ InodeSectors(r)' = InodeSectors(r)
    <3>1. Unread(r)' <=> Unread(r)
      BY <1>1, <2>1, UnreadSame
    <3>2. SameFace(inodes, inodes', r) /\ (FileOn(r)' => FileOn(r))
      BY <1>1 DEF SameFace, FileOn
    <3> QED BY <1>1, <2>5, <2>9, <3>1, <3>2, InodeSame
  <2>10. InodeSectors(s)' = {s} \cup DataSectors(disk[s])
    BY <1>1, <2>5 DEF InodeSectors, InUse, DataSectors
  <2>11. InodeGood(s)'
    <3>1. disk[s] \in DiskInode
      BY <1>3, <1>6 DEF DiskInode, CallType, Starts
    <3>2. ~Unread(s)'
      <4>1. ASSUME NEW q \in Process, pc'[q] = "fill_inode", call'[q].sector = s PROVE FALSE
        <5>1. q # p /\ CallGood(q)'
          BY <2>1, <2>7, <4>1
        <5>2. pc[q] = "fill_inode"
          BY <2>1, <4>1, <5>1 DEF OthersStay
        <5> QED BY <1>1, <5>1, <5>2 DEF SectorsInv, OneInWindow, Window
      <4> QED BY <4>1 DEF Unread, At
    <3>3. s \notin DataSectors(disk[s]) /\ inodes[s] = None
      BY <1>3, <2>2, <2>3 DEF InUse
    <3> QED BY <1>1, <3>1, <3>2, <3>3 DEF InodeGood, DataSectors, DiskInode, Starts
  <2>12. OwnedOnce' /\ Kept
    <3> DEFINE N == {}
               D == {}
    <3>1. /\ o1 \in Owner /\ Owns(o1) = CallSectors(p) /\ Owns(o1)' = {}
          /\ o2 \in Owner /\ Owns(o2) = {} /\ Owns(o2)' = CallSectors(p)
      BY <1>2, <2>2, <2>3, <2>8, <2>10, OwnersKnown
    <3>2. ASSUME NEW o \in Owner, o # o1, o # o2 PROVE Owns(o)' = Owns(o)
      <4>1. CASE \E r \in Sector : o = <<"inode", r>>
        BY <2>9, <3>2, <4>1, OwnersKnown
      <4>2. CASE \E q \in Process : o = <<"call", q>>
        BY <2>7, <3>2, <4>2, OwnersKnown
      <4> QED BY <4>1, <4>2, OwnersKnown
    <3> HIDE DEF o1, o2
    <3>3. /\ N \cap free_map = {} /\ D \subseteq Owns(o1) /\ free_map' = (free_map \cup N) \ D
          /\ Owns(o1)' \cup Owns(o2)' = (Owns(o1) \cup Owns(o2) \cup N) \ D
          /\ Owns(o1)' \cap Owns(o2)' = {}
      BY <1>1, <3>1
    <3>4. OwnedOnce
      BY DEF SectorsInv
    <3> HIDE DEF N, D
    <3> QED BY <3>1, <3>2, <3>3, <3>4, Exchange
  <2> QED BY <2>6, <2>7, <2>8, <2>9, <2>11, <2>12 DEF SectorsInv
<1> QED BY <1>2, <1>4, <1>5 DEF CreateAdd

(* Releasing sectors of a call. *)
LEMMA CreateUndoSectors ==
  ASSUME FilesInv, SectorsInv, OneInWindow', NEW p \in Process, CreateUndo(p)
  PROVE  SectorsInv' /\ Kept
<1> DEFINE D == {call[p].sector}
           N == {}
<1>1. pc[p] = "create_undo" /\ UNCHANGED <<disk, entry, inodes, fd_table>>
  BY DEF CreateUndo, At, procVars
<1>2. OthersStay(p) /\ pc'[p] = "user"
  BY GoOne DEF CreateUndo, Return
<1>3. call[p].sector \in Sector
  BY <1>1, CallGoes DEF Creating
<1>4. CallSectors(p) = D
  BY <1>1 DEF CallSectors, HasSector, HasData, Creating, Created
<1>5. CallSectors(p)' = {} /\ CallGood(p)'
  BY <1>2 DEF CallGood, CallSectors, HasSector, HasData, Creating, Created, Linking, Finding
<1>6. free_map' = (free_map \cup N) \ D
  BY <1>3, OneRun, NumbersKnown DEF CreateUndo, free_map_release
<1>7. N \cap free_map = {} /\ (CallSectors(p) \cup N) \ D = {}
  BY <1>4
<1> HIDE DEF N, D
<1> QED BY <1>1, <1>2, <1>4, <1>5, <1>6, <1>7, CallStep

LEMMA ReleaseInodeSectors ==
  ASSUME FilesInv, SectorsInv, OneInWindow', NEW p \in Process, ReleaseInode(p)
  PROVE  SectorsInv' /\ Kept
<1> DEFINE D == {call[p].sector}
           N == {}
<1>1. pc[p] = "release_inode" /\ UNCHANGED <<disk, entry, inodes, fd_table>>
  BY DEF ReleaseInode, At, procVars
<1>2. OthersStay(p) /\ pc'[p] = "release_data" /\ call'[p] = call[p]
  BY GoOne DEF ReleaseInode
<1>3. call[p].sector \notin DataSectors(call[p])
  BY <1>1 DEF SectorsInv, CallGood
<1>4. CallSectors(p) = D \cup DataSectors(call[p])
  BY <1>1 DEF CallSectors, HasSector, HasData
<1>10. call[p].sector \in Sector
  BY <1>4, Disjoint, FilesParts DEF StoreTyped
<1>5. CallSectors(p)' = DataSectors(call[p])
  BY <1>2 DEF CallSectors, HasSector, HasData, Creating, Created, DataSectors
<1>6. CallGood(p)'
  BY <1>2 DEF CallGood, Created, Linking, Finding
<1>7. free_map' = (free_map \cup N) \ D
  BY <1>10, OneRun, NumbersKnown DEF ReleaseInode, free_map_release
<1>8. N \cap free_map = {} /\ (CallSectors(p) \cup N) \ D = DataSectors(call[p])
  BY <1>3, <1>4
<1>9. D \subseteq CallSectors(p)
  BY <1>4
<1> HIDE DEF N, D
<1> QED BY <1>1, <1>2, <1>5, <1>6, <1>7, <1>8, <1>9, CallStep

LEMMA ReleaseDataSectors ==
  ASSUME FilesInv, SemaInv, SectorsInv, OneInWindow', NEW p \in Process, ReleaseData(p)
  PROVE  SectorsInv' /\ Kept
<1> DEFINE D == DataSectors(call[p])
           N == {}
<1>1. pc[p] = "release_data" /\ UNCHANGED <<disk, entry, inodes, fd_table>>
  BY DEF ReleaseData, At, procVars
<1>2. OthersStay(p) /\ pc'[p] \in {"user", "exit", "remove_done"}
  <2>1. call[p].next \in {"user", "exit", "remove_done"}
    BY <1>1 DEF SemaInv, ControlOK, Resumes
  <2> QED BY <2>1, GoOne DEF ReleaseData
<1>3. CallSectors(p) = D
  BY <1>1 DEF CallSectors, HasSector, HasData, Creating, Created
<1>4. CallSectors(p)' = {} /\ CallGood(p)'
  BY <1>2 DEF CallGood, CallSectors, HasSector, HasData, Creating, Created, Linking, Finding
<1>5. free_map' = (free_map \cup N) \ D
  BY DEF ReleaseData, free_map_release, DataSectors
<1>6. N \cap free_map = {} /\ (CallSectors(p) \cup N) \ D = {}
  BY <1>3
<1> HIDE DEF N, D
<1> QED BY <1>1, <1>2, <1>3, <1>4, <1>5, <1>6, CallStep

-----------------------------------------------------------------------------
(* Steps of calls that own nothing.                                        *)

(* Labels of a call that owns nothing, and of those it remembers nothing at. *)
Plain == {"none", "user", "exit", "remove_done", "write_sector", "load"}
Owning == HasSector \cup HasData

LEMMA PlainGood ==
  ASSUME NEW p \in Process
  PROVE  /\ pc[p] \in Plain => CallGood(p)
         /\ pc'[p] \in Plain => CallGood(p)'
         /\ pc[p] \notin Owning => CallSectors(p) = {}
         /\ pc'[p] \notin Owning => CallSectors(p)' = {}
         /\ pc[p] \in Plain \cup Linking => pc[p] \notin Owning
         /\ pc'[p] \in Plain \cup Linking => pc'[p] \notin Owning
BY DEF Plain, Owning, CallGood, CallSectors, HasSector, HasData, Creating, Created, Linking, Finding

(* Steps that own nothing and tell nothing new of the inodes. *)
LEMMA PlainSectors ==
  ASSUME FilesInv, SectorsInv, OneInWindow', NEW p \in Process, NEW l \in Plain, NEW c, Go(p, l, c),
         pc[p] \in Plain \cup {"open_inode"}, UNCHANGED <<disk, entry, free_map>>,
         \A s \in Sector : SameFace(inodes, inodes', s) /\ (FileOn(s)' => FileOn(s))
  PROVE  SectorsInv' /\ Kept
<1>1. OthersStay(p) /\ pc'[p] = l
  BY GoOne
<1>2. pc[p] # "fill_inode" /\ l # "fill_inode" /\ pc[p] \in Plain \cup Linking
  BY DEF Plain, Linking, Finding
<1>3. CallGood(p)' /\ CallSectors(p)' = CallSectors(p)
  BY <1>1, <1>2, PlainGood
<1> QED BY <1>1, <1>2, <1>3, SectorsQuiet

LEMMA SameFaces ==
  UNCHANGED <<inodes, fd_table>> => \A s \in Sector : SameFace(inodes, inodes', s) /\ (FileOn(s)' => FileOn(s))
BY DEF SameFace, FileOn

(* The scan of the directory. *)
LEMMA FindSectors ==
  ASSUME FilesInv, SectorsInv, OneInWindow', NEW p \in Process, NEW n \in Name,
         Open(p, n) \/ Remove(p, n) \/ Exec(p, n) \/ Boot(p, n)
  PROVE  SectorsInv' /\ Kept
<1>1. pc[p] \in Plain /\ UNCHANGED <<disk, entry, free_map, inodes, fd_table>>
  BY DEF Open, Remove, Exec, Boot, Idle, At, fsVars, procVars, Plain
<1>2. PICK next \in {"open", "exec", "remove"}, otherwise \in {"user", "exit", "none", "remove_done"} :
        Find(p, n, next, otherwise)
  BY DEF Open, Remove, Exec, Boot, Idle, At
<1> DEFINE m == Min(lookup(n))
           c == [NoCall EXCEPT !.sector = entry[m][2], !.fd = m, !.next = next]
<1>3. CASE Go(p, otherwise, NoCall)
  BY <1>1, <1>3, SameFaces, PlainSectors DEF Plain
<1>4. CASE lookup(n) # {} /\ Go(p, "open_inode", c)
  <2>1. m \in lookup(n)
    <3>1. lookup(n) \in SUBSET Nat
      BY NumbersKnown DEF lookup
    <3> QED BY <1>4, <3>1, MinIsLeast
  <2> HIDE DEF m
  <2>2. c.fd = m /\ c.sector = entry[m][2]
    BY DEF NoCall
  <2> HIDE DEF c
  <2>3. OthersStay(p) /\ pc'[p] = "open_inode" /\ call'[p] = c
    BY <1>4, GoOne
  <2>4. CallGood(p)'
    BY <1>1, <2>1, <2>2, <2>3 DEF CallGood, Created, lookup
  <2>5. pc[p] # "fill_inode" /\ pc'[p] # "fill_inode" /\ pc'[p] \in Plain \cup Linking
    BY <1>1, <2>3 DEF Plain, Linking, Finding
  <2> QED BY <1>1, <2>3, <2>4, <2>5, SameFaces, PlainGood, SectorsQuiet
<1> QED BY <1>2, <1>3, <1>4 DEF Find

LEMMA IdleSectors ==
  ASSUME FilesInv, SectorsInv, OneInWindow', NEW p \in Process,
         RemoveDone(p) \/ Exit(p) \/ WriteFault(p) \/ ExitDone(p)
  PROVE  SectorsInv' /\ Kept
<1>1. pc[p] \in Plain /\ UNCHANGED <<disk, entry, free_map, inodes, fd_table>>
  BY DEF RemoveDone, Exit, WriteFault, ExitDone, At, fsVars, procVars, Plain
<1>2. \E l \in Plain : Go(p, l, NoCall)
  BY DEF RemoveDone, Exit, WriteFault, ExitDone, Return, call_exit, Plain
<1> QED BY <1>1, <1>2, SameFaces, PlainSectors

(* Moving the position of a file opens none. *)
LEMMA FileMoves ==
  ASSUME FilesInv, NEW p \in Process, NEW fd \in Fd, NEW pos, fd_table[p][fd] # None,
         SetFile(p, fd, [fd_table[p][fd] EXCEPT !.pos = pos]), NEW s
  PROVE  FileOn(s)' => FileOn(s)
<1> DEFINE f == [fd_table[p][fd] EXCEPT !.pos = pos]
<1>1. f.inode = fd_table[p][fd].inode
  BY FilesParts DEF TablesTyped, RowOK, FileType
<1> HIDE DEF f
<1>2. /\ fd_table'[p][fd] = f
      /\ \A q \in Process, g \in Fd : q # p \/ g # fd => fd_table'[q][g] = fd_table[q][g]
  BY FilesParts DEF SetFile, TablesTyped, RowOK, f
<1> QED BY <1>1, <1>2 DEF FileOn

LEMMA ReadSectors ==
  ASSUME FilesInv, SectorsInv, OneInWindow', NEW p \in Process, NEW fd \in Fd, Read(p, fd)
  PROVE  SectorsInv' /\ Kept
<1>1. pc[p] = "user" /\ UNCHANGED <<disk, entry, free_map, inodes>>
  BY DEF Read, At, fsVars
<1>2. CASE call_exit(p) /\ UNCHANGED fd_table
  BY <1>1, <1>2, SameFaces, PlainSectors DEF call_exit, Plain
<1>3. CASE /\ ~BadFd(p, fd) /\ Stay
           /\ LET f == fd_table[p][fd] IN
                \E pos \in {f.pos} \cup f.pos .. inodes[f.inode].length : SetFile(p, fd, [f EXCEPT !.pos = pos])
  <2>1. PICK pos : SetFile(p, fd, [fd_table[p][fd] EXCEPT !.pos = pos])
    BY <1>3
  <2>2. \A s \in Sector : FileOn(s)' => FileOn(s)
    BY <1>3, <2>1, FileMoves DEF BadFd
  <2> QED BY <1>1, <1>3, <2>2, SectorsStill DEF SameFace
<1>4. ~BadFd(p, fd) =>
        \/ call_exit(p) /\ UNCHANGED fd_table
        \/ /\ Stay
           /\ LET f == fd_table[p][fd] IN
                \E pos \in {f.pos} \cup f.pos .. inodes[f.inode].length : SetFile(p, fd, [f EXCEPT !.pos = pos])
  BY DEF Read
<1> QED BY <1>2, <1>3, <1>4 DEF Read

LEMMA SeekSectors ==
  ASSUME FilesInv, SectorsInv, NEW p \in Process, NEW fd \in Fd, NEW pos \in Pos, Seek(p, fd, pos)
  PROVE  SectorsInv' /\ Kept
<1>1. SetFile(p, fd, [fd_table[p][fd] EXCEPT !.pos = pos])
  BY FilesParts DEF Seek, SetFile, TablesTyped
<1>2. fd_table[p][fd] # None /\ Stay /\ UNCHANGED <<disk, entry, free_map, inodes>>
  BY DEF Seek, fsVars
<1>3. \A s \in Sector : FileOn(s)' => FileOn(s)
  BY <1>1, <1>2, FileMoves
<1> QED BY <1>2, <1>3, SectorsStill DEF SameFace

LEMMA WriteStartSectors ==
  ASSUME FilesInv, SectorsInv, OneInWindow', NEW p \in Process, NEW fd \in Fd, WriteStart(p, fd)
  PROVE  SectorsInv' /\ Kept
<1>1. pc[p] = "user" /\ UNCHANGED <<disk, entry, free_map, inodes, fd_table>>
  BY DEF WriteStart, At, fsVars, procVars
<1>2. CASE Stay
  BY <1>1, <1>2, SameFaces, SectorsStill
<1>3. CASE ~Stay
  <2>1. \E l \in Plain : \E c : Go(p, l, c)
    BY <1>3 DEF WriteStart, call_exit, Plain
  <2> QED BY <1>1, <2>1, SameFaces, PlainSectors DEF Plain
<1> QED BY <1>2, <1>3

LEMMA WriteDoneSectors ==
  ASSUME FilesInv, IdxInv, SectorsInv, OneInWindow', NEW p \in Process, WriteDone(p)
  PROVE  SectorsInv' /\ Kept
<1> DEFINE fd == call[p].fd
           pos == call[p].start
<1>1. /\ pc[p] = "write_sector" /\ Go(p, "user", NoCall)
      /\ UNCHANGED <<disk, entry, free_map, inodes>>
  BY DEF WriteDone, At, Return, fsVars
<1>2. fd \in Fd /\ fd_table[p][fd] # None
  BY <1>1 DEF IdxInv, Writes
<1>3. SetFile(p, fd, [fd_table[p][fd] EXCEPT !.pos = pos])
  BY <1>2, FilesParts DEF WriteDone, SetFile, TablesTyped
<1> HIDE DEF fd, pos
<1>4. \A s \in Sector : FileOn(s)' => FileOn(s)
  BY <1>2, <1>3, FileMoves
<1> QED BY <1>1, <1>4, PlainSectors DEF Plain, SameFace

-----------------------------------------------------------------------------
(* Writing, loading, forking and the machine.                              *)

(* What a write changes: a sector of the data of the file's inode. *)
WrittenAt(p, v, s, x) ==
  /\ call[p].fd \in Fd /\ fd_table[p][call[p].fd] # None /\ s = fd_table[p][call[p].fd].inode
  /\ InUse(s) /\ s \notin DataSectors(disk[s])
  /\ call[p].start \in Nat /\ call[p].start < disk[s].length /\ x = disk[s].start + call[p].start
  /\ x \in InodeSectors(s) /\ x # s /\ disk' = [disk EXCEPT ![x] = Data(v)]

LEMMA WriteWhere ==
  ASSUME FilesInv, IdxInv, SectorsInv, NEW p \in Process, NEW v \in Value, WriteSector(p, v)
  PROVE  \E s \in Sector, x \in Sector : WrittenAt(p, v, s, x)
<1>1. pc[p] = "write_sector" /\ UNCHANGED <<entry, free_map, inodes, fd_table>>
  BY DEF WriteSector, At, procVars
<1>2. /\ call[p].fd \in Fd /\ fd_table[p][call[p].fd] # None
      /\ fd_table[p][call[p].fd].inode \in Sector /\ inodes[fd_table[p][call[p].fd].inode] # None
  BY <1>1, PointedAtOpen DEF IdxInv, Writes
<1>3. PICK s \in Sector : s = fd_table[p][call[p].fd].inode
  BY <1>2
<1>4. inodes[s].start = disk[s].start /\ inodes[s].length = disk[s].length /\ s \notin DataSectors(disk[s])
  <2>1. FileOn(s) /\ InUse(s) /\ inodes[s] # None
    BY <1>2, <1>3 DEF FileOn, InUse
  <2> QED BY <2>1 DEF SectorsInv, InodeGood
<1>5. PICK x : x = inodes[s].start + call[p].start
  OBVIOUS
<1>6. /\ x \in DataSectors(disk[s]) /\ disk' = [disk EXCEPT ![x] = Data(v)]
      /\ call[p].start \in Nat /\ call[p].start < disk[s].length
  <2>1. call[p].start < inodes[s].length /\ disk' = [disk EXCEPT ![x] = Data(v)]
    BY <1>3, <1>5 DEF WriteSector
  <2>2. call[p].start \in Nat /\ inodes[s].start \in Nat /\ inodes[s].length \in Nat
    <3>1. inodes[s] \in Inode /\ call[p] \in CallType
      BY <1>2, <1>3, CallGoes, FilesParts DEF Table
    <3>2. call[p].start \in 0 .. LastSector + MaxPos
      BY <3>1 DEF CallType
    <3>3. inodes[s].start \in {0} \cup Sector /\ inodes[s].length \in 0 .. LastSector
      BY <3>1 DEF Inode
    <3>4. \A k, m : k \in 0 .. m => k \in Nat
      OBVIOUS
    <3>5. {0} \cup Sector \subseteq Nat
      BY NumbersKnown
    <3> QED BY <3>2, <3>3, <3>4, <3>5
  <2> DEFINE a == inodes[s].start
             b == call[p].start
             n == inodes[s].length
  <2>3. a + b \in a .. a + n - 1
    <3>1. a \in Nat /\ b \in Nat /\ n \in Nat /\ b < n
      BY <2>1, <2>2
    <3> HIDE DEF a, b, n
    <3> QED BY <3>1
  <2>4. DataSectors(disk[s]) = a .. a + n - 1
    BY <1>4 DEF DataSectors
  <2> QED BY <1>4, <1>5, <2>1, <2>2, <2>3, <2>4
<1>7. InUse(s)
  BY <1>2, <1>3 DEF InUse
<1>8. x \in InodeSectors(s)
  BY <1>6, <1>7 DEF InodeSectors
<1>9. x \in Sector
  BY <1>8, Disjoint, FilesParts DEF StoreTyped
<1> QED BY <1>2, <1>3, <1>4, <1>5, <1>6, <1>7, <1>8, <1>9 DEF WrittenAt

LEMMA WriteSectorSectors ==
  ASSUME FilesInv, IdxInv, SectorsInv, OneInWindow', NEW p \in Process, NEW v \in Value, WriteSector(p, v)
  PROVE  SectorsInv' /\ Kept
<1>1. pc[p] = "write_sector" /\ UNCHANGED <<entry, free_map, inodes, fd_table>>
  BY DEF WriteSector, At, procVars
<1>2. PICK s \in Sector, x \in Sector : WrittenAt(p, v, s, x)
  BY WriteWhere
<1>3. \A r \in Sector : r # x => disk'[r] = disk[r]
  BY <1>2, FilesParts DEF StoreTyped, WrittenAt
<1>4. ASSUME NEW r \in Sector, InUse(r) PROVE disk'[r] = disk[r]
  <2>1. CASE r = s
    BY <1>2, <1>3, <2>1 DEF WrittenAt
  <2>2. CASE r # s
    <3>1. r \in InodeSectors(r) /\ InodeSectors(r) \cap InodeSectors(s) = {}
      BY <1>4, <2>2, Disjoint
    <3>2. x \in InodeSectors(s)
      BY <1>2 DEF WrittenAt
    <3> QED BY <1>3, <3>1, <3>2
  <2> QED BY <2>1, <2>2
<1>5. ASSUME NEW q \in Process, q # p, pc[q] \in Created PROVE disk'[call[q].sector] = disk[call[q].sector]
  <2>1. call[q].sector \in Sector /\ call[q].sector \in CallSectors(q)
    BY <1>5, CallGoes DEF CallSectors, HasSector
  <2>2. x \in InodeSectors(s)
    BY <1>2 DEF WrittenAt
  <2>3. InodeSectors(s) \cap CallSectors(q) = {}
    BY Disjoint
  <2> QED BY <1>3, <2>1, <2>2, <2>3
<1>6. OthersStay(p) /\ pc'[p] = "write_sector"
  BY GoOne DEF WriteSector
<1>7. CallGood(p)' /\ CallSectors(p)' = CallSectors(p)
  BY <1>1, <1>6, PlainGood DEF Plain
<1> QED BY <1>1, <1>4, <1>5, <1>6, <1>7, CallKeeps

LEMMA LoadSectors ==
  ASSUME FilesInv, SectorsInv, OneInWindow', NEW p \in Process, Load(p)
  PROVE  SectorsInv' /\ Kept
<1>1. pc[p] = "load" /\ UNCHANGED <<disk, entry, free_map, fd_table>>
  BY DEF Load, At
<1>2. call[p].sector \in Sector /\ inodes[call[p].sector] # None
  BY <1>1, PointedAtOpen DEF Counted
<1>3. PICK s \in Sector : s = call[p].sector
  BY <1>2
<1>4. \A r \in Sector : SameFace(inodes, inodes', r)
  <2>1. CASE inodes' = inode_deny_write(inodes, s)
    <3> DEFINE i == [inodes[s] EXCEPT !.deny_write_cnt = inodes[s].deny_write_cnt + 1]
    <3>1. inodes \in Table /\ inodes[s] \in Inode
      BY <1>2, <1>3, FilesParts DEF Table
    <3>2. i \in Inode /\ i.removed = inodes[s].removed /\ i.start = inodes[s].start /\ i.length = inodes[s].length
      BY <3>1 DEF Inode
    <3>3. i # None
      BY <3>2, NoneAssumption
    <3>4. inodes'[s] = i /\ \A r \in Sector : r # s => inodes'[r] = inodes[r]
      BY <2>1, <3>1 DEF inode_deny_write, Table
    <3> HIDE DEF i
    <3> QED BY <1>2, <1>3, <3>2, <3>3, <3>4 DEF SameFace
  <2>2. CASE UNCHANGED inodes
    BY <2>2 DEF SameFace
  <2> QED BY <1>3, <2>1, <2>2 DEF Load
<1>5. \E l \in Plain : Go(p, l, NoCall)
  BY DEF Load, Return, call_exit, Plain
<1>6. \A r \in Sector : FileOn(r)' => FileOn(r)
  BY <1>1 DEF FileOn
<1> QED BY <1>1, <1>4, <1>5, <1>6, PlainSectors DEF Plain

LEMMA ForkSectors ==
  ASSUME FilesInv, SectorsInv, OneInWindow', NEW p \in Process, NEW c \in Process, Fork(p, c)
  PROVE  SectorsInv' /\ Kept
<1>1. pc[c] = "none" /\ Go(c, "user", NoCall) /\ UNCHANGED <<disk, entry, free_map>>
  BY DEF Fork, At
<1>2. PICK fds \in SUBSET {fd \in Fd : fd_table[p][fd] # None} :
        /\ fd_table' = [fd_table EXCEPT ![c] = [fd \in Fd |-> IF fd \in fds THEN fd_table[p][fd] ELSE None]]
        /\ inodes' = [s \in Sector |->
             inode_reopen(inodes, s, Cardinality({fd \in fds : fd_table[p][fd].inode = s}))[s]]
  BY DEF Fork
<1>3. ASSUME NEW s \in Sector PROVE SameFace(inodes, inodes', s)
  <2>1. PICK n : n = Cardinality({fd \in fds : fd_table[p][fd].inode = s})
    OBVIOUS
  <2>2. inodes'[s] = inode_reopen(inodes, s, n)[s]
    BY <1>2, <2>1
  <2>3. CASE inodes[s] = None
    BY <2>2, <2>3 DEF inode_reopen, SameFace
  <2>4. CASE inodes[s] # None
    <3>1. n \in Nat
      <4>1. {fd \in fds : fd_table[p][fd].inode = s} \subseteq Fd
        OBVIOUS
      <4> QED BY <2>1, <4>1, NumbersKnown, FS_Subset, FS_CardinalityType
    <3> DEFINE i == [inodes[s] EXCEPT !.open_cnt = inodes[s].open_cnt + n]
    <3>2. inodes \in Table /\ inodes[s] \in Inode
      BY <2>4, FilesParts DEF Table
    <3>3. i \in Inode /\ i.removed = inodes[s].removed /\ i.start = inodes[s].start /\ i.length = inodes[s].length
      BY <3>1, <3>2 DEF Inode
    <3>4. inodes'[s] = i
      BY <2>2, <2>4, <3>2 DEF inode_reopen, Table
    <3> HIDE DEF i
    <3> QED BY <2>4, <3>3, <3>4, NoneAssumption DEF SameFace
  <2> QED BY <2>3, <2>4
<1>4. ASSUME NEW s \in Sector PROVE FileOn(s)' => FileOn(s)
  <2>1. /\ \A fd \in Fd : fd_table'[c][fd] # None => fd_table'[c][fd] = fd_table[p][fd]
        /\ \A q \in Process : q # c => fd_table'[q] = fd_table[q]
    BY <1>2, FilesParts DEF TablesTyped
  <2> QED BY <2>1 DEF FileOn
<1> QED BY <1>1, <1>3, <1>4, PlainSectors DEF Plain

LEMMA PowerOffSectors ==
  ASSUME SectorsInv, PowerOff PROVE SectorsInv'
<1>1. /\ \A p \in Process : pc'[p] = "none"
      /\ \A s \in Sector : inodes'[s] = None
      /\ UNCHANGED <<disk, entry, free_map>>
  BY DEF PowerOff
<1>2. ASSUME NEW p \in Process PROVE CallGood(p)' /\ CallSectors(p)' = {}
  BY <1>1, PlainGood DEF Plain
<1>3. ASSUME NEW s \in Sector PROVE InodeGood(s)' /\ InodeSectors(s)' \subseteq InodeSectors(s)
  <2>1. ~Unread(s)' /\ (InUse(s)' => InUse(s))
    BY <1>1, LinkedIs DEF Unread, At, InUse
  <2>2. InodeGood(s)'
    <3>1. InodeGood(s)
      BY DEF SectorsInv
    <3> QED BY <1>1, <2>1, <3>1 DEF InodeGood, DataSectors, DiskInode, Starts
  <2>3. InodeSectors(s)' \subseteq InodeSectors(s)
    BY <1>1, <2>1 DEF InodeSectors, DataSectors
  <2> QED BY <2>2, <2>3
<1>4. OwnedOnce'
  <2>1. ASSUME NEW o \in Owner PROVE Owns(o)' \subseteq Owns(o)
    <3>1. CASE \E s \in Sector : o = <<"inode", s>>
      BY <1>3, <3>1, OwnersKnown
    <3>2. CASE \E p \in Process : o = <<"call", p>>
      BY <1>2, <3>2, OwnersKnown
    <3> QED BY <3>1, <3>2, OwnersKnown
  <2> QED BY <1>1, <2>1 DEF OwnedOnce, SectorsInv
<1>5. OneInWindow' /\ EntryOnce'
  BY <1>1 DEF OneInWindow, EntryOnce, SectorsInv, Window
<1> QED BY <1>2, <1>3, <1>4, <1>5 DEF SectorsInv

LEMMA InitSectors == ASSUME Init PROVE SectorsInv
<1>1. /\ \A p \in Process : pc[p] = "none"
      /\ \A s \in Sector : inodes[s] = None
      /\ free_map = 2 .. 2 + ProgramLength
  BY DEF Init
<1>2. LastSector \in Nat /\ ProgramLength \in Nat /\ 2 \in Sector /\ 1 \in Slot /\ Slots \in Nat
      /\ 2 + ProgramLength <= LastSector
  BY FilesAssumption, FilesysAssumption DEF Sector, Slot
<1>3. \A s : s \in Linked <=> s = 2
  <2>1. /\ entry[1] = <<Program, 2>> /\ \A i \in Slot : i # 1 => entry[i] = None
    BY <1>2 DEF Init
  <2>2. <<Program, 2>> # None
    BY <1>2, FilesAssumption, NoneAssumption
  <2>3. ASSUME NEW s PROVE (\E i \in Slot : entry[i] # None /\ entry[i][2] = s) <=> s = 2
    BY <1>2, <2>1, <2>2
  <2> QED BY <2>3, LinkedIs
<1>4. EntryOnce
  BY DEF Init, EntryOnce
<1>5. disk[2] = [start |-> IF ProgramLength = 0 THEN 0 ELSE 3, length |-> ProgramLength]
  BY <1>2 DEF Init
<1>6. DataSectors(disk[2]) = 3 .. 2 + ProgramLength
  BY <1>2, <1>5 DEF DataSectors
<1>7. disk[2] \in DiskInode
  BY <1>2, <1>5 DEF DiskInode, Sector
<1>8. ASSUME NEW p \in Process PROVE CallGood(p) /\ CallSectors(p) = {}
  BY <1>1, PlainGood DEF Plain
<1>9. ASSUME NEW s \in Sector
      PROVE  InodeGood(s) /\ InodeSectors(s) = IF s = 2 THEN {2} \cup 3 .. 2 + ProgramLength ELSE {}
  <2>1. InUse(s) <=> s = 2
    BY <1>1, <1>3 DEF InUse
  <2>2. ~Unread(s)
    BY <1>1 DEF Unread, At
  <2>3. 2 \notin 3 .. 2 + ProgramLength
    OBVIOUS
  <2>4. CASE s = 2
    BY <1>1, <1>6, <1>7, <2>1, <2>2, <2>3, <2>4 DEF InodeGood, InodeSectors
  <2>5. CASE s # 2
    BY <2>1, <2>5 DEF InodeGood, InodeSectors
  <2> QED BY <2>4, <2>5
<1>10. OwnedOnce
  <2> DEFINE o2 == <<"inode", 2>>
  <2>1. Owns(o2) = {2} \cup 3 .. 2 + ProgramLength
    BY <1>2, <1>9, OwnersKnown
  <2>2. ASSUME NEW o \in Owner, o # o2 PROVE Owns(o) = {}
    <3>1. CASE \E s \in Sector : o = <<"inode", s>>
      BY <1>9, <2>2, <3>1, OwnersKnown
    <3>2. CASE \E p \in Process : o = <<"call", p>>
      BY <1>8, <3>2, OwnersKnown
    <3> QED BY <3>1, <3>2, OwnersKnown
  <2>3. Owns(o2) \subseteq free_map
    BY <1>1, <1>2, <2>1
  <2> HIDE DEF o2
  <2> QED BY <2>2, <2>3 DEF OwnedOnce
<1>11. OneInWindow
  BY <1>1 DEF OneInWindow, Window
<1> QED BY <1>4, <1>8, <1>9, <1>10, <1>11 DEF SectorsInv

-----------------------------------------------------------------------------
(* A step on the inode of one sector.                                      *)

(* A step of p in which the sectors of the inode of s stay with it or all  *)
(* go to the call.                                                         *)
LEMMA OneInode ==
  ASSUME SectorsInv, OneInWindow', EntryOnce', NEW p \in Process, OthersStay(p),
         entry' = entry \/ pc[p] \in Window, UNCHANGED <<disk, free_map>>,
         NEW s \in Sector, InodeGood(s)', CallGood(p)', CallSectors(p) = {},
         pc[p] = "fill_inode" => call[p].sector = s, pc'[p] = "fill_inode" => call'[p].sector = s,
         \A r \in Sector : r # s => /\ SameFace(inodes, inodes', r) /\ (FileOn(r)' => FileOn(r))
                                    /\ (r \in Linked' <=> r \in Linked),
         \/ InodeSectors(s)' = InodeSectors(s) /\ CallSectors(p)' = {}
         \/ InodeSectors(s)' = {} /\ CallSectors(p)' = InodeSectors(s)
  PROVE  SectorsInv' /\ Kept
<1>1. \A q \in Process : q # p => CallGood(q)' /\ CallSectors(q)' = CallSectors(q)
  BY OthersGood
<1>2. ASSUME NEW r \in Sector, r # s PROVE InodeGood(r)' /\ InodeSectors(r)' = InodeSectors(r)
  <2>1. Unread(r)' <=> Unread(r)
    BY <1>2, UnreadSame
  <2> QED BY <1>2, <2>1, InodeSame
<1> DEFINE o1 == <<"inode", s>>
           o2 == <<"call", p>>
           N == {}
           D == {}
<1>3. /\ o1 \in Owner /\ Owns(o1) = InodeSectors(s) /\ Owns(o1)' = InodeSectors(s)'
      /\ o2 \in Owner /\ Owns(o2) = {} /\ Owns(o2)' = CallSectors(p)'
  BY OwnersKnown
<1>4. ASSUME NEW o \in Owner, o # o1, o # o2 PROVE Owns(o)' = Owns(o)
  <2>1. CASE \E r \in Sector : o = <<"inode", r>>
    BY <1>2, <1>4, <2>1, OwnersKnown
  <2>2. CASE \E q \in Process : o = <<"call", q>>
    BY <1>1, <1>4, <2>2, OwnersKnown
  <2> QED BY <2>1, <2>2, OwnersKnown
<1> HIDE DEF o1, o2
<1>5. /\ N \cap free_map = {} /\ D \subseteq Owns(o1) /\ free_map' = (free_map \cup N) \ D
      /\ Owns(o1)' \cup Owns(o2)' = (Owns(o1) \cup Owns(o2) \cup N) \ D
      /\ Owns(o1)' \cap Owns(o2)' = {}
  BY <1>3
<1>6. OwnedOnce
  BY DEF SectorsInv
<1> HIDE DEF N, D
<1>7. OwnedOnce' /\ Kept
  BY <1>3, <1>4, <1>5, <1>6, Exchange
<1> QED BY <1>1, <1>2, <1>7 DEF SectorsInv

Pointed == \A p \in Process : pc[p] \in Counted => inodes[call[p].sector] # None
LEMMA PointedNow == FilesInv => Pointed
BY PointedAtOpen DEF Pointed

(* The inode of s in the table t is as InodeGood wants it after the step,  *)
(* and the others are as they were.                                        *)
Ready(t, s) ==
  /\ t[s].removed = TRUE <=> s \notin Linked'
  /\ ~Unread(s)' => t[s].start = disk[s].start /\ t[s].length = disk[s].length
  /\ Unread(s)' => ~FileOn(s)'
  /\ \A r \in Sector : r # s => /\ SameFace(inodes, t, r) /\ (FileOn(r)' => FileOn(r))
                                /\ (r \in Linked' <=> r \in Linked)

LEMMA CloseFaces ==
  ASSUME NEW t \in Table, NEW s \in Sector, t[s] # None
  PROVE  /\ \A r \in Sector : r # s => inode_close(t, s)[r] = t[r]
         /\ LastOpener(t, s) => inode_close(t, s)[s] = None
         /\ ~LastOpener(t, s) => SameFace(t, inode_close(t, s), s)
<1> DEFINE i == [t[s] EXCEPT !.open_cnt = t[s].open_cnt - 1]
<1>1. t[s] \in Inode
  BY DEF Table
<1>2. ~LastOpener(t, s) => i \in Inode
  BY <1>1 DEF Inode, LastOpener
<1>3. i.removed = t[s].removed /\ i.start = t[s].start /\ i.length = t[s].length
  BY <1>1 DEF Inode
<1>4. ~LastOpener(t, s) => inode_close(t, s)[s] = i
  BY DEF inode_close, Table
<1> HIDE DEF i
<1>5. ~LastOpener(t, s) => SameFace(t, inode_close(t, s), s)
  BY <1>2, <1>3, <1>4, NoneAssumption DEF SameFace
<1>6. /\ \A r \in Sector : r # s => inode_close(t, s)[r] = t[r]
      /\ LastOpener(t, s) => inode_close(t, s)[s] = None
  BY DEF inode_close, Table
<1> QED BY <1>5, <1>6

LEMMA CloseSectors ==
  ASSUME FilesInv, SectorsInv, Pointed', OneInWindow', EntryOnce', NEW p \in Process,
         NEW t \in Table, NEW s \in Sector, t[s] # None, InUse(s),
         NEW next \in {"user", "exit", "remove_done"}, CloseInode(p, t, s, next),
         entry' = entry \/ pc[p] \in Window, UNCHANGED <<disk, free_map>>,
         pc[p] \in Plain \cup Linking, pc[p] = "fill_inode" => call[p].sector = s, Ready(t, s)
  PROVE  SectorsInv' /\ Kept
<1> DEFINE c == [NoCall EXCEPT !.sector = s, !.start = t[s].start,
                               !.length = t[s].length, !.next = next]
<1>1. inodes' = inode_close(t, s)
  BY DEF CloseInode
<1>2. \A r \in Sector : r # s => /\ SameFace(inodes, inodes', r) /\ (FileOn(r)' => FileOn(r))
                                 /\ (r \in Linked' <=> r \in Linked)
  BY <1>1, CloseFaces DEF Ready, SameFace
<1>3. CallSectors(p) = {}
  BY PlainGood
<1>4. InodeSectors(s) = {s} \cup DataSectors(disk[s])
  BY DEF InodeSectors
<1>5. disk[s] \in DiskInode /\ s \notin DataSectors(disk[s])
  BY DEF SectorsInv, InodeGood
<1>6. LastOpener(t, s) => inodes'[s] = None /\ ~Unread(s)'
  <2>1. inodes'[s] = None => ~Unread(s)'
    BY DEF Pointed, Unread, At, Counted
  <2> QED BY <1>1, <2>1, CloseFaces
<1>7. ~LastOpener(t, s) => SameFace(t, inodes', s)
  BY <1>1, CloseFaces
<1>8. InodeGood(s)'
  <2>1. InUse(s)' /\ LastOpener(t, s) => InodeGood(s)'
    BY <1>5, <1>6 DEF InodeGood, DataSectors, DiskInode, Starts
  <2>2. ~LastOpener(t, s) => InodeGood(s)'
    <3> SUFFICES ASSUME ~LastOpener(t, s) PROVE InodeGood(s)'
      OBVIOUS
    <3>1. /\ inodes'[s] # None => (inodes'[s].removed = TRUE <=> s \notin Linked')
          /\ inodes'[s] # None /\ ~Unread(s)' =>
               inodes'[s].start = disk[s].start /\ inodes'[s].length = disk[s].length
      BY <1>7 DEF SameFace, Ready
    <3>2. Unread(s)' => ~FileOn(s)'
      BY DEF Ready
    <3> QED BY <1>5, <3>1, <3>2 DEF InodeGood, DataSectors, DiskInode, Starts
  <2> QED BY <2>1, <2>2 DEF InodeGood
<1>9. CASE LastOpener(t, s) /\ t[s].removed /\ Go(p, "release_inode", c)
  <2>1. s \notin Linked' /\ t[s].start = disk[s].start /\ t[s].length = disk[s].length
    BY <1>6, <1>9 DEF Ready
  <2>2. InodeSectors(s)' = {}
    BY <1>6, <1>9, <2>1 DEF InodeSectors, InUse
  <2>3. c.sector = s /\ DataSectors(c) = DataSectors(disk[s])
    BY <2>1 DEF NoCall, DataSectors
  <2> HIDE DEF c
  <2>4. OthersStay(p) /\ pc'[p] = "release_inode" /\ call'[p] = c
    BY <1>9, GoOne
  <2>5. CallSectors(p)' = InodeSectors(s)
    BY <1>4, <2>3, <2>4 DEF CallSectors, HasSector, HasData, DataSectors
  <2>6. CallGood(p)'
    BY <1>5, <2>3, <2>4 DEF CallGood, Created, Linking, Finding, DataSectors
  <2> QED BY <1>2, <1>3, <1>8, <2>2, <2>4, <2>5, <2>6, OneInode
<1>10. CASE ~(LastOpener(t, s) /\ t[s].removed) /\ Go(p, next, NoCall)
  <2>1. OthersStay(p) /\ pc'[p] = next
    BY <1>10, GoOne
  <2>2. next \in Plain /\ next # "fill_inode"
    BY DEF Plain
  <2>3. CallGood(p)' /\ CallSectors(p)' = {}
    BY <2>1, <2>2, PlainGood
  <2>4. InUse(s)'
    <3>1. LastOpener(t, s) => s \in Linked'
      <4>1. t[s].removed \in BOOLEAN
        BY DEF Table, Inode
      <4> QED BY <1>10, <4>1 DEF Ready
    <3>2. ~LastOpener(t, s) => inodes'[s] # None
      BY <1>7 DEF SameFace
    <3> QED BY <3>1, <3>2 DEF InUse
  <2>5. InodeSectors(s)' = InodeSectors(s)
    BY <1>4, <2>4 DEF InodeSectors, DataSectors
  <2> QED BY <1>2, <1>3, <1>8, <2>1, <2>2, <2>3, <2>5, OneInode
<1> QED BY <1>9, <1>10 DEF CloseInode

(* The inode of s stays open. *)
LEMMA KeepSectors ==
  ASSUME FilesInv, SectorsInv, OneInWindow', NEW p \in Process,
         NEW s \in Sector, inodes'[s] # None, InUse(s), UNCHANGED <<disk, entry, free_map>>,
         OthersStay(p), pc[p] \in Plain \cup Linking, pc'[p] \in Plain \cup Linking, CallGood(p)',
         pc[p] = "fill_inode" => call[p].sector = s, pc'[p] = "fill_inode" => call'[p].sector = s,
         Ready(inodes', s)
  PROVE  SectorsInv' /\ Kept
<1>1. CallSectors(p) = {} /\ CallSectors(p)' = {}
  BY PlainGood
<1>2. InodeSectors(s)' = InodeSectors(s)
  BY DEF InodeSectors, InUse, DataSectors
<1>3. disk[s] \in DiskInode /\ s \notin DataSectors(disk[s])
  BY DEF SectorsInv, InodeGood
<1>4. InodeGood(s)'
  BY <1>3 DEF InodeGood, Ready, DataSectors, DiskInode, Starts
<1>5. EntryOnce'
  BY DEF SectorsInv, EntryOnce
<1>6. \A r \in Sector : r # s => /\ SameFace(inodes, inodes', r) /\ (FileOn(r)' => FileOn(r))
                                 /\ (r \in Linked' <=> r \in Linked)
  BY DEF Ready
<1> QED BY <1>1, <1>2, <1>4, <1>5, <1>6, OneInode

-----------------------------------------------------------------------------
(* Opening and closing.                                                    *)

(* A call between its scan of the directory and the end of what it does    *)
(* there has the inode of a name, and no other call is there.              *)
LEMMA LinkingAlone ==
  ASSUME FilesInv, SectorsInv, NEW p \in Process, pc[p] \in Linking
  PROVE  /\ call[p].sector \in Linked /\ call[p].sector \in Sector /\ InUse(call[p].sector)
         /\ pc[p] \in Window
         /\ \A s : pc[p] # "fill_inode" => ~Unread(s)
         /\ \A s : OthersStay(p) /\ pc'[p] # "fill_inode" => ~Unread(s)'
<1>1. pc[p] \in Window
  BY DEF Window, Linking, Finding
<1>2. \A q \in Process : pc[q] = "fill_inode" => q = p
  BY <1>1 DEF SectorsInv, OneInWindow, Window
<1>3. call[p].sector \in Linked
  BY LinkedIs DEF SectorsInv, CallGood
<1>4. call[p].sector \in Sector
  BY CallGoes DEF CallOK, Linking, Finding, WithSector, Counted
<1>5. ASSUME NEW s
      PROVE  /\ pc[p] # "fill_inode" => ~Unread(s)
             /\ OthersStay(p) /\ pc'[p] # "fill_inode" => ~Unread(s)'
  BY <1>2 DEF Unread, At, OthersStay
<1> QED BY <1>1, <1>3, <1>4, <1>5 DEF InUse

(* The call has the inode of s, read, in the table t. *)
Got(t, s) ==
  /\ t \in Table /\ t[s] # None
  /\ t[s].removed = TRUE <=> s \notin Linked
  /\ t[s].start = disk[s].start /\ t[s].length = disk[s].length
  /\ \A r \in Sector : r # s => t[r] = inodes[r]

LEMMA GotReady ==
  ASSUME NEW t, NEW s \in Sector, Got(t, s), entry' = entry, ~Unread(s)',
         \A r \in Sector : r # s => (FileOn(r)' => FileOn(r))
  PROVE  Ready(t, s)
<1>1. Linked' = Linked
  BY DEF Linked
<1>2. \A r \in Sector : r # s => SameFace(inodes, t, r)
  BY DEF Got, SameFace
<1> QED BY <1>1, <1>2 DEF Ready, Got

LEMMA OpenedSectors ==
  ASSUME FilesInv, SectorsInv, Pointed', OneInWindow', NEW p \in Process, pc[p] \in Finding,
         NEW t, NEW s \in Sector, s = call[p].sector, Got(t, s), Opened(p, t, s),
         UNCHANGED <<disk, entry, free_map>>
  PROVE  SectorsInv' /\ Kept
<1>1. pc[p] \in Linking /\ InUse(s) /\ \A r : OthersStay(p) /\ pc'[p] # "fill_inode" => ~Unread(r)'
  BY LinkingAlone DEF Linking
<1>2. t \in Table /\ t[s] # None
  BY DEF Got
<1>3. EntryOnce'
  BY DEF SectorsInv, EntryOnce
<1>4. ASSUME NEW next \in {"user", "exit"}, CloseInode(p, t, s, next), UNCHANGED fd_table
      PROVE  SectorsInv' /\ Kept
  <2>1. PICK l \in {"release_inode", next}, c \in CallType : Go(p, l, c)
    BY <1>2, <1>4, CloseGoes
  <2>2. ~Unread(s)'
    BY <1>1, <2>1, GoOne
  <2>3. \A r \in Sector : FileOn(r)' => FileOn(r)
    BY <1>4 DEF FileOn
  <2>4. Ready(t, s)
    BY <2>2, <2>3, GotReady
  <2> QED BY <1>1, <1>2, <1>3, <1>4, <2>4, CloseSectors
<1>5. ASSUME NEW l \in {"user", "load", "remove_erase"}, NEW c, Go(p, l, c), inodes' = t,
             \A r \in Sector : r # s => (FileOn(r)' => FileOn(r)), l = "remove_erase" => c = call[p]
      PROVE  SectorsInv' /\ Kept
  <2>1. OthersStay(p) /\ pc'[p] = l /\ call'[p] = c
    BY <1>5, GoOne
  <2>2. ~Unread(s)'
    BY <1>1, <1>5, <2>1
  <2>3. Ready(inodes', s)
    BY <1>5, <2>2, GotReady
  <2>4. CallGood(p)'
    <3>1. CASE l = "remove_erase"
      <4>1. CallGood(p)
        BY DEF SectorsInv
      <4> QED BY <1>1, <1>5, <2>1, <3>1, <4>1 DEF CallGood, Created, Linking
    <3>2. CASE l # "remove_erase"
      BY <2>1, <3>2, PlainGood DEF Plain
    <3> QED BY <3>1, <3>2
  <2>5. pc'[p] \in Plain \cup Linking /\ pc'[p] # "fill_inode"
    BY <2>1 DEF Plain, Linking
  <2> QED BY <1>1, <1>2, <1>5, <2>1, <2>3, <2>4, <2>5, KeepSectors
<1>6. CASE OpenFile(p, t, s)
  <2>1. CASE \E fd \in FreeFds(p) : inodes' = t /\ SetFile(p, fd, File(s, 0)) /\ Return(p)
    <3>1. PICK fd \in FreeFds(p) : inodes' = t /\ SetFile(p, fd, File(s, 0)) /\ Return(p)
      BY <2>1
    <3>2. fd \in Fd
      BY DEF FreeFds
    <3>3. File(s, 0).inode = s
      BY DEF File
    <3>4. /\ fd_table'[p][fd] = File(s, 0)
          /\ \A q \in Process, g \in Fd : q # p \/ g # fd => fd_table'[q][g] = fd_table[q][g]
      BY <3>1, <3>2, FilesParts DEF SetFile, TablesTyped, RowOK
    <3>5. \A r \in Sector : r # s => (FileOn(r)' => FileOn(r))
      BY <3>3, <3>4 DEF FileOn
    <3> QED BY <1>5, <3>1, <3>5 DEF Return
  <2>2. CASE CloseInode(p, t, s, "user") /\ UNCHANGED fd_table
    BY <1>4, <2>2
  <2> QED BY <1>6, <2>1, <2>2 DEF OpenFile
<1>7. CASE UNCHANGED fd_table /\ inodes' = t /\ \E l \in {"load", "remove_erase"} : Go(p, l, call[p])
  <2>1. \A r \in Sector : FileOn(r)' => FileOn(r)
    BY <1>7 DEF FileOn
  <2> QED BY <1>5, <1>7, <2>1
<1>8. CASE UNCHANGED fd_table /\ CloseInode(p, t, s, "exit")
  BY <1>4, <1>8
<1> QED BY <1>6, <1>7, <1>8 DEF Opened

LEMMA OpenInodeSectors ==
  ASSUME FilesInv, SectorsInv, Pointed', OneInWindow', NEW p \in Process, OpenInode(p)
  PROVE  SectorsInv' /\ Kept
<1>1. pc[p] = "open_inode" /\ UNCHANGED <<disk, entry, free_map>>
  BY DEF OpenInode, At
<1>2. pc[p] \in Finding /\ pc[p] \in Linking /\ pc[p] # "fill_inode"
  BY <1>1 DEF Linking, Finding
<1>3. PICK s \in Sector : s = call[p].sector
  BY <1>2, LinkingAlone
<1>4. s \in Linked /\ InUse(s) /\ ~Unread(s)
  BY <1>2, <1>3, LinkingAlone
<1>5. inodes \in Table /\ InodeGood(s) /\ CallGood(p)
  BY FilesParts DEF SectorsInv
<1>6. CASE inodes[s] # None /\ Opened(p, inode_reopen(inodes, s, 1), s)
  <2> DEFINE t == inode_reopen(inodes, s, 1)
  <2>0. 1 \in Nat
    OBVIOUS
  <2>1. t \in Table /\ t[s] # None /\ t[s].start = inodes[s].start /\ t[s].length = inodes[s].length
        /\ t[s].removed = inodes[s].removed /\ \A r \in Sector : r # s => t[r] = inodes[r]
    BY <1>5, <1>6, <2>0, ReopenTable
  <2> HIDE DEF t
  <2>2. Got(t, s)
    BY <1>4, <1>5, <1>6, <2>1 DEF Got, InodeGood
  <2> QED BY <1>1, <1>2, <1>3, <1>6, <2>2, OpenedSectors DEF t
<1>7. CASE /\ inodes[s] = None /\ UNCHANGED fd_table
           /\ \E g \in Garbage : inodes' = inode_enter(inodes, s, g)
           /\ Go(p, "fill_inode", call[p])
  <2>1. PICK g \in Garbage : inodes' = inode_enter(inodes, s, g)
    BY <1>7
  <2>2. Entered(inode_enter(inodes, s, g), inodes, s)
    BY <1>5, <1>7, EnterTable
  <2>3. /\ inodes'[s] # None /\ inodes'[s].removed = FALSE
        /\ \A r \in Sector : r # s => inodes'[r] = inodes[r]
    BY <2>1, <2>2 DEF Entered
  <2>4. OthersStay(p) /\ pc'[p] = "fill_inode" /\ call'[p] = call[p]
    BY <1>7, GoOne
  <2>5. Unread(s)'
    BY <1>3, <2>4 DEF Unread, At
  <2>6. \A r : FileOn(r)' <=> FileOn(r)
    BY <1>7 DEF FileOn
  <2>7. ~FileOn(s)
    BY <1>7, PointedAtOpen DEF FileOn
  <2>8. Linked' = Linked
    BY <1>1 DEF Linked
  <2>9. Ready(inodes', s)
    BY <1>4, <2>3, <2>5, <2>6, <2>7, <2>8 DEF Ready, SameFace
  <2>10. CallGood(p)'
    BY <1>1, <1>2, <1>5, <2>4 DEF CallGood, Created, Linking, Finding
  <2>11. pc'[p] \in Plain \cup Linking
    BY <2>4 DEF Linking, Finding
  <2> QED BY <1>1, <1>2, <1>3, <1>4, <2>3, <2>4, <2>9, <2>10, <2>11, KeepSectors
<1>8. CASE Go(p, Without(call[p].next), NoCall) /\ UNCHANGED <<inodes, fd_table>>
  <2>1. PICK l \in Plain : Go(p, l, NoCall)
    BY <1>8 DEF Without, Plain
  <2> QED BY <1>1, <1>8, <2>1, SameFaces, PlainSectors
<1> QED BY <1>3, <1>6, <1>7, <1>8 DEF OpenInode

LEMMA FillInodeSectors ==
  ASSUME FilesInv, SectorsInv, Pointed', OneInWindow', NEW p \in Process, FillInode(p)
  PROVE  SectorsInv' /\ Kept
<1>1. pc[p] = "fill_inode" /\ UNCHANGED <<disk, entry, free_map>>
  BY DEF FillInode, At
<1>2. pc[p] \in Finding /\ pc[p] \in Linking /\ pc[p] \in Counted
  BY <1>1 DEF Linking, Finding, Counted
<1>3. PICK s \in Sector : s = call[p].sector
  BY <1>2, LinkingAlone
<1>4. InUse(s) /\ inodes[s] # None
  BY <1>2, <1>3, LinkingAlone, PointedAtOpen
<1>5. inodes \in Table /\ StoreTyped /\ InodeGood(s)
  BY FilesParts DEF SectorsInv
<1>6. OnDisk(s) = disk[s]
  BY <1>4, <1>5 DEF InodeGood, OnDisk, DiskInode
<1> DEFINE t == inode_fill(inodes, s)
<1>7. t \in Table /\ t[s] # None /\ t[s].start = OnDisk(s).start /\ t[s].length = OnDisk(s).length
      /\ t[s].removed = inodes[s].removed /\ \A r \in Sector : r # s => t[r] = inodes[r]
  BY <1>4, <1>5, FillTable
<1>8. Opened(p, t, s)
  BY <1>3 DEF FillInode
<1> HIDE DEF t
<1>9. Got(t, s)
  BY <1>4, <1>5, <1>6, <1>7 DEF Got, InodeGood
<1> QED BY <1>1, <1>2, <1>3, <1>8, <1>9, OpenedSectors

(* A file is taken from its slot and closed. *)
LEMMA SlotSectors ==
  ASSUME FilesInv, SectorsInv, Pointed', OneInWindow', NEW p \in Process, pc[p] \in Plain,
         NEW fd \in Fd, fd_table[p][fd] # None, SetFile(p, fd, None), NEW next \in {"user", "exit"},
         CloseInode(p, inodes, fd_table[p][fd].inode, next), UNCHANGED <<disk, entry, free_map>>
  PROVE  SectorsInv' /\ Kept
<1>1. PICK s \in Sector : s = fd_table[p][fd].inode
  BY PointedAtOpen
<1>2. inodes[s] # None /\ inodes \in Table /\ InUse(s) /\ FileOn(s)
  BY <1>1, PointedAtOpen, FilesParts DEF FileOn, InUse
<1>3. PICK l \in {"release_inode", next}, c \in CallType : Go(p, l, c)
  BY <1>1, <1>2, CloseGoes
<1>4. OthersStay(p) /\ pc[p] # "fill_inode" /\ pc'[p] # "fill_inode"
  BY <1>3, GoOne DEF Plain
<1>5. InodeGood(s) /\ ~Unread(s)
  BY <1>2 DEF SectorsInv, InodeGood
<1>6. ~Unread(s)'
  BY <1>4, <1>5, UnreadSame
<1>7. \A q \in Process, g \in Fd : fd_table'[q][g] = fd_table[q][g] \/ fd_table'[q][g] = None
  BY FilesParts DEF SetFile, TablesTyped, RowOK
<1>8. \A r \in Sector : FileOn(r)' => FileOn(r)
  BY <1>7 DEF FileOn
<1>9. Got(inodes, s)
  BY <1>2, <1>5 DEF Got, InodeGood
<1>10. Ready(inodes, s)
  BY <1>6, <1>8, <1>9, GotReady
<1>11. EntryOnce'
  BY DEF SectorsInv, EntryOnce
<1> QED BY <1>1, <1>2, <1>4, <1>10, <1>11, CloseSectors

LEMMA CloseFdSectors ==
  ASSUME FilesInv, SectorsInv, Pointed', OneInWindow', NEW p \in Process, NEW fd \in Fd, Close(p, fd)
  PROVE  SectorsInv' /\ Kept
<1>1. pc[p] \in Plain /\ fd_table[p][fd] # None
  BY DEF Close, At, Plain
<1> QED BY <1>1, SlotSectors DEF Close

-----------------------------------------------------------------------------
(* Removing, exiting, and every step together.                             *)

LEMMA RemoveEraseSectors ==
  ASSUME FilesInv, SectorsInv, Pointed', OneInWindow', NEW p \in Process, RemoveErase(p)
  PROVE  SectorsInv' /\ Kept
<1>1. pc[p] = "remove_erase" /\ UNCHANGED <<disk, free_map, fd_table>>
  BY DEF RemoveErase, At, procVars
<1>2. pc[p] \in Linking /\ pc[p] \in Counted /\ pc[p] # "fill_inode"
  BY <1>1 DEF Linking, Counted
<1>3. PICK s \in Sector : s = call[p].sector
  BY <1>2, LinkingAlone
<1>4. /\ s \in Linked /\ InUse(s) /\ pc[p] \in Window /\ ~Unread(s) /\ inodes[s] # None
      /\ \A r : OthersStay(p) /\ pc'[p] # "fill_inode" => ~Unread(r)'
  BY <1>2, <1>3, LinkingAlone, PointedAtOpen
<1>5. inodes \in Table /\ InodeGood(s) /\ CallGood(p)
  BY FilesParts DEF SectorsInv
<1>6. PICK fd \in Slot : fd = call[p].fd /\ entry[fd] # None /\ entry[fd][2] = s
  BY <1>2, <1>3, <1>5 DEF CallGood
<1>7. \A r \in Sector : FileOn(r)' => FileOn(r)
  BY <1>1 DEF FileOn
<1>8. ASSUME NEW t \in Table, t[s] # None, CloseInode(p, t, s, "remove_done") PROVE ~Unread(s)'
  <2>1. PICK l \in {"release_inode", "remove_done"}, c \in CallType : Go(p, l, c)
    BY <1>8, CloseGoes
  <2> QED BY <1>4, <2>1, GoOne
<1>9. CASE UNCHANGED entry /\ CloseInode(p, inodes, s, "remove_done")
  <2>1. ~Unread(s)'
    BY <1>4, <1>5, <1>8, <1>9
  <2>2. Got(inodes, s)
    BY <1>4, <1>5 DEF Got, InodeGood
  <2>3. Ready(inodes, s)
    BY <1>7, <1>9, <2>1, <2>2, GotReady
  <2>4. EntryOnce'
    BY <1>9 DEF SectorsInv, EntryOnce
  <2> QED BY <1>1, <1>2, <1>4, <1>5, <1>9, <2>3, <2>4, CloseSectors
<1>10. CASE entry' = [entry EXCEPT ![fd] = None] /\ CloseInode(p, inode_remove(inodes, s), s, "remove_done")
  <2> DEFINE t == inode_remove(inodes, s)
  <2>1. t \in Table /\ t[s] # None /\ \A r \in Sector : r # s => t[r] = inodes[r]
    BY <1>4, <1>5, RemoveTable
  <2>2. t[s].removed = TRUE /\ t[s].start = inodes[s].start /\ t[s].length = inodes[s].length
    BY <1>4, <1>5 DEF inode_remove, Table, Inode
  <2>3. CloseInode(p, t, s, "remove_done")
    BY <1>10
  <2> HIDE DEF t
  <2>4. entry'[fd] = None /\ \A i \in Slot : i # fd => entry'[i] = entry[i]
    BY <1>10, FilesParts DEF StoreTyped
  <2>5. \A r : r \in Linked' <=> r \in Linked /\ r # s
    <3>1. ASSUME NEW r, r \in Linked' PROVE r \in Linked /\ r # s
      <4>1. PICK i \in Slot : entry'[i] # None /\ entry'[i][2] = r
        BY <3>1, LinkedIs
      <4>2. i # fd /\ entry[i] # None /\ entry[i][2] = r
        BY <2>4, <4>1
      <4>3. r # s
        BY <1>6, <4>2 DEF SectorsInv, EntryOnce
      <4> QED BY <4>2, <4>3, LinkedIs
    <3>2. ASSUME NEW r, r \in Linked, r # s PROVE r \in Linked'
      <4>1. PICK i \in Slot : entry[i] # None /\ entry[i][2] = r
        BY <3>2, LinkedIs
      <4>2. entry'[i] # None /\ entry'[i][2] = r
        BY <1>6, <2>4, <3>2, <4>1
      <4> QED BY <4>2, LinkedIs
    <3> QED BY <3>1, <3>2
  <2>6. EntryOnce'
    <3>1. ASSUME NEW i \in Slot, entry'[i] # None PROVE entry'[i] = entry[i]
      BY <2>4, <3>1
    <3> QED BY <3>1 DEF SectorsInv, EntryOnce
  <2>7. ~Unread(s)'
    BY <1>8, <2>1, <2>3
  <2>8. t[s].start = disk[s].start /\ t[s].length = disk[s].length
    BY <1>4, <1>5, <2>2 DEF InodeGood
  <2>9. Ready(t, s)
    BY <1>7, <2>1, <2>2, <2>5, <2>7, <2>8 DEF Ready, SameFace
  <2> QED BY <1>1, <1>2, <1>4, <2>1, <2>3, <2>6, <2>9, CloseSectors
<1> QED BY <1>3, <1>6, <1>9, <1>10 DEF RemoveErase

LEMMA ExitFileSectors ==
  ASSUME FilesInv, SectorsInv, Pointed', OneInWindow', NEW p \in Process, ExitFile(p)
  PROVE  SectorsInv' /\ Kept
<1> DEFINE open == {fd \in Fd : fd_table[p][fd] # None}
<1>1. pc[p] = "exit" /\ pc[p] \in Plain /\ UNCHANGED <<disk, entry, free_map>>
  BY DEF ExitFile, At, Plain
<1>2. CASE /\ file_cur[p] # None /\ UNCHANGED fd_table
           /\ CloseInode(p, inode_allow_write(inodes, file_cur[p]), file_cur[p], "exit")
  <2>1. PICK s \in Sector : s = file_cur[p]
    BY <1>2, PointedAtOpen
  <2>2. inodes[s] # None /\ inodes[s].deny_write_cnt > 0 /\ inodes \in Table /\ InUse(s)
    BY <1>2, <2>1, PointedAtOpen, FilesParts DEF InUse
  <2> DEFINE t == inode_allow_write(inodes, s)
  <2>3. t \in Table /\ t[s] # None /\ \A r \in Sector : r # s => t[r] = inodes[r]
    BY <2>2, AllowTable
  <2>4. t[s].removed = inodes[s].removed /\ t[s].start = inodes[s].start /\ t[s].length = inodes[s].length
    BY <2>2 DEF inode_allow_write, Table, Inode
  <2>5. CloseInode(p, t, s, "exit")
    BY <1>2, <2>1
  <2> HIDE DEF t
  <2>6. PICK l \in {"release_inode", "exit"}, c \in CallType : Go(p, l, c)
    BY <2>3, <2>5, CloseGoes
  <2>7. OthersStay(p) /\ pc[p] # "fill_inode" /\ pc'[p] # "fill_inode"
    BY <1>1, <2>6, GoOne
  <2>8. Unread(s)' <=> Unread(s)
    BY <2>7, UnreadSame
  <2>9. \A r : FileOn(r)' <=> FileOn(r)
    BY <1>2 DEF FileOn
  <2>10. Linked' = Linked
    BY <1>1 DEF Linked
  <2>11. InodeGood(s)
    BY DEF SectorsInv
  <2>12. Ready(t, s)
    BY <2>2, <2>3, <2>4, <2>8, <2>9, <2>10, <2>11 DEF Ready, SameFace, InodeGood
  <2>13. EntryOnce'
    BY <1>1 DEF SectorsInv, EntryOnce
  <2> QED BY <1>1, <2>2, <2>3, <2>5, <2>7, <2>12, <2>13, CloseSectors
<1>3. CASE /\ open # {} /\ SetFile(p, Min(open), None)
           /\ CloseInode(p, inodes, fd_table[p][Min(open)].inode, "exit")
  <2>1. Min(open) \in open
    <3>1. open \in SUBSET Nat
      BY NumbersKnown
    <3> QED BY <1>3, <3>1, MinIsLeast
  <2>2. PICK fd \in Fd : fd = Min(open) /\ fd_table[p][fd] # None
    BY <2>1
  <2> HIDE DEF open
  <2> QED BY <1>1, <1>3, <2>2, SlotSectors
<1> QED BY <1>2, <1>3 DEF ExitFile

LEMMA WindowOne ==
  ASSUME Cardinality(InWindow') <= 1 PROVE OneInWindow'
<1>1. IsFiniteSet(InWindow')
  <2>1. InWindow' \subseteq Process
    BY DEF InWindow
  <2> QED BY <2>1, FiniteProcesses, FS_Subset
<1>2. ASSUME NEW p \in Process, NEW q \in Process, pc'[p] \in Window, pc'[q] \in Window, p # q PROVE FALSE
  <2>1. {p, q} \subseteq InWindow'
    BY <1>2 DEF InWindow
  <2>4. IsFiniteSet({p}) /\ Cardinality({p}) = 1
    BY FS_Singleton
  <2>5. Cardinality({p} \cup {q}) = 2
    <3>1. q \notin {p}
      BY <1>2
    <3>2. Cardinality({p} \cup {q}) = Cardinality({p}) + 1
      BY <2>4, <3>1, FS_AddElement
    <3> QED BY <2>4, <3>2
  <2>6. {p} \cup {q} = {p, q}
    OBVIOUS
  <2>2. Cardinality({p, q}) = 2 /\ Cardinality({p, q}) <= Cardinality(InWindow')
    BY <1>1, <2>1, <2>5, <2>6, FS_Subset
  <2>3. Cardinality(InWindow') \in Nat
    BY <1>1, FS_CardinalityType
  <2> QED BY <2>2, <2>3
<1> QED BY <1>2 DEF OneInWindow

SectorsKept == SectorsInv' /\ (Kept \/ Idle' \/ \E p \in Process : Undone(p))

LEMMA SectorsProcess ==
  ASSUME FilesInv, SemaInv, IdxInv, SectorsInv, Pointed', OneInWindow',
         NEW p \in Process, ProcessStep(p)
  PROVE  SectorsKept
<1>1. CASE \E n \in Name, len \in Length : Create(p, n, len)
  BY <1>1, CreateSectors DEF SectorsKept
<1>2. CASE CreateData(p) \/ CreateInode(p) \/ CreateUndo(p) \/ ReleaseInode(p) \/ ReleaseData(p)
  BY <1>2, CreateDataSectors, CreateInodeSectors, CreateUndoSectors, ReleaseInodeSectors,
     ReleaseDataSectors DEF SectorsKept
<1>3. CASE CreateLookup(p) \/ CreateSlot(p) \/ CreateAdd(p)
  BY <1>3, CreateLookupSectors, CreateSlotSectors, CreateAddSectors DEF SectorsKept
<1>4. CASE \E n \in Name : Open(p, n) \/ Remove(p, n) \/ Exec(p, n) \/ Boot(p, n)
  BY <1>4, FindSectors DEF SectorsKept
<1>5. CASE OpenInode(p) \/ FillInode(p) \/ RemoveErase(p) \/ Load(p)
  BY <1>5, OpenInodeSectors, FillInodeSectors, RemoveEraseSectors, LoadSectors DEF SectorsKept
<1>6. CASE RemoveDone(p) \/ Exit(p) \/ WriteFault(p) \/ ExitDone(p)
  BY <1>6, IdleSectors DEF SectorsKept
<1>7. CASE \E fd \in Fd : Close(p, fd) \/ Read(p, fd) \/ WriteStart(p, fd) \/ \E pos \in Pos : Seek(p, fd, pos)
  BY <1>7, CloseFdSectors, ReadSectors, WriteStartSectors, SeekSectors DEF SectorsKept
<1>8. CASE (\E v \in Value : WriteSector(p, v)) \/ WriteDone(p)
  BY <1>8, WriteSectorSectors, WriteDoneSectors DEF SectorsKept
<1>9. CASE (\E c \in Process : Fork(p, c)) \/ ExitFile(p)
  BY <1>9, ForkSectors, ExitFileSectors DEF SectorsKept
<1> QED BY <1>1, <1>2, <1>3, <1>4, <1>5, <1>6, <1>7, <1>8, <1>9 DEF ProcessStep

LEMMA SectorsStep ==
  FilesInv /\ SemaInv /\ IdxInv /\ SectorsInv /\ Pointed' /\ [OrderlyNext]_vars => SectorsKept
<1> SUFFICES ASSUME FilesInv, SemaInv, IdxInv, SectorsInv, Pointed', [OrderlyNext]_vars
             PROVE  SectorsKept
  OBVIOUS
<1>1. CASE \E p \in Process : ProcessStep(p) /\ Cardinality(InWindow') <= 1
  BY <1>1, WindowOne, SectorsProcess
<1>2. CASE PowerOff
  <2>1. Idle'
    BY <1>2 DEF PowerOff, Idle, At
  <2> QED BY <1>2, <2>1, PowerOffSectors DEF SectorsKept
<1>3. CASE UNCHANGED vars
  <2>1. Stay /\ UNCHANGED <<disk, entry, free_map, inodes, fd_table>>
    BY <1>3 DEF vars, Stay
  <2> QED BY <2>1, SameFaces, SectorsStill DEF SectorsKept
<1> QED BY <1>1, <1>2, <1>3 DEF OrderlyNext, Next

OrderlyInv == SemaInv /\ IdxInv /\ FilesInv /\ SectorsInv

LEMMA OrderlyKept == OrderlySpec => []OrderlyInv
<1>1. Init => OrderlyInv
  BY SemaInit, IdxInit, InitInv, InitSectors DEF OrderlyInv
<1>2. OrderlyInv /\ [OrderlyNext]_vars => OrderlyInv'
  <2>1. [OrderlyNext]_vars => [Next]_vars
    BY DEF OrderlyNext
  <2>2. SemaInv /\ IdxInv /\ FilesInv /\ [Next]_vars => SemaInv' /\ IdxInv' /\ FilesInv'
    BY SemaStep, IdxStep, FilesStep
  <2>3. FilesInv' => Pointed'
    BY PointedNow, PTL
  <2>4. SectorsKept => SectorsInv'
    BY DEF SectorsKept
  <2>5. SemaInv' /\ IdxInv' /\ FilesInv' /\ SectorsInv' => OrderlyInv'
    BY DEF OrderlyInv
  <2> QED BY <2>1, <2>2, <2>3, <2>4, <2>5, SectorsStep DEF OrderlyInv
<1> QED BY <1>1, <1>2, PTL DEF OrderlySpec

(* Every sector in use has one owner and is marked as allocated, and what  *)
(* a name leads to is an inode, whichever calls run at the same time and   *)
(* wherever the machine stops, while one call at a time is between its     *)
(* scan of the directory and its use of what it found there.               *)
THEOREM SectorsHaveOneOwner == OrderlySpec => []SectorsOwnedOnce
<1>1. OrderlyInv => SectorsOwnedOnce
  BY SectorsOwned DEF OrderlyInv
<1> QED BY <1>1, OrderlyKept, PTL

(* The same calls lose a sector only when a create fails after inode_create *)
(* or the machine stops: filesys_create gives back the inode's sector, not  *)
(* those of the data.                                                       *)
THEOREM SectorsLeakByUndo == OrderlySpec => LeaksOnlyByUndo
<1> DEFINE A == \/ Leaked' \subseteq Leaked
                \/ Idle'
                \/ \E p \in Process : pc[p] \in {"create_lookup", "create_slot", "create_add"}
                                      /\ At(p, "create_undo")'
<1>1. OrderlyInv /\ OrderlyInv' /\ [OrderlyNext]_vars => [A]_vars
  <2>1. OrderlyInv' => FilesInv' /\ SectorsInv'
    BY DEF OrderlyInv
  <2>2. FilesInv' => Pointed'
    BY PointedNow, PTL
  <2>3. OrderlyInv /\ OrderlyInv' /\ [OrderlyNext]_vars => SectorsKept
    BY <2>1, <2>2, SectorsStep DEF OrderlyInv
  <2>4. (\E p \in Process : Undone(p)) => A
    BY DEF Undone, At
  <2>5. OrderlyInv /\ OrderlyInv' /\ Kept => A
    BY <2>1, NothingLeaks DEF OrderlyInv
  <2> QED BY <2>3, <2>4, <2>5 DEF SectorsKept
<1>2. OrderlySpec => [][A]_vars
  BY <1>1, OrderlyKept, PTL DEF OrderlySpec
<1> QED BY <1>2 DEF LeaksOnlyByUndo

-----------------------------------------------------------------------------
(* The abstract store.  Its objects are the inodes that something refers   *)
(* to; the proof shows what each step of a call does to the names, the     *)
(* objects and the handles, and that this is a step of Store or none.      *)

(* What a call knows of the file it creates or writes, and the directory.  *)
Zeroed == Created \ {"create_inode"}
CallKnows(p) ==
  /\ pc[p] \in Creating \cup Created => call[p].length \in Length
  /\ pc[p] \in Zeroed => \A d \in DataSectors(call[p]) : disk[d] = Data(0)
  /\ pc[p] \in {"create_slot", "create_add"} =>
       \A i \in Slot : entry[i] # None => entry[i][1] # call[p].name
  /\ pc[p] = "write_sector" => fd_table[p][call[p].fd].pos <= call[p].start
NameOnce ==
  \A i, j \in Slot : entry[i] # None /\ entry[j] # None /\ entry[i][1] = entry[j][1] => i = j
StoreInv == NameOnce /\ \A p \in Process : CallKnows(p)

-----------------------------------------------------------------------------
(* The view of the clients.                                                *)

FileHandle(f) == IF f = None THEN None ELSE <<f.inode, f.pos>>
LoadHandle(p) == IF pc[p] = "load" THEN <<call[p].sector, 0>> ELSE None

LEMMA HandlesAre ==
  /\ 0 \notin Fd
  /\ Handles = [p \in Process |-> [fd \in Fd \cup {0} |->
                  IF fd = 0 THEN LoadHandle(p) ELSE FileHandle(fd_table[p][fd])]]
  /\ Handles' = [p \in Process |-> [fd \in Fd \cup {0} |->
                  IF fd = 0 THEN LoadHandle(p)' ELSE FileHandle(fd_table'[p][fd])]]
<1>1. 0 \notin Fd
  BY NumbersKnown DEF Fd
<1> QED BY <1>1 DEF Handles, LoadHandle, FileHandle, At

(* A handle is never NULL, so Referenced reads as it should. *)
LEMMA HandleKnown ==
  ASSUME NEW s \in Sector, NEW k \in Nat PROVE <<s, k>> # None
BY NoHandle DEF Unseen

RefersTo(p, s) ==
  \/ file_cur[p] = s
  \/ pc[p] = "load" /\ call[p].sector = s
  \/ \E fd \in Fd : fd_table[p][fd] # None /\ fd_table[p][fd].inode = s

LEMMA ReferencedIs ==
  FilesInv => \A s \in Sector : Referenced(s) <=> s \in Linked \/ \E p \in Process : RefersTo(p, s)
<1> SUFFICES ASSUME FilesInv, NEW s \in Sector
             PROVE  Referenced(s) <=> s \in Linked \/ \E p \in Process : RefersTo(p, s)
  OBVIOUS
<1>1. ASSUME NEW p \in Process
      PROVE  (\E fd \in Fd \cup {0} : Handles[p][fd] # None /\ Handles[p][fd][1] = s)
             <=> \/ pc[p] = "load" /\ call[p].sector = s
                 \/ \E fd \in Fd : fd_table[p][fd] # None /\ fd_table[p][fd].inode = s
  <2>1. Handles[p][0] # None /\ Handles[p][0][1] = s <=> pc[p] = "load" /\ call[p].sector = s
    <3>1. pc[p] = "load" => call[p].sector \in Sector
      BY PointedAtOpen DEF Counted
    <3>2. Handles[p][0] = LoadHandle(p)
      BY HandlesAre
    <3>3. CASE pc[p] = "load"
      <4>1. LoadHandle(p) = <<call[p].sector, 0>> /\ <<call[p].sector, 0>> # None
        BY <3>1, <3>3, HandleKnown DEF LoadHandle
      <4> QED BY <3>2, <3>3, <4>1
    <3>4. CASE pc[p] # "load"
      BY <3>2, <3>4 DEF LoadHandle
    <3> QED BY <3>3, <3>4
  <2>2. ASSUME NEW fd \in Fd
        PROVE  Handles[p][fd] # None /\ Handles[p][fd][1] = s
               <=> fd_table[p][fd] # None /\ fd_table[p][fd].inode = s
    <3>1. Handles[p][fd] = FileHandle(fd_table[p][fd])
      BY HandlesAre
    <3>2. CASE fd_table[p][fd] = None
      BY <3>1, <3>2 DEF FileHandle
    <3>3. CASE fd_table[p][fd] # None
      <4>1. fd_table[p][fd].inode \in Sector /\ fd_table[p][fd].pos \in Nat
        BY <3>3, FilesParts DEF TablesTyped, RowOK, FileType
      <4>2. FileHandle(fd_table[p][fd]) # None /\ FileHandle(fd_table[p][fd])[1] = fd_table[p][fd].inode
        BY <3>3, <4>1, HandleKnown DEF FileHandle
      <4> QED BY <3>1, <3>3, <4>2
    <3> QED BY <3>2, <3>3
  <2> QED BY <2>1, <2>2
<1> QED BY <1>1 DEF Referenced, RefersTo

(* The cells of an object are what is on the disk. *)
Cells(s) == [i \in 1 .. disk[s].length |-> disk[disk[s].start + i - 1]]
ObjectsAre ==
  \A s \in Sector : /\ Contents(s) = IF Referenced(s) THEN Cells(s) ELSE None
                    /\ Referenced(s) => InUse(s)

LEMMA ReferencedInUse ==
  ASSUME FilesInv, NEW s \in Sector, Referenced(s) PROVE InUse(s)
<1>1. CASE s \in Linked
  BY <1>1 DEF InUse
<1>2. CASE \E p \in Process : RefersTo(p, s)
  BY <1>2, PointedAtOpen, NoneAssumption DEF InUse, RefersTo, Counted
<1> QED BY <1>1, <1>2, ReferencedIs

LEMMA ObjectsKnown == FilesInv /\ SectorsInv => ObjectsAre
<1> SUFFICES ASSUME FilesInv, SectorsInv, NEW s \in Sector
             PROVE  /\ Contents(s) = IF Referenced(s) THEN Cells(s) ELSE None
                    /\ Referenced(s) => InUse(s)
  BY DEF ObjectsAre
<1>1. CASE Referenced(s)
  <2>1. InUse(s)
    BY <1>1, ReferencedInUse
  <2>2. InodeGood(s) /\ disk[s] \in DiskInode
    BY <2>1 DEF SectorsInv, InodeGood
  <2>3. InodeOf(s).start = disk[s].start /\ InodeOf(s).length = disk[s].length
    <3>1. OnDisk(s) = disk[s]
      BY <2>2 DEF OnDisk, DiskInode
    <3>2. CASE inodes[s] = None \/ Unread(s)
      BY <3>1, <3>2 DEF InodeOf
    <3>3. CASE inodes[s] # None /\ ~Unread(s)
      BY <2>1, <2>2, <3>3 DEF InodeOf, InodeGood
    <3> QED BY <3>2, <3>3
  <2> QED BY <1>1, <2>1, <2>3 DEF Contents, Cells
<1>2. CASE ~Referenced(s)
  BY <1>2 DEF Contents
<1> QED BY <1>1, <1>2

(* Where no two entries have one name, the names lead to the linked inodes. *)
NamesLead ==
  /\ \A n \in Name, i \in Slot : entry[i] # None /\ entry[i][1] = n => Obj(n) = entry[i][2]
  /\ \A n \in Name : (\A i \in Slot : entry[i] # None => entry[i][1] # n) => Obj(n) = None
  /\ \A s \in Sector : s \in Linked <=> \E n \in Name : Obj(n) = s

LEMMA NamesKnown == StoreTyped /\ NameOnce => NamesLead
<1> SUFFICES ASSUME StoreTyped, NameOnce PROVE NamesLead
  OBVIOUS
<1>1. ASSUME NEW n \in Name, NEW i \in Slot, entry[i] # None, entry[i][1] = n PROVE Obj(n) = entry[i][2]
  <2>1. lookup(n) = {i}
    BY <1>1 DEF lookup, NameOnce
  <2>2. Min(lookup(n)) = i
    <3>1. lookup(n) \in SUBSET Nat /\ lookup(n) # {}
      BY <2>1, NumbersKnown
    <3> QED BY <2>1, <3>1, MinIsLeast
  <2> QED BY <2>1, <2>2 DEF Obj
<1>2. ASSUME NEW n \in Name, \A i \in Slot : entry[i] # None => entry[i][1] # n PROVE Obj(n) = None
  BY <1>2 DEF Obj, lookup
<1>3. ASSUME NEW i \in Slot, entry[i] # None PROVE entry[i] \in Name \X Sector
  BY <1>3 DEF StoreTyped
<1>4. ASSUME NEW s \in Sector PROVE s \in Linked <=> \E n \in Name : Obj(n) = s
  <2>1. ASSUME s \in Linked PROVE \E n \in Name : Obj(n) = s
    <3>1. PICK i \in Slot : entry[i] # None /\ entry[i][2] = s
      BY <2>1, LinkedIs
    <3> QED BY <1>1, <1>3, <3>1
  <2>2. ASSUME NEW n \in Name, Obj(n) = s PROVE s \in Linked
    <3>1. s # None
      BY NoneAssumption
    <3>2. PICK i \in Slot : entry[i] # None /\ entry[i][1] = n
      BY <1>2, <2>2, <3>1
    <3> QED BY <1>1, <2>2, <3>2, LinkedIs
  <2> QED BY <2>1, <2>2
<1> QED BY <1>1, <1>2, <1>4 DEF NamesLead

-----------------------------------------------------------------------------
(* What a step does to the view.                                           *)

LEMMA CellsSame ==
  ASSUME FilesInv, SectorsInv, NEW s \in Sector, InUse(s),
         \A d \in InodeSectors(s) : disk'[d] = disk[d]
  PROVE  Cells(s)' = Cells(s)
<1>1. disk[s] \in DiskInode
  BY DEF SectorsInv, InodeGood
<1>2. disk'[s] = disk[s]
  BY DEF InodeSectors
<1>3. ASSUME NEW i \in 1 .. disk[s].length PROVE disk[s].start + i - 1 \in InodeSectors(s)
  <2>1. disk[s].start \in Nat /\ disk[s].length \in Nat
    <3>1. disk[s].start \in {0} \cup Sector /\ disk[s].length \in 0 .. LastSector
      BY <1>1 DEF DiskInode
    <3>2. {0} \cup Sector \subseteq Nat /\ 0 .. LastSector \subseteq Nat
      BY NumbersKnown
    <3> QED BY <3>1, <3>2
  <2>2. disk[s].start + i - 1 \in disk[s].start .. disk[s].start + disk[s].length - 1
    BY <2>1
  <2> QED BY <2>2 DEF InodeSectors, DataSectors
<1> QED BY <1>2, <1>3 DEF Cells

(* The same objects are referred to, and their cells are the same. *)
LEMMA ObjectsSame ==
  ASSUME ObjectsAre, ObjectsAre',
         \A s \in Sector : (Referenced(s)' <=> Referenced(s)) /\ (Referenced(s) => Cells(s)' = Cells(s))
  PROVE  Objects' = Objects
<1>1. \A s \in Sector : Contents(s)' = Contents(s)
  BY DEF ObjectsAre
<1> QED BY <1>1 DEF Objects

(* Objects that are not referred to any more go. *)
LEMMA ObjectsGo ==
  ASSUME ObjectsAre, ObjectsAre', StoreTyped', NameOnce',
         \A s \in Sector : Referenced(s)' => Referenced(s) /\ Cells(s)' = Cells(s)
  PROVE  S!Keep(Objects)
<1>1. ASSUME NEW s \in Sector
      PROVE  Referenced(s)' <=>
               \/ \E n \in Name : Names'[n] = s
               \/ \E p \in Process :
                    \/ file_cur'[p] = s
                    \/ \E fd \in Fd \cup {0} : Handles'[p][fd] # None /\ Handles'[p][fd][1] = s
  <2>1. s \in Linked' <=> \E n \in Name : Names'[n] = s
    <3>1. NamesLead'
      BY NamesKnown, PTL
    <3> QED BY <3>1 DEF NamesLead, Names
  <2> QED BY <2>1 DEF Referenced
<1>2. \A s \in Sector : Contents(s)' = IF Referenced(s)' THEN Contents(s) ELSE None
  BY DEF ObjectsAre
<1>3. \A s \in Sector : Objects[s] = Contents(s)
  BY DEF Objects
<1>4. Objects' = [s \in Sector |-> IF Referenced(s)' THEN Objects[s] ELSE None]
  BY <1>2, <1>3 DEF Objects
<1> QED BY <1>1, <1>4 DEF S!Keep

LEMMA ViewSame ==
  ASSUME ObjectsAre, ObjectsAre', UNCHANGED <<entry, file_cur, Handles>>,
         \A s \in Sector : Referenced(s) => Cells(s)' = Cells(s)
  PROVE  UNCHANGED <<Names, Objects, Handles, file_cur>>
<1>1. \A s \in Sector : Referenced(s)' <=> Referenced(s)
  BY DEF Referenced, Linked
<1>2. Objects' = Objects
  BY <1>1, ObjectsSame
<1>3. Names' = Names
  BY DEF Names, Obj, lookup
<1> QED BY <1>2, <1>3

-----------------------------------------------------------------------------
(* The handles after a step.                                               *)

LEMMA HandlesStay ==
  ASSUME UNCHANGED fd_table, \A p \in Process : LoadHandle(p)' = LoadHandle(p)
  PROVE  Handles' = Handles
BY HandlesAre

LEMMA LoadsStay ==
  ASSUME NEW p \in Process, OthersStay(p)
  PROVE  \A q \in Process : q # p => LoadHandle(q)' = LoadHandle(q)
BY DEF OthersStay, LoadHandle

Grid(A, B, F) == F = [q \in A |-> [g \in B |-> F[q][g]]]
SetAt(A, B, F, G, a, b, x) ==
  \A q \in A, g \in B : G[q][g] = IF q = a /\ g = b THEN x ELSE F[q][g]

LEMMA GridSet ==
  ASSUME NEW A, NEW B, NEW F, NEW G, NEW a \in A, NEW b \in B, NEW x,
         Grid(A, B, F), Grid(A, B, G), SetAt(A, B, F, G, a, b, x)
  PROVE  G = [F EXCEPT ![a][b] = x]
<1> USE DEF Grid, SetAt
<1>1. ASSUME NEW q \in A, q # a PROVE G[q] = F[q]
  <2>1. G[q] = [g \in B |-> G[q][g]] /\ F[q] = [g \in B |-> F[q][g]]
    OBVIOUS
  <2>2. \A g \in B : G[q][g] = F[q][g]
    BY <1>1
  <2> QED BY <2>1, <2>2
<1>2. G[a] = [F[a] EXCEPT ![b] = x]
  <2>1. G[a] = [g \in B |-> G[a][g]] /\ F[a] = [g \in B |-> F[a][g]]
    OBVIOUS
  <2> QED BY <2>1
<1> QED BY <1>1, <1>2

LEMMA HandleSet ==
  ASSUME FilesInv, NEW p \in Process, NEW fd \in Fd, NEW f, SetFile(p, fd, f),
         \A q \in Process : LoadHandle(q)' = LoadHandle(q)
  PROVE  Handles' = [Handles EXCEPT ![p][fd] = FileHandle(f)]
<1>1. /\ fd_table'[p][fd] = f
      /\ \A q \in Process, g \in Fd : q # p \/ g # fd => fd_table'[q][g] = fd_table[q][g]
  BY FilesParts DEF SetFile, TablesTyped, RowOK
<1>2. ASSUME NEW q \in Process, NEW g \in Fd \cup {0}
      PROVE  Handles'[q][g] = IF q = p /\ g = fd THEN FileHandle(f) ELSE Handles[q][g]
  BY <1>1, HandlesAre
<1>3. /\ Handles = [q \in Process |-> [g \in Fd \cup {0} |-> Handles[q][g]]]
      /\ Handles' = [q \in Process |-> [g \in Fd \cup {0} |-> Handles'[q][g]]]
  BY HandlesAre
<1> DEFINE G == Fd \cup {0}
           F == Handles
           H == Handles'
           x == FileHandle(f)
<1>4. Grid(Process, G, F) /\ Grid(Process, G, H) /\ SetAt(Process, G, F, H, p, fd, x)
  BY <1>2, <1>3 DEF Grid, SetAt
<1> HIDE DEF F, H, x
<1>5. H = [F EXCEPT ![p][fd] = x]
  <2>1. fd \in G
    OBVIOUS
  <2> HIDE DEF G
  <2> QED BY <1>4, <2>1, GridSet
<1> QED BY <1>5 DEF F, H, x

LEMMA LoadSet ==
  ASSUME NEW p \in Process, OthersStay(p), UNCHANGED fd_table
  PROVE  Handles' = [Handles EXCEPT ![p][0] = LoadHandle(p)']
<1>1. ASSUME NEW q \in Process, NEW g \in Fd \cup {0}
      PROVE  Handles'[q][g] = IF q = p /\ g = 0 THEN LoadHandle(p)' ELSE Handles[q][g]
  BY HandlesAre, LoadsStay
<1>2. /\ Handles = [q \in Process |-> [g \in Fd \cup {0} |-> Handles[q][g]]]
      /\ Handles' = [q \in Process |-> [g \in Fd \cup {0} |-> Handles'[q][g]]]
  BY HandlesAre
<1> DEFINE G == Fd \cup {0}
           F == Handles
           H == Handles'
           x == LoadHandle(p)'
<1>3. Grid(Process, G, F) /\ Grid(Process, G, H) /\ SetAt(Process, G, F, H, p, 0, x)
  BY <1>1, <1>2 DEF Grid, SetAt
<1> HIDE DEF F, H, x
<1>4. H = [F EXCEPT ![p][0] = x]
  <2>1. 0 \in G
    OBVIOUS
  <2> HIDE DEF G
  <2> QED BY <1>3, <2>1, GridSet
<1> QED BY <1>4 DEF F, H, x

-----------------------------------------------------------------------------
(* Steps that the clients do not see.                                      *)

Known == FilesInv /\ IdxInv /\ SectorsInv /\ ObjectsAre
StoreStep == S!Next \/ UNCHANGED <<Names, Objects, Handles, file_cur>>

LEMMA CallsKnow ==
  ASSUME SectorsInv, StoreInv, NEW p \in Process, OthersStay(p), entry' = entry \/ pc[p] \in Window,
         \A q \in Process : q # p /\ pc[q] \in Zeroed =>
                              \A d \in DataSectors(call[q]) : disk'[d] = disk[d],
         \A q \in Process : q # p /\ pc[q] = "write_sector" => fd_table'[q] = fd_table[q],
         CallKnows(p)'
  PROVE  \A q \in Process : CallKnows(q)'
<1> SUFFICES ASSUME NEW q \in Process, q # p PROVE CallKnows(q)'
  OBVIOUS
<1>1. pc'[q] = pc[q] /\ call'[q] = call[q] /\ CallKnows(q)
  BY DEF OthersStay, StoreInv
<1>2. pc[q] \in {"create_slot", "create_add"} => entry' = entry
  BY DEF SectorsInv, OneInWindow, Window
<1> QED BY <1>1, <1>2 DEF CallKnows, DataSectors

LEMMA CallPlain ==
  ASSUME NEW p \in Process, pc'[p] \notin Creating \cup Created \cup {"write_sector"} PROVE CallKnows(p)'
BY DEF CallKnows, Zeroed, Creating, Created

LEMMA Quiet ==
  ASSUME Known, Known', StoreInv, NEW p \in Process, OthersStay(p),
         UNCHANGED <<disk, entry, fd_table, file_cur>>, pc[p] # "load", pc'[p] # "load", CallKnows(p)'
  PROVE  StoreInv' /\ StoreStep
<1>1. \A q \in Process : CallKnows(q)'
  BY CallsKnow DEF Known
<1>2. NameOnce'
  BY DEF StoreInv, NameOnce
<1>3. LoadHandle(p)' = LoadHandle(p)
  BY DEF LoadHandle
<1>4. Handles' = Handles
  BY <1>3, LoadsStay, HandlesStay
<1>5. \A s \in Sector : Cells(s)' = Cells(s)
  BY DEF Cells
<1> QED BY <1>1, <1>2, <1>4, <1>5, ViewSame DEF StoreInv, StoreStep, Known

(* The same where a call goes to a label that knows nothing. *)
LEMMA QuietGo ==
  ASSUME Known, Known', StoreInv, NEW p \in Process, NEW l, NEW c, Go(p, l, c),
         UNCHANGED <<disk, entry, fd_table, file_cur>>, pc[p] # "load",
         l \notin Creating \cup Created \cup {"write_sector", "load"}
  PROVE  StoreInv' /\ StoreStep
<1>1. OthersStay(p) /\ pc'[p] = l
  BY GoOne DEF Known
<1> QED BY <1>1, CallPlain, Quiet

LEMMA QuietStay ==
  ASSUME Known, Known', StoreInv, Stay, UNCHANGED <<disk, entry, fd_table, file_cur>>
  PROVE  StoreInv' /\ StoreStep
<1>1. \A q \in Process : CallKnows(q) /\ CallKnows(q)'
  BY DEF StoreInv, Stay, CallKnows, DataSectors
<1>2. NameOnce'
  BY DEF StoreInv, NameOnce
<1>3. \A q \in Process : LoadHandle(q)' = LoadHandle(q)
  BY DEF LoadHandle, Stay
<1>4. \A s \in Sector : Cells(s)' = Cells(s)
  BY DEF Cells
<1> QED BY <1>1, <1>2, <1>3, <1>4, HandlesStay, ViewSame DEF StoreInv, StoreStep, Known

LEMMA CreateQuiet ==
  ASSUME Known, Known', StoreInv, NEW p \in Process,
         \/ \E n \in Name, len \in Length : Create(p, n, len)
         \/ CreateData(p) \/ CreateLookup(p) \/ CreateSlot(p) \/ CreateUndo(p)
  PROVE  StoreInv' /\ StoreStep
<1>1. CallKnows(p) /\ call[p] \in CallType
  BY CallGoes DEF StoreInv, Known
<1> USE DEF At
<1>2. CASE \E n \in Name, len \in Length : Create(p, n, len)
  <2>1. PICK n \in Name, len \in Length : Create(p, n, len)
    BY <1>2
  <2> DEFINE c == [NoCall EXCEPT !.name = n, !.sector = FirstFit(1), !.length = len]
  <2>2. UNCHANGED <<disk, entry, fd_table, file_cur>> /\ pc[p] = "user" /\ c.length = len
    BY <2>1 DEF Create, procVars, NoCall
  <2>3. CASE Stay
    BY <2>2, <2>3, QuietStay
  <2>4. CASE Go(p, "create_data", c)
    <3>1. OthersStay(p) /\ pc'[p] = "create_data" /\ call'[p] = c
      BY <2>4, GoOne DEF Known
    <3> HIDE DEF c
    <3>2. CallKnows(p)'
      BY <2>2, <3>1 DEF CallKnows, Zeroed, Created
    <3> QED BY <2>2, <3>1, <3>2, Quiet
  <2> QED BY <2>1, <2>3, <2>4 DEF Create
<1>3. CASE CreateData(p)
  <2> DEFINE c == [call[p] EXCEPT !.start = FirstFit(call[p].length)]
  <2>1. UNCHANGED <<disk, entry, fd_table, file_cur>> /\ pc[p] = "create_data" /\ c.length = call[p].length
    BY <1>1, <1>3 DEF CreateData, procVars, CallType
  <2> HIDE DEF c
  <2>2. \E d \in {c, call[p]}, l \in {"create_inode", "create_undo"} : Go(p, l, d)
    BY <1>3 DEF CreateData, c
  <2>3. PICK d \in {c, call[p]}, l \in {"create_inode", "create_undo"} : Go(p, l, d)
    BY <2>2
  <2>4. OthersStay(p) /\ pc'[p] = l /\ call'[p] = d
    BY <2>3, GoOne DEF Known
  <2>5. CallKnows(p)'
    BY <1>1, <2>1, <2>4 DEF CallKnows, Zeroed, Creating, Created
  <2> QED BY <2>1, <2>4, <2>5, Quiet
<1>4. CASE CreateLookup(p)
  <2>1. UNCHANGED <<disk, entry, fd_table, file_cur>> /\ pc[p] = "create_lookup"
    BY <1>4 DEF CreateLookup, procVars, fsVars
  <2>2. PICK l \in {"create_slot", "create_undo"} :
          Go(p, l, call[p]) /\ (l = "create_slot" => lookup(call[p].name) = {})
    BY <1>4 DEF CreateLookup
  <2>3. OthersStay(p) /\ pc'[p] = l /\ call'[p] = call[p]
    BY <2>2, GoOne DEF Known
  <2>4. l = "create_slot" => \A i \in Slot : entry[i] # None => entry[i][1] # call[p].name
    BY <2>2 DEF lookup
  <2>5. CallKnows(p)'
    BY <1>1, <2>1, <2>3, <2>4 DEF CallKnows, Zeroed, Creating, Created, DataSectors
  <2> QED BY <2>1, <2>3, <2>5, Quiet
<1>5. CASE CreateSlot(p)
  <2> DEFINE c == [call[p] EXCEPT !.fd = Min(EmptySlots)]
  <2>1. /\ UNCHANGED <<disk, entry, fd_table, file_cur>> /\ pc[p] = "create_slot"
        /\ c.name = call[p].name /\ c.start = call[p].start /\ c.length = call[p].length
    BY <1>1, <1>5 DEF CreateSlot, procVars, fsVars, CallType
  <2> HIDE DEF c
  <2>2. \E d \in {c, call[p]}, l \in {"create_add", "create_undo"} : Go(p, l, d)
    BY <1>5 DEF CreateSlot, c
  <2>3. PICK d \in {c, call[p]}, l \in {"create_add", "create_undo"} : Go(p, l, d)
    BY <2>2
  <2>4. OthersStay(p) /\ pc'[p] = l /\ call'[p] = d
    BY <2>3, GoOne DEF Known
  <2>5. d.name = call[p].name /\ d.start = call[p].start /\ d.length = call[p].length
    BY <2>1
  <2>6. CallKnows(p)'
    BY <1>1, <2>1, <2>4, <2>5 DEF CallKnows, Zeroed, Creating, Created, DataSectors
  <2> QED BY <2>1, <2>4, <2>6, Quiet
<1>6. CASE CreateUndo(p)
  BY <1>6, QuietGo DEF CreateUndo, Return, procVars, Creating, Created
<1> QED BY <1>2, <1>3, <1>4, <1>5, <1>6

LEMMA OwnSectors ==
  ASSUME FilesInv, SectorsInv
  PROVE  /\ \A s \in Sector : InodeSectors(s) \subseteq Sector
         /\ \A p \in Process : CallSectors(p) \subseteq Sector
BY Disjoint, FilesParts DEF StoreTyped

(* inode_create writes to sectors of its own. *)
LEMMA CreateInodeQuiet ==
  ASSUME Known, Known', StoreInv, NEW p \in Process, CreateInode(p)
  PROVE  StoreInv' /\ StoreStep
<1> USE DEF Known
<1> DEFINE D == {call[p].sector} \cup DataSectors(call[p])
<1>1. pc[p] = "create_inode" /\ UNCHANGED <<entry, fd_table, file_cur>>
  BY DEF CreateInode, At, procVars
<1>2. OthersStay(p) /\ pc'[p] = "create_lookup" /\ call'[p] = call[p]
  BY GoOne DEF CreateInode
<1>3. D = CallSectors(p)
  BY <1>1 DEF CallSectors, HasSector, HasData, Created
<1>4. \A x \in Sector : disk'[x] = IF x = call[p].sector THEN [start |-> call[p].start, length |-> call[p].length]
                                   ELSE IF x \in DataSectors(call[p]) THEN Data(0) ELSE disk[x]
  BY DEF CreateInode, DataSectors
<1>5. \A x \in Sector : x \notin D => disk'[x] = disk[x]
  BY <1>4
<1>6. ASSUME NEW d \in DataSectors(call[p]) PROVE disk'[d] = Data(0)
  <2>1. d \in Sector
    BY <1>3, OwnSectors
  <2>2. d # call[p].sector
    BY <1>1 DEF SectorsInv, CallGood, Created
  <2> QED BY <1>4, <2>1, <2>2
<1> HIDE DEF D
<1>7. CallKnows(p)'
  <2>1. CallKnows(p)
    BY DEF StoreInv
  <2> QED BY <1>1, <1>2, <1>6, <2>1 DEF CallKnows, Created, DataSectors
<1>8. ASSUME NEW q \in Process, q # p, pc[q] \in Zeroed, NEW d \in DataSectors(call[q])
      PROVE  disk'[d] = disk[d]
  <2>1. d \in CallSectors(q)
    BY <1>8 DEF CallSectors, HasData, Zeroed
  <2> QED BY <1>3, <1>5, <1>8, <2>1, Disjoint, OwnSectors
<1>9. \A q \in Process : CallKnows(q)'
  BY <1>1, <1>2, <1>7, <1>8, CallsKnow
<1>10. ASSUME NEW s \in Sector, Referenced(s) PROVE Cells(s)' = Cells(s)
  <2>1. InUse(s)
    BY <1>10 DEF ObjectsAre
  <2>2. \A d \in InodeSectors(s) : disk'[d] = disk[d]
    BY <1>3, <1>5, Disjoint, OwnSectors
  <2> QED BY <2>1, <2>2, CellsSame
<1>11. Handles' = Handles
  BY <1>1, <1>2, LoadsStay, HandlesStay DEF LoadHandle
<1>12. NameOnce'
  BY <1>1 DEF StoreInv, NameOnce
<1> QED BY <1>1, <1>9, <1>10, <1>11, <1>12, ViewSame DEF StoreInv, StoreStep

-----------------------------------------------------------------------------
(* Entries come and go.                                                    *)

LEMMA CreateAddStore ==
  ASSUME Known, Known', StoreInv, NEW p \in Process, CreateAdd(p)
  PROVE  StoreInv' /\ StoreStep
<1> USE DEF Known
<1>1. pc[p] = "create_add" /\ UNCHANGED <<disk, fd_table, file_cur>>
  BY DEF CreateAdd, At, procVars
<1>2. CASE UNCHANGED entry /\ Go(p, "create_undo", call[p])
  <2>1. OthersStay(p) /\ pc'[p] = "create_undo" /\ call'[p] = call[p]
    BY <1>2, GoOne
  <2>2. CallKnows(p)
    BY DEF StoreInv
  <2>3. CallKnows(p)'
    BY <1>1, <2>1, <2>2 DEF CallKnows, Zeroed, Creating, Created
  <2> QED BY <1>1, <1>2, <2>1, <2>3, Quiet
<1>3. CASE entry' = [entry EXCEPT ![call[p].fd] = <<call[p].name, call[p].sector>>] /\ Return(p)
  <2>1. OthersStay(p) /\ pc'[p] = "user"
    BY <1>3, GoOne DEF Return
  <2>2. call[p].sector \in Sector /\ call[p].fd \in Slot /\ call[p].name \in Name
    BY <1>1, CallGoes DEF CallOK, Created
  <2>3. PICK s \in Sector, fd \in Slot, n \in Name : s = call[p].sector /\ fd = call[p].fd /\ n = call[p].name
    BY <2>2
  <2>4. CallKnows(p) /\ CallGood(p)
    BY DEF StoreInv, SectorsInv
  <2>5. PICK len \in Length : len = call[p].length
    BY <1>1, <2>4 DEF CallKnows, Created
  <2>6. /\ disk[s] = [start |-> call[p].start, length |-> len] /\ entry[fd] = None
        /\ \A i \in Slot : entry[i] # None => entry[i][1] # n
        /\ \A d \in DataSectors(call[p]) : disk[d] = Data(0)
    BY <1>1, <2>3, <2>4, <2>5 DEF CallKnows, CallGood, Zeroed, Created
  <2>7. <<n, s>> # None
    BY NoneAssumption
  <2>8. entry'[fd] = <<n, s>> /\ \A i \in Slot : i # fd => entry'[i] = entry[i]
    BY <1>3, <2>3, FilesParts DEF StoreTyped
  <2>9. NameOnce'
    BY <2>6, <2>7, <2>8 DEF StoreInv, NameOnce
  <2>10. \A q \in Process : CallKnows(q)'
    BY <1>1, <2>1, CallPlain, CallsKnow DEF Creating, Created, Window
  <2>11. NamesLead /\ NamesLead'
    <3>1. StoreTyped /\ NameOnce /\ StoreTyped' /\ NameOnce'
      <4>1. FilesInv' => StoreTyped'
        BY FilesParts, PTL
      <4> QED BY <2>9, <4>1, FilesParts DEF StoreInv
    <3> QED BY <3>1, NamesKnown, PTL
  <2>12. Obj(n) = None /\ Obj(n)' = s
    <3>1. Obj(n) = None
      BY <2>6, <2>11 DEF NamesLead
    <3>2. entry'[fd] # None /\ entry'[fd][1] = n /\ entry'[fd][2] = s
      BY <2>7, <2>8
    <3>3. Obj(n)' = entry'[fd][2]
      BY <2>11, <3>2 DEF NamesLead
    <3> QED BY <3>1, <3>2, <3>3
  <2>13. ASSUME NEW m \in Name, m # n PROVE Obj(m)' = Obj(m)
    <3>1. CASE \E i \in Slot : entry[i] # None /\ entry[i][1] = m
      <4>1. PICK i \in Slot : entry[i] # None /\ entry[i][1] = m
        BY <3>1
      <4>2. i # fd /\ entry'[i] = entry[i]
        BY <2>6, <2>8, <4>1
      <4> QED BY <2>11, <4>1, <4>2 DEF NamesLead
    <3>2. CASE \A i \in Slot : entry[i] # None => entry[i][1] # m
      <4>1. \A i \in Slot : entry'[i] # None => entry'[i][1] # m
        BY <2>8, <2>13, <3>2
      <4> QED BY <2>11, <3>2, <4>1 DEF NamesLead
    <3> QED BY <3>1, <3>2
  <2>14. Names' = [Names EXCEPT ![n] = s]
    BY <2>12, <2>13 DEF Names
  <2>15. Handles' = Handles
    BY <1>1, <2>1, LoadsStay, HandlesStay DEF LoadHandle
  <2>16. ASSUME NEW r \in Sector PROVE Referenced(r)' <=> Referenced(r) \/ r = s
    <3>1. r \in Linked' <=> r \in Linked \/ r = s
      <4>1. entry'[fd] # None /\ entry'[fd][2] = s
        BY <2>7, <2>8
      <4>2. \A i \in Slot : entry[i] # None => i # fd /\ entry'[i] = entry[i]
        BY <2>6, <2>8
      <4>3. r = s => r \in Linked'
        BY <4>1, LinkedIs
      <4>4. r \in Linked => r \in Linked'
        BY <4>2, LinkedIs
      <4>5. r \in Linked' => r \in Linked \/ r = s
        BY <2>8, <4>1, LinkedIs
      <4> QED BY <4>3, <4>4, <4>5
    <3> QED BY <1>1, <2>15, <3>1 DEF Referenced
  <2>17. ~Referenced(s)
    <3>1. s \in CallSectors(p)
      BY <1>1, <2>3 DEF CallSectors, HasSector, Created
    <3> QED BY <3>1, Disjoint DEF ObjectsAre
  <2>18. \A r \in Sector : Cells(r)' = Cells(r)
    BY <1>1 DEF Cells
  <2>19. Cells(s) = [i \in 1 .. len |-> Data(0)]
    <3>1. call[p].start \in Nat /\ len \in Nat
      <4>1. call[p].start \in 0 .. LastSector + MaxPos /\ len \in 0 .. LastSector
        BY <2>5, CallGoes DEF CallType
      <4> QED BY <4>1, NumbersKnown
    <3>2. ASSUME NEW i \in 1 .. len PROVE call[p].start + i - 1 \in DataSectors(call[p])
      BY <2>5, <3>1 DEF DataSectors
    <3> QED BY <2>6, <3>2 DEF Cells
  <2>20. Objects' = [Objects EXCEPT ![s] = [i \in 1 .. len |-> Data(0)]] /\ Objects[s] = None
    <3>1. Contents(s) = None /\ Contents(s)' = [i \in 1 .. len |-> Data(0)]
      BY <2>16, <2>17, <2>18, <2>19 DEF ObjectsAre
    <3>2. \A r \in Sector : r # s => Contents(r)' = Contents(r)
      BY <2>16, <2>18 DEF ObjectsAre
    <3> QED BY <3>1, <3>2 DEF Objects
  <2>21. Names[n] = None /\ Names'[n] = s
    BY <2>12 DEF Names
  <2>22. S!Create(n, s, len)
    BY <1>1, <2>14, <2>15, <2>20, <2>21 DEF S!Create
  <2> QED BY <2>9, <2>10, <2>21, <2>22 DEF StoreInv, StoreStep, S!Next
<1> QED BY <1>2, <1>3 DEF CreateAdd

LEMMA CloseMoves ==
  ASSUME NEW p, NEW t, NEW s, NEW next, CloseInode(p, t, s, next)
  PROVE  \E l \in {"release_inode", next} : \E c : Go(p, l, c)
BY DEF CloseInode

LEMMA RemoveEraseStore ==
  ASSUME Known, Known', StoreInv, NEW p \in Process, RemoveErase(p)
  PROVE  StoreInv' /\ StoreStep
<1> USE DEF Known
<1>1. pc[p] = "remove_erase" /\ UNCHANGED <<disk, fd_table, file_cur>>
  BY DEF RemoveErase, At, procVars
<1>2. PICK l \in {"release_inode", "remove_done"} : \E c : Go(p, l, c)
  BY CloseMoves DEF RemoveErase
<1>3. CASE UNCHANGED entry
  BY <1>1, <1>2, <1>3, QuietGo DEF Creating, Created
<1>4. CASE entry' = [entry EXCEPT ![call[p].fd] = None]
  <2>1. OthersStay(p) /\ pc'[p] = l
    BY <1>2, GoOne
  <2>2. call[p].fd \in Slot /\ entry[call[p].fd] # None
    BY <1>1 DEF SectorsInv, CallGood, Linking
  <2>3. PICK fd \in Slot : fd = call[p].fd
    BY <2>2
  <2>4. PICK n \in Name : n = entry[fd][1]
    BY <2>2, <2>3, FilesParts DEF StoreTyped
  <2>5. entry'[fd] = None /\ \A i \in Slot : i # fd => entry'[i] = entry[i]
    BY <1>4, <2>3, FilesParts DEF StoreTyped
  <2>6. NameOnce'
    BY <2>5 DEF StoreInv, NameOnce
  <2>7. \A q \in Process : CallKnows(q)'
    BY <1>1, <2>1, CallPlain, CallsKnow DEF Creating, Created, Window
  <2>8. StoreTyped /\ StoreTyped' /\ NamesLead /\ NamesLead'
    <3>1. FilesInv' => StoreTyped'
      BY FilesParts, PTL
    <3>2. StoreTyped /\ NameOnce /\ StoreTyped' /\ NameOnce'
      BY <2>6, <3>1, FilesParts DEF StoreInv
    <3> QED BY <3>2, NamesKnown, PTL
  <2>9. Obj(n) # None /\ Obj(n)' = None
    <3>1. Obj(n) = entry[fd][2] /\ entry[fd] \in Name \X Sector
      BY <2>2, <2>3, <2>4, <2>8 DEF NamesLead, StoreTyped
    <3>2. \A i \in Slot : entry'[i] # None => entry'[i][1] # n
      BY <2>2, <2>3, <2>4, <2>5 DEF StoreInv, NameOnce
    <3> QED BY <2>8, <3>1, <3>2, NoneAssumption DEF NamesLead
  <2>10. ASSUME NEW m \in Name, m # n PROVE Obj(m)' = Obj(m)
    <3>1. CASE \E i \in Slot : entry[i] # None /\ entry[i][1] = m
      <4>1. PICK i \in Slot : entry[i] # None /\ entry[i][1] = m
        BY <3>1
      <4>2. i # fd /\ entry'[i] = entry[i]
        BY <2>4, <2>5, <2>10, <4>1
      <4> QED BY <2>8, <4>1, <4>2 DEF NamesLead
    <3>2. CASE \A i \in Slot : entry[i] # None => entry[i][1] # m
      <4>1. \A i \in Slot : entry'[i] # None => entry'[i][1] # m
        BY <2>5, <3>2
      <4> QED BY <2>8, <3>2, <4>1 DEF NamesLead
    <3> QED BY <3>1, <3>2
  <2>11. Names' = [Names EXCEPT ![n] = None] /\ Names[n] # None
    BY <2>9, <2>10 DEF Names
  <2>12. Handles' = Handles
    BY <1>1, <1>2, <2>1, LoadsStay, HandlesStay DEF LoadHandle
  <2>13. ASSUME NEW r \in Sector, Referenced(r)' PROVE Referenced(r) /\ Cells(r)' = Cells(r)
    <3>1. r \in Linked' => r \in Linked
      BY <2>5, LinkedIs
    <3> QED BY <1>1, <2>12, <2>13, <3>1 DEF Referenced, Cells
  <2>14. S!Keep(Objects)
    BY <2>6, <2>8, <2>13, ObjectsGo
  <2>15. S!Remove(n)
    BY <1>1, <2>11, <2>12, <2>14 DEF S!Remove
  <2> QED BY <2>6, <2>7, <2>15 DEF StoreInv, StoreStep, S!Next
<1> QED BY <1>3, <1>4 DEF RemoveErase

-----------------------------------------------------------------------------
(* Handles come, move and go.                                              *)

(* A handle on an object that is referred to is added, or moves. *)
LEMMA HandleMoves ==
  ASSUME Known, Known', NEW p \in Process, NEW fd \in Fd \cup {0}, NEW s \in Sector, NEW k \in Nat,
         Handles' = [Handles EXCEPT ![p][fd] = <<s, k>>], UNCHANGED <<disk, entry, file_cur>>,
         Referenced(s), Handles[p][fd] = None \/ Handles[p][fd][1] = s
  PROVE  UNCHANGED <<Names, Objects, file_cur>>
<1>1. PICK x : x = <<s, k>>
  OBVIOUS
<1>2. /\ x # None /\ x[1] = s
      /\ \A q \in Process, g \in Fd \cup {0} :
           Handles'[q][g] = IF q = p /\ g = fd THEN x ELSE Handles[q][g]
  <2>1. Handles' = [Handles EXCEPT ![p][fd] = x]
    BY <1>1
  <2>2. x # None /\ x[1] = s
    BY <1>1, HandleKnown
  <2>3. \A q \in Process, g \in Fd \cup {0} :
          Handles'[q][g] = IF q = p /\ g = fd THEN x ELSE Handles[q][g]
    BY <2>1, HandlesAre
  <2> QED BY <2>2, <2>3
<1>3. ASSUME NEW r \in Sector PROVE Referenced(r)' <=> Referenced(r)
  <2>1. r \in Linked' <=> r \in Linked
    BY DEF Linked
  <2>2. CASE r = s
    <3>1. Referenced(s)'
      BY <1>2 DEF Referenced
    <3> QED BY <2>2, <3>1
  <2>3. CASE r # s
    <3>1. ASSUME NEW q \in Process, NEW g \in Fd \cup {0}
          PROVE  Handles'[q][g] # None /\ Handles'[q][g][1] = r <=> Handles[q][g] # None /\ Handles[q][g][1] = r
      <4>1. CASE q = p /\ g = fd
        BY <1>2, <2>3, <4>1
      <4>2. CASE ~(q = p /\ g = fd)
        BY <1>2, <4>2
      <4> QED BY <4>1, <4>2
    <3> QED BY <2>1, <3>1 DEF Referenced
  <2> QED BY <2>2, <2>3
<1>4. Objects' = Objects
  BY <1>3, ObjectsSame DEF Known, Cells
<1> QED BY <1>4 DEF Names, Obj, lookup

LEMMA NameOnceStays == StoreInv /\ UNCHANGED entry => NameOnce'
BY DEF StoreInv, NameOnce

(* A call that finds its inode in the table t. *)
LEMMA OpenedStore ==
  ASSUME Known, Known', StoreInv, NEW p \in Process, pc[p] \in Finding,
         NEW t, Opened(p, t, call[p].sector), UNCHANGED <<disk, entry, file_cur>>
  PROVE  StoreInv' /\ StoreStep
<1> USE DEF Known
<1>1. pc[p] \in Linking /\ pc[p] # "load"
  BY DEF Linking, Finding
<1>2. PICK s \in Sector : s = call[p].sector
  BY <1>1, LinkingAlone
<1>3. /\ s \in Linked /\ call[p].fd \in Slot /\ entry[call[p].fd] # None
      /\ entry[call[p].fd][2] = s
  BY <1>1, <1>2, LinkingAlone DEF SectorsInv, CallGood
<1>4. PICK n \in Name : n = entry[call[p].fd][1]
  BY <1>3, FilesParts DEF StoreTyped
<1>5. Names[n] = s
  <2>1. NamesLead
    BY FilesParts, NamesKnown DEF StoreInv
  <2> QED BY <1>3, <1>4, <2>1 DEF NamesLead, Names
<1>6. s # None /\ Referenced(s)
  BY <1>3, NoneAssumption DEF Referenced
<1>7. ASSUME NEW l \in {"user", "exit", "release_inode", "remove_erase"}, NEW c, Go(p, l, c), UNCHANGED fd_table
      PROVE  StoreInv' /\ StoreStep
  BY <1>1, <1>7, QuietGo DEF Creating, Created
<1>8. ASSUME NEW next \in {"user", "exit"}, CloseInode(p, t, s, next), UNCHANGED fd_table
      PROVE  StoreInv' /\ StoreStep
  BY <1>7, <1>8, CloseMoves
<1>9. ASSUME NEW fd \in Fd \cup {0}, Handles' = [Handles EXCEPT ![p][fd] = <<s, 0>>], Handles[p][fd] = None
      PROVE  StoreStep
  <2>1. 0 \in Nat
    OBVIOUS
  <2>2. UNCHANGED <<Names, Objects, file_cur>>
    BY <1>6, <1>9, <2>1, HandleMoves
  <2>3. S!Open(p, fd, n)
    BY <1>5, <1>6, <1>9, <2>2 DEF S!Open
  <2> QED BY <2>3 DEF StoreStep, S!Next
<1>10. ASSUME NEW fd \in FreeFds(p), SetFile(p, fd, File(s, 0)), Return(p)
       PROVE  StoreInv' /\ StoreStep
  <2>1. OthersStay(p) /\ pc'[p] = "user"
    BY <1>10, GoOne DEF Return
  <2>2. fd \in Fd /\ fd_table[p][fd] = None
    BY DEF FreeFds
  <2>3. \A q \in Process : q # p => fd_table'[q] = fd_table[q]
    BY <1>10, FilesParts DEF SetFile, TablesTyped
  <2>4. \A q \in Process : CallKnows(q)'
    BY <2>1, <2>3, CallPlain, CallsKnow DEF Creating, Created
  <2>5. \A q \in Process : LoadHandle(q)' = LoadHandle(q)
    BY <1>1, <2>1, LoadsStay DEF LoadHandle
  <2>6. FileHandle(File(s, 0)) = <<s, 0>>
    <3>1. File(s, 0) \in FileType
      BY DEF File, FileType
    <3> QED BY <3>1, NoFile DEF FileHandle, File
  <2>7. Handles' = [Handles EXCEPT ![p][fd] = <<s, 0>>]
    BY <1>10, <2>2, <2>5, <2>6, HandleSet
  <2>8. Handles[p][fd] = None
    BY <2>2, HandlesAre DEF FileHandle
  <2>9. StoreStep
    BY <1>9, <2>2, <2>7, <2>8
  <2> QED BY <2>4, <2>9, NameOnceStays DEF StoreInv
<1>11. CASE Go(p, "load", call[p]) /\ UNCHANGED fd_table
  <2>1. OthersStay(p) /\ pc'[p] = "load" /\ call'[p] = call[p]
    BY <1>11, GoOne
  <2>2. \A q \in Process : CallKnows(q)'
    BY <1>11, <2>1, CallPlain, CallsKnow DEF Creating, Created
  <2>3. LoadHandle(p)' = <<s, 0>> /\ LoadHandle(p) = None
    BY <1>1, <1>2, <2>1 DEF LoadHandle
  <2>4. Handles' = [Handles EXCEPT ![p][0] = <<s, 0>>]
    BY <1>11, <2>1, <2>3, LoadSet
  <2>5. Handles[p][0] = None
    BY <2>3, HandlesAre
  <2>6. StoreStep
    BY <1>9, <2>4, <2>5
  <2> QED BY <2>2, <2>6, NameOnceStays DEF StoreInv
<1>12. OpenFile(p, t, s) => StoreInv' /\ StoreStep
  BY <1>8, <1>10 DEF OpenFile
<1>13. UNCHANGED fd_table /\ Go(p, "remove_erase", call[p]) => StoreInv' /\ StoreStep
  BY <1>7
<1> QED BY <1>2, <1>8, <1>11, <1>12, <1>13 DEF Opened

LEMMA FindsStore ==
  ASSUME Known, Known', StoreInv, NEW p \in Process, OpenInode(p) \/ FillInode(p)
  PROVE  StoreInv' /\ StoreStep
<1>1. UNCHANGED <<disk, entry, file_cur>> /\ pc[p] \in Finding /\ pc[p] # "load"
  BY DEF OpenInode, FillInode, At, Finding
<1>2. ASSUME NEW t, Opened(p, t, call[p].sector) PROVE StoreInv' /\ StoreStep
  BY <1>1, <1>2, OpenedStore
<1>3. ASSUME NEW l \in {"fill_inode", "remove_done", "exit", "user"}, NEW c, Go(p, l, c), UNCHANGED fd_table
      PROVE  StoreInv' /\ StoreStep
  BY <1>1, <1>3, QuietGo DEF Creating, Created
<1>4. CASE OpenInode(p)
  <2>1. Without(call[p].next) \in {"remove_done", "exit", "user"}
    BY DEF Without
  <2>2. ASSUME Go(p, Without(call[p].next), NoCall), UNCHANGED fd_table PROVE StoreInv' /\ StoreStep
    BY <1>3, <2>1, <2>2
  <2>3. ASSUME Go(p, "fill_inode", call[p]), UNCHANGED fd_table PROVE StoreInv' /\ StoreStep
    BY <1>3, <2>3
  <2> QED BY <1>2, <1>4, <2>2, <2>3 DEF OpenInode
<1>5. CASE FillInode(p)
  BY <1>2, <1>5 DEF FillInode
<1> QED BY <1>4, <1>5

LEMMA CallsQuiet ==
  ASSUME Known, Known', StoreInv, NEW p \in Process,
         \/ \E n \in Name : Open(p, n) \/ Remove(p, n) \/ Exec(p, n) \/ Boot(p, n)
         \/ RemoveDone(p) \/ Exit(p) \/ WriteFault(p) \/ ExitDone(p)
         \/ ReleaseInode(p) \/ ReleaseData(p)
  PROVE  StoreInv' /\ StoreStep
<1> USE DEF At, procVars, fsVars
<1>1. ASSUME NEW l \in {"none", "user", "exit", "remove_done", "open_inode", "release_data"}, NEW c, Go(p, l, c),
             UNCHANGED <<disk, entry, fd_table, file_cur>>, pc[p] # "load"
      PROVE  StoreInv' /\ StoreStep
  BY <1>1, QuietGo DEF Creating, Created
<1>2. CASE \E n \in Name : Open(p, n) \/ Remove(p, n) \/ Exec(p, n) \/ Boot(p, n)
  <2>1. UNCHANGED <<disk, entry, fd_table, file_cur>> /\ pc[p] # "load"
    BY <1>2 DEF Open, Remove, Exec, Boot, Idle
  <2>2. PICK n \in Name, next \in {"open", "exec", "remove"}, otherwise \in {"user", "exit", "none", "remove_done"} :
          Find(p, n, next, otherwise)
    BY <1>2 DEF Open, Remove, Exec, Boot
  <2>3. PICK l \in {otherwise, "open_inode"} : \E c : Go(p, l, c)
    BY <2>2 DEF Find
  <2> QED BY <1>1, <2>1, <2>3
<1>3. CASE RemoveDone(p) \/ Exit(p) \/ WriteFault(p) \/ ExitDone(p) \/ ReleaseInode(p)
  <2>1. UNCHANGED <<disk, entry, fd_table, file_cur>> /\ pc[p] # "load"
    BY <1>3 DEF RemoveDone, Exit, WriteFault, ExitDone, ReleaseInode
  <2>2. PICK l \in {"none", "user", "exit", "release_data"} : \E c : Go(p, l, c)
    BY <1>3 DEF RemoveDone, Exit, WriteFault, ExitDone, ReleaseInode, Return, call_exit
  <2> QED BY <1>1, <2>1, <2>2
<1>4. CASE ReleaseData(p)
  <2>1. /\ UNCHANGED <<disk, entry, fd_table, file_cur>> /\ pc[p] # "load"
        /\ Go(p, call[p].next, NoCall)
    BY <1>4 DEF ReleaseData
  <2>2. call[p].next \in {"user", "exit", "open", "exec", "remove", "remove_done"}
    BY CallGoes DEF CallType, Known
  <2> QED BY <2>1, <2>2, QuietGo DEF Creating, Created
<1> QED BY <1>2, <1>3, <1>4

(* The position of a file moves. *)
LEMMA MoveStore ==
  ASSUME Known, Known', NEW p \in Process, NEW fd \in Fd, NEW pos \in Nat, fd_table[p][fd] # None,
         SetFile(p, fd, [fd_table[p][fd] EXCEPT !.pos = pos]),
         UNCHANGED <<disk, entry, file_cur>>, \A q \in Process : LoadHandle(q)' = LoadHandle(q)
  PROVE  StoreStep
<1> USE DEF Known
<1> DEFINE f == [fd_table[p][fd] EXCEPT !.pos = pos]
<1>1. fd_table[p][fd] \in FileType /\ RowOK(fd_table[p])
  BY FilesParts DEF TablesTyped, RowOK
<1>2. PICK s \in Sector : s = fd_table[p][fd].inode
  BY <1>1 DEF FileType
<1>3. f = [inode |-> s, pos |-> pos]
  BY <1>1, <1>2 DEF FileType
<1>4. fd_table'[p][fd] = f
  BY FilesParts DEF SetFile, TablesTyped, RowOK
<1>5. TablesTyped'
  <2>1. FilesInv' => TablesTyped'
    BY FilesParts, PTL
  <2> QED BY <2>1
<1>6. f \in FileType /\ f # None
  <2>1. f \in FileType
    BY <1>3 DEF FileType
  <2> QED BY <2>1, NoFile
<1> HIDE DEF f
<1>7. f.pos <= LastSector + MaxPos
  BY <1>4, <1>5, <1>6 DEF TablesTyped, RowOK
<1>8. pos \in 0 .. LastSector + MaxPos
  BY <1>3, <1>7, NumbersKnown
<1>9. FileHandle(f) = <<s, pos>>
  BY <1>3, <1>6 DEF FileHandle
<1>10. Handles' = [Handles EXCEPT ![p][fd] = <<s, pos>>]
  BY <1>9, HandleSet DEF f
<1>11. PICK k \in Nat : Handles[p][fd] = <<s, k>>
  <2>1. Handles[p][fd] = FileHandle(fd_table[p][fd])
    BY HandlesAre
  <2> QED BY <1>1, <1>2, <2>1 DEF FileHandle, FileType
<1>12. Handles[p][fd] # None /\ <<s, pos>> # None /\ Handles[p][fd][1] = s
  BY <1>8, <1>11, HandleKnown
<1>13. Referenced(s)
  BY <1>12 DEF Referenced
<1>14. UNCHANGED <<Names, Objects, file_cur>>
  BY <1>8, <1>10, <1>12, <1>13, HandleMoves
<1>15. [Handles EXCEPT ![p][fd][2] = pos] = [Handles EXCEPT ![p][fd] = <<s, pos>>]
  <2>1. [<<s, k>> EXCEPT ![2] = pos] = <<s, pos>>
    OBVIOUS
  <2>2. [Handles[p][fd] EXCEPT ![2] = pos] = <<s, pos>>
    BY <1>11, <2>1
  <2> QED BY <2>2
<1>16. Handles'[p][fd] = <<s, pos>>
  BY <1>10, HandlesAre
<1>17. S!Move(p, fd, pos)
  BY <1>10, <1>12, <1>14, <1>15 DEF S!Move
<1>18. Handles'[p][fd] # None /\ Handles'[p][fd][2] = pos
  BY <1>12, <1>16
<1> QED BY <1>8, <1>17, <1>18 DEF StoreStep, S!Next

LEMMA RowsStay ==
  ASSUME FilesInv, NEW p \in Process, NEW fd, NEW f, SetFile(p, fd, f)
  PROVE  \A q \in Process : q # p => fd_table'[q] = fd_table[q]
BY FilesParts DEF SetFile, TablesTyped

LEMMA UseStore ==
  ASSUME Known, Known', StoreInv, NEW p \in Process, NEW fd \in Fd,
         Read(p, fd) \/ WriteStart(p, fd) \/ \E pos \in Pos : Seek(p, fd, pos)
  PROVE  StoreInv' /\ StoreStep
<1> USE DEF Known, At
<1>1. pc[p] = "user" /\ UNCHANGED <<disk, entry, file_cur>>
  BY DEF Read, WriteStart, Seek, fsVars, procVars
<1>2. ASSUME call_exit(p), UNCHANGED fd_table PROVE StoreInv' /\ StoreStep
  BY <1>1, <1>2, QuietGo DEF call_exit, Creating, Created
<1>3. fd_table[p][fd] # None => fd_table[p][fd] \in FileType
  BY FilesParts DEF TablesTyped, RowOK
<1>4. ASSUME NEW pos \in Nat, fd_table[p][fd] # None, SetFile(p, fd, [fd_table[p][fd] EXCEPT !.pos = pos]), Stay
      PROVE  StoreInv' /\ StoreStep
  <2>1. \A q \in Process : LoadHandle(q)' = LoadHandle(q)
    BY <1>4 DEF LoadHandle, Stay
  <2>2. CallKnows(p)'
    BY <1>1, <1>4, CallPlain DEF Stay, Creating, Created
  <2>3. OthersStay(p)
    BY <1>4, StayAlone
  <2>4. \A q \in Process : q # p => fd_table'[q] = fd_table[q]
    BY <1>4, RowsStay
  <2>5. \A q \in Process : CallKnows(q)'
    BY <1>1, <2>2, <2>3, <2>4, CallsKnow
  <2>6. StoreStep
    BY <1>1, <1>4, <2>1, MoveStore
  <2> QED BY <1>1, <2>5, <2>6, NameOnceStays DEF StoreInv
<1>5. CASE Read(p, fd)
  <2>1. CASE call_exit(p) /\ UNCHANGED fd_table
    BY <1>2, <2>1
  <2>2. CASE /\ ~BadFd(p, fd) /\ Stay
             /\ LET f == fd_table[p][fd] IN
                  \E pos \in {f.pos} \cup f.pos .. inodes[f.inode].length : SetFile(p, fd, [f EXCEPT !.pos = pos])
    <3>1. PICK pos \in {fd_table[p][fd].pos} \cup fd_table[p][fd].pos .. inodes[fd_table[p][fd].inode].length :
            SetFile(p, fd, [fd_table[p][fd] EXCEPT !.pos = pos])
      BY <2>2
    <3>2. fd_table[p][fd].pos \in Nat
      BY <1>3, <2>2 DEF BadFd, FileType
    <3>3. pos \in Nat
      BY <3>2
    <3> QED BY <1>4, <2>2, <3>1, <3>3 DEF BadFd
  <2>3. ~BadFd(p, fd) =>
          \/ call_exit(p) /\ UNCHANGED fd_table
          \/ /\ Stay
             /\ LET f == fd_table[p][fd] IN
                  \E pos \in {f.pos} \cup f.pos .. inodes[f.inode].length : SetFile(p, fd, [f EXCEPT !.pos = pos])
    BY <1>5 DEF Read
  <2> QED BY <1>5, <2>1, <2>2, <2>3 DEF Read
<1>6. CASE WriteStart(p, fd)
  <2> DEFINE c == [NoCall EXCEPT !.fd = fd, !.start = fd_table[p][fd].pos]
  <2>1. UNCHANGED fd_table
    BY <1>6 DEF WriteStart, procVars
  <2>2. CASE Stay
    BY <1>1, <2>1, <2>2, QuietStay
  <2>3. CASE Go(p, "write_sector", c) /\ ~BadFd(p, fd)
    <3>1. c.fd = fd /\ c.start = fd_table[p][fd].pos
      BY DEF NoCall
    <3> HIDE DEF c
    <3>2. OthersStay(p) /\ pc'[p] = "write_sector" /\ call'[p] = c
      BY <2>3, GoOne
    <3>3. fd_table[p][fd].pos \in Nat
      BY <1>3, <2>3 DEF BadFd, FileType
    <3>4. CallKnows(p)'
      BY <2>1, <3>1, <3>2, <3>3 DEF CallKnows, Zeroed, Creating, Created
    <3> QED BY <1>1, <2>1, <3>2, <3>4, Quiet
  <2> QED BY <1>2, <1>6, <2>1, <2>2, <2>3 DEF WriteStart
<1>7. CASE \E pos \in Pos : Seek(p, fd, pos)
  <2>1. PICK pos \in Pos : Seek(p, fd, pos)
    BY <1>7
  <2>2. pos \in Nat
    BY NumbersKnown DEF Pos
  <2>3. SetFile(p, fd, [fd_table[p][fd] EXCEPT !.pos = pos]) /\ fd_table[p][fd] # None /\ Stay
    BY <2>1, FilesParts DEF Seek, SetFile, TablesTyped
  <2> QED BY <1>4, <2>2, <2>3
<1> QED BY <1>5, <1>6, <1>7

LEMMA WriteDoneStore ==
  ASSUME Known, Known', StoreInv, NEW p \in Process, WriteDone(p)
  PROVE  StoreInv' /\ StoreStep
<1> USE DEF Known
<1> DEFINE fd == call[p].fd
           pos == call[p].start
<1>1. pc[p] = "write_sector" /\ Go(p, "user", NoCall) /\ UNCHANGED <<disk, entry, file_cur>>
  BY DEF WriteDone, At, Return, fsVars
<1>2. fd \in Fd /\ fd_table[p][fd] # None
  BY <1>1 DEF IdxInv, Writes
<1>3. SetFile(p, fd, [fd_table[p][fd] EXCEPT !.pos = pos])
  BY <1>2, FilesParts DEF WriteDone, SetFile, TablesTyped
<1>4. pos \in Nat
  <2>1. pos \in 0 .. LastSector + MaxPos
    BY CallGoes DEF CallType
  <2> QED BY <2>1, NumbersKnown
<1> HIDE DEF fd, pos
<1>5. OthersStay(p) /\ pc'[p] = "user"
  BY <1>1, GoOne
<1>6. \A q \in Process : q # p => fd_table'[q] = fd_table[q]
  BY <1>3, RowsStay
<1>7. \A q \in Process : CallKnows(q)'
  BY <1>1, <1>5, <1>6, CallPlain, CallsKnow DEF Creating, Created
<1>8. \A q \in Process : LoadHandle(q)' = LoadHandle(q)
  BY <1>1, <1>5, LoadsStay DEF LoadHandle
<1>9. StoreStep
  BY <1>1, <1>2, <1>3, <1>4, <1>8, MoveStore
<1> QED BY <1>1, <1>7, <1>9, NameOnceStays DEF StoreInv

(* A write changes a cell of the file's object, at or after the position. *)
LEMMA WriteSectorStore ==
  ASSUME Known, Known', StoreInv, NEW p \in Process, NEW v \in Value, WriteSector(p, v)
  PROVE  StoreInv' /\ StoreStep
<1> USE DEF Known
<1>1. pc[p] = "write_sector" /\ UNCHANGED <<entry, fd_table, file_cur>>
  BY DEF WriteSector, At, procVars
<1>2. PICK s \in Sector, x \in Sector : WrittenAt(p, v, s, x)
  BY WriteWhere
<1>3. disk'[x] = Data(v) /\ \A r \in Sector : r # x => disk'[r] = disk[r]
  BY <1>2, FilesParts DEF StoreTyped, WrittenAt
<1> DEFINE c == [call[p] EXCEPT !.start = @ + 1]
<1>4. c.fd = call[p].fd /\ c.start = call[p].start + 1
  BY CallGoes DEF CallType
<1> HIDE DEF c
<1>5. OthersStay(p) /\ pc'[p] = "write_sector" /\ call'[p] = c
  BY GoOne DEF WriteSector, c
<1>6. PICK fd \in Fd : /\ fd = call[p].fd /\ fd_table[p][fd] # None /\ s = fd_table[p][fd].inode
                       /\ fd_table[p][fd].pos <= call[p].start /\ fd_table[p][fd].pos \in Nat
  <2>1. call[p].fd \in Fd /\ fd_table[p][call[p].fd] # None /\ s = fd_table[p][call[p].fd].inode
    BY <1>2 DEF WrittenAt
  <2>2. fd_table[p][call[p].fd].pos <= call[p].start
    BY <1>1 DEF StoreInv, CallKnows
  <2>3. fd_table[p][call[p].fd].pos \in Nat
    BY <2>1, FilesParts DEF TablesTyped, RowOK, FileType
  <2> QED BY <2>1, <2>2, <2>3
<1>7. PICK b \in Nat : b = call[p].start
  BY <1>2 DEF WrittenAt
<1>8. CallKnows(p)'
  BY <1>1, <1>4, <1>5, <1>6, <1>7 DEF CallKnows, Zeroed, Creating, Created
<1>9. ASSUME NEW q \in Process, q # p, pc[q] \in Zeroed, NEW d \in DataSectors(call[q])
      PROVE  disk'[d] = disk[d]
  <2>1. d \in CallSectors(q)
    BY <1>9 DEF CallSectors, HasData, Zeroed
  <2>2. x \in InodeSectors(s)
    BY <1>2 DEF WrittenAt
  <2>3. InodeSectors(s) \cap CallSectors(q) = {} /\ CallSectors(q) \subseteq Sector
    BY Disjoint, OwnSectors
  <2> QED BY <1>3, <2>1, <2>2, <2>3
<1>10. StoreInv'
  <2>1. \A q \in Process : CallKnows(q)'
    BY <1>1, <1>5, <1>8, <1>9, CallsKnow
  <2> QED BY <1>1, <2>1, NameOnceStays DEF StoreInv
<1>11. Handles' = Handles
  BY <1>1, <1>5, LoadsStay, HandlesStay DEF LoadHandle
<1>12. \A r \in Sector : Referenced(r)' <=> Referenced(r)
  BY <1>1, <1>11 DEF Referenced, Linked
<1>13. ASSUME NEW r \in Sector, Referenced(r), r # s PROVE Cells(r)' = Cells(r)
  <2>1. InUse(r)
    BY <1>13 DEF ObjectsAre
  <2>2. \A d \in InodeSectors(r) : disk'[d] = disk[d]
    <3>1. x \in InodeSectors(s)
      BY <1>2 DEF WrittenAt
    <3>2. InodeSectors(s) \cap InodeSectors(r) = {} /\ InodeSectors(r) \subseteq Sector
      BY <1>13, Disjoint, OwnSectors
    <3> QED BY <1>3, <3>1, <3>2
  <2> QED BY <2>1, <2>2, CellsSame
<1>14. PICK k \in Nat : Handles[p][fd] = <<s, k>> /\ Handles[p][fd] # None /\ k <= b
  <2>1. Handles[p][fd] = <<s, fd_table[p][fd].pos>>
    BY <1>6, HandlesAre DEF FileHandle
  <2> QED BY <1>6, <1>7, <2>1, HandleKnown
<1>15. Referenced(s)
  <2>1. Handles[p][fd] # None /\ Handles[p][fd][1] = s /\ fd \in Fd \cup {0}
    BY <1>14
  <2> QED BY <2>1 DEF Referenced
<1>16. disk[s] \in DiskInode /\ disk'[s] = disk[s]
  BY <1>2, <1>3 DEF SectorsInv, InodeGood, WrittenAt
<1>17. PICK a \in Nat, n \in 0 .. LastSector : a = disk[s].start /\ n = disk[s].length
  <2>1. disk[s].start \in {0} \cup Sector /\ disk[s].length \in 0 .. LastSector
    BY <1>16 DEF DiskInode
  <2>2. {0} \cup Sector \subseteq Nat
    BY NumbersKnown
  <2> QED BY <2>1, <2>2
<1>18. n \in Nat /\ b < n /\ x = a + b
  <2>1. call[p].start < disk[s].length /\ x = disk[s].start + call[p].start
    BY <1>2 DEF WrittenAt
  <2>2. n \in Nat
    BY <1>17, NumbersKnown
  <2> QED BY <1>7, <1>17, <2>1, <2>2
<1>19. ASSUME NEW i \in 1 .. n PROVE a + i - 1 \in Sector
  <2>1. a + i - 1 \in DataSectors(disk[s])
    BY <1>17, <1>18 DEF DataSectors
  <2>2. InodeSectors(s) \subseteq Sector /\ DataSectors(disk[s]) \subseteq InodeSectors(s)
    BY <1>2, OwnSectors DEF InodeSectors, WrittenAt
  <2> QED BY <2>1, <2>2
<1>20. Cells(s) = [i \in 1 .. n |-> disk[a + i - 1]] /\ Cells(s)' = [i \in 1 .. n |-> disk'[a + i - 1]]
  BY <1>16, <1>17 DEF Cells
<1>21. b + 1 \in 1 .. n /\ a + (b + 1) - 1 = x
  BY <1>18
<1>22. \A i \in 1 .. n : disk'[a + i - 1] = IF i = b + 1 THEN Data(v) ELSE disk[a + i - 1]
  BY <1>3, <1>18, <1>19
<1>23. Cells(s)' = [Cells(s) EXCEPT ![b + 1] = Data(v)]
  BY <1>20, <1>21, <1>22
<1>24. Objects' = [Objects EXCEPT ![s] = Cells(s)'] /\ Objects[s] = Cells(s) /\ Objects'[s] = Cells(s)'
  <2>1. Contents(s) = Cells(s) /\ Contents(s)' = Cells(s)'
    BY <1>12, <1>15 DEF ObjectsAre
  <2>2. \A r \in Sector : r # s => Contents(r)' = Contents(r)
    BY <1>12, <1>13 DEF ObjectsAre
  <2> QED BY <2>1, <2>2 DEF Objects
<1>25. Objects' = [Objects EXCEPT ![s][b + 1] = Data(v)]
  BY <1>23, <1>24
<1>26. Cells(s)' # None /\ DOMAIN Cells(s)' = 1 .. n /\ Cells(s)'[b + 1] = Data(v)
  <2>1. StoreTyped'
    <3>1. FilesInv' => StoreTyped'
      BY FilesParts, PTL
    <3> QED BY <3>1
  <2>2. Cells(s)' \in [1 .. n -> DiskInode \cup Cell]
    BY <1>19, <1>20, <2>1 DEF StoreTyped
  <2> QED BY <1>20, <1>21, <1>22, <2>2, NoHandle DEF Unseen
<1>27. Len(Cells(s)) = n
  BY <1>18, <1>20
<1>28. b + 1 \in k + 1 .. Len(Cells(s))
  BY <1>14, <1>18, <1>27
<1>29. Handles[p][fd][1] = s /\ Handles[p][fd][2] = k
  BY <1>14
<1>30. S!Write(p, fd, b + 1, Data(v))
  <2>1. Names' = Names
    BY <1>1 DEF Names, Obj, lookup
  <2> QED BY <1>1, <1>11, <1>14, <1>24, <1>25, <1>28, <1>29, <2>1 DEF S!Write
<1>31. Data(v) \in Cell
  BY DEF Cell
<1>32. S!Next
  <2>1. \E i \in DOMAIN Objects'[Handles[p][fd][1]] :
          LET cell == Objects'[Handles[p][fd][1]][i] IN cell \in Cell /\ S!Write(p, fd, i, cell)
    BY <1>21, <1>24, <1>26, <1>29, <1>30, <1>31
  <2>2. fd \in Fd \cup {0} /\ Objects'[Handles[p][fd][1]] # None
    BY <1>24, <1>26, <1>29
  <2> QED BY <1>14, <2>1, <2>2 DEF S!Next
<1> QED BY <1>10, <1>32 DEF StoreStep

-----------------------------------------------------------------------------
(* References go. *)

LEMMA ViewShrinks ==
  ASSUME Known, Known', StoreInv, UNCHANGED <<disk, entry>>,
         \A q \in Process, g \in Fd \cup {0} : Handles'[q][g] # None => Handles'[q][g] = Handles[q][g],
         \A q \in Process : \/ file_cur'[q] \in {None, file_cur[q]}
                            \/ \E g \in Fd \cup {0} : Handles[q][g] # None /\ Handles[q][g][1] = file_cur'[q]
  PROVE  UNCHANGED Names /\ S!Keep(Objects)
<1>1. ASSUME NEW r \in Sector, Referenced(r)' PROVE Referenced(r) /\ Cells(r)' = Cells(r)
  <2>1. Cells(r)' = Cells(r) /\ (r \in Linked' <=> r \in Linked) /\ r # None
    BY NoneAssumption DEF Cells, Linked
  <2>2. ASSUME NEW q \in Process, file_cur'[q] = r PROVE Referenced(r)
    BY <2>1, <2>2 DEF Referenced
  <2>3. ASSUME NEW q \in Process, NEW g \in Fd \cup {0}, Handles'[q][g] # None, Handles'[q][g][1] = r
        PROVE  Referenced(r)
    <3>1. Handles[q][g] # None /\ Handles[q][g][1] = r
      BY <2>3
    <3> QED BY <3>1 DEF Referenced
  <2> QED BY <1>1, <2>1, <2>2, <2>3 DEF Referenced
<1>2. StoreTyped'
  <2>1. FilesInv' => StoreTyped'
    BY FilesParts, PTL
  <2> QED BY <2>1 DEF Known
<1>3. S!Keep(Objects)
  BY <1>1, <1>2, NameOnceStays, ObjectsGo DEF Known
<1> QED BY <1>3 DEF Names, Obj, lookup

LEMMA SlotStore ==
  ASSUME Known, Known', StoreInv, NEW p \in Process, pc[p] \in {"user", "exit"}, NEW fd \in Fd,
         fd_table[p][fd] # None, SetFile(p, fd, None), NEW next \in {"user", "exit"},
         NEW t, NEW s, CloseInode(p, t, s, next), UNCHANGED <<disk, entry, file_cur>>
  PROVE  StoreInv' /\ StoreStep
<1> USE DEF Known
<1>1. PICK l \in {"release_inode", next} : \E c : Go(p, l, c)
  BY CloseMoves
<1>2. OthersStay(p) /\ pc'[p] = l
  BY <1>1, GoOne
<1>3. \A q \in Process : q # p => fd_table'[q] = fd_table[q]
  BY RowsStay
<1>4. \A q \in Process : CallKnows(q)'
  BY <1>2, <1>3, CallPlain, CallsKnow DEF Creating, Created
<1>5. \A q \in Process : LoadHandle(q)' = LoadHandle(q)
  BY <1>2, LoadsStay DEF LoadHandle
<1>6. FileHandle(None) = None
  BY DEF FileHandle
<1>7. Handles' = [Handles EXCEPT ![p][fd] = None]
  <2>1. PICK f : f = None
    OBVIOUS
  <2>2. SetFile(p, fd, f) /\ FileHandle(f) = None
    BY <1>6, <2>1
  <2> QED BY <1>5, <2>2, HandleSet
<1>8. Handles[p][fd] # None
  <2>1. fd_table[p][fd].inode \in Sector /\ fd_table[p][fd].pos \in Nat
    BY FilesParts DEF TablesTyped, RowOK, FileType
  <2>2. Handles[p][fd] = FileHandle(fd_table[p][fd])
    BY HandlesAre
  <2> QED BY <2>1, <2>2, HandleKnown DEF FileHandle
<1>9. \A q \in Process, g \in Fd \cup {0} : Handles'[q][g] # None => Handles'[q][g] = Handles[q][g]
  BY <1>7, HandlesAre
<1>10. UNCHANGED Names /\ S!Keep(Objects)
  BY <1>9, ViewShrinks
<1>11. S!Close(p, fd)
  BY <1>7, <1>8, <1>10 DEF S!Close
<1> QED BY <1>4, <1>11, NameOnceStays DEF StoreInv, StoreStep, S!Next

LEMMA CloseStore ==
  ASSUME Known, Known', StoreInv, NEW p \in Process, NEW fd \in Fd, Close(p, fd)
  PROVE  StoreInv' /\ StoreStep
<1>1. /\ pc[p] = "user" /\ fd_table[p][fd] # None /\ SetFile(p, fd, None)
      /\ CloseInode(p, inodes, fd_table[p][fd].inode, "user") /\ UNCHANGED <<disk, entry, file_cur>>
  BY DEF Close, At
<1> QED BY <1>1, SlotStore

LEMMA ExitFileStore ==
  ASSUME Known, Known', StoreInv, NEW p \in Process, ExitFile(p)
  PROVE  StoreInv' /\ StoreStep
<1> USE DEF Known
<1> DEFINE open == {fd \in Fd : fd_table[p][fd] # None}
<1>1. pc[p] = "exit" /\ UNCHANGED <<disk, entry>>
  BY DEF ExitFile, At
<1>2. CASE /\ file_cur' = [file_cur EXCEPT ![p] = None] /\ UNCHANGED fd_table
           /\ CloseInode(p, inode_allow_write(inodes, file_cur[p]), file_cur[p], "exit")
  <2>1. PICK l \in {"release_inode", "exit"} : \E c : Go(p, l, c)
    BY <1>2, CloseMoves
  <2>2. OthersStay(p) /\ pc'[p] = l
    BY <2>1, GoOne
  <2>3. \A q \in Process : CallKnows(q)'
    BY <1>1, <1>2, <2>2, CallPlain, CallsKnow DEF Creating, Created
  <2>4. Handles' = Handles
    BY <1>1, <1>2, <2>2, LoadsStay, HandlesStay DEF LoadHandle
  <2>5. \A q \in Process : file_cur'[q] \in {None, file_cur[q]}
    BY <1>2, FilesParts DEF TablesTyped
  <2>6. UNCHANGED Names /\ S!Keep(Objects)
    BY <1>1, <2>4, <2>5, ViewShrinks
  <2>7. S!Unload(p)
    BY <1>2, <2>4, <2>6 DEF S!Unload
  <2> QED BY <1>1, <2>3, <2>7, NameOnceStays DEF StoreInv, StoreStep, S!Next
<1>3. CASE /\ open # {} /\ SetFile(p, Min(open), None) /\ UNCHANGED file_cur
           /\ CloseInode(p, inodes, fd_table[p][Min(open)].inode, "exit")
  <2>1. Min(open) \in open
    <3>1. open \in SUBSET Nat
      BY NumbersKnown
    <3> QED BY <1>3, <3>1, MinIsLeast
  <2>2. PICK fd \in Fd : fd = Min(open) /\ fd_table[p][fd] # None
    BY <2>1
  <2> HIDE DEF open
  <2> QED BY <1>1, <1>3, <2>2, SlotStore
<1> QED BY <1>2, <1>3 DEF ExitFile

LEMMA LoadStore ==
  ASSUME Known, Known', StoreInv, NEW p \in Process, Load(p)
  PROVE  StoreInv' /\ StoreStep
<1> USE DEF Known
<1>1. pc[p] = "load" /\ UNCHANGED <<disk, entry, fd_table>>
  BY DEF Load, At
<1>2. PICK l \in {"user", "exit"} : Go(p, l, NoCall)
  BY DEF Load, Return, call_exit
<1>3. OthersStay(p) /\ pc'[p] = l
  BY <1>2, GoOne
<1>4. \A q \in Process : CallKnows(q)'
  BY <1>1, <1>3, CallPlain, CallsKnow DEF Creating, Created
<1>5. Handles' = [Handles EXCEPT ![p][0] = None]
  BY <1>1, <1>3, LoadSet DEF LoadHandle
<1>6. PICK s \in Sector : s = call[p].sector
  BY <1>1, PointedAtOpen DEF Counted
<1>7. Handles[p][0] # None /\ Handles[p][0][1] = s
  <2>1. Handles[p][0] = <<s, 0>>
    BY <1>1, <1>6, HandlesAre DEF LoadHandle
  <2> QED BY <2>1, HandleKnown
<1>8. \A q \in Process, g \in Fd \cup {0} : Handles'[q][g] # None => Handles'[q][g] = Handles[q][g]
  BY <1>5, HandlesAre
<1>9. CASE file_cur' = [file_cur EXCEPT ![p] = s]
  <2>1. \A q \in Process : \/ file_cur'[q] \in {None, file_cur[q]}
                           \/ \E g \in Fd \cup {0} : Handles[q][g] # None /\ Handles[q][g][1] = file_cur'[q]
    BY <1>7, <1>9, FilesParts DEF TablesTyped
  <2>2. UNCHANGED Names /\ S!Keep(Objects)
    BY <1>1, <1>8, <2>1, ViewShrinks
  <2>3. S!Load(p, 0)
    BY <1>5, <1>7, <1>9, <2>2 DEF S!Load
  <2> QED BY <1>1, <1>4, <2>3, NameOnceStays DEF StoreInv, StoreStep, S!Next
<1>10. CASE UNCHANGED file_cur
  <2>1. UNCHANGED Names /\ S!Keep(Objects)
    BY <1>1, <1>8, <1>10, ViewShrinks
  <2>2. S!Close(p, 0)
    BY <1>5, <1>7, <1>10, <2>1 DEF S!Close
  <2> QED BY <1>1, <1>4, <2>2, NameOnceStays DEF StoreInv, StoreStep, S!Next
<1> QED BY <1>6, <1>9, <1>10 DEF Load

LEMMA ForkStore ==
  ASSUME Known, Known', StoreInv, NEW p \in Process, NEW c \in Process, Fork(p, c)
  PROVE  StoreInv' /\ StoreStep
<1> USE DEF Known
<1>1. pc[p] = "user" /\ pc[c] = "none" /\ Go(c, "user", NoCall) /\ UNCHANGED <<disk, entry, file_cur>>
  BY DEF Fork, At
<1>2. PICK fds \in SUBSET Fd :
        fd_table' = [fd_table EXCEPT ![c] = [fd \in Fd |-> IF fd \in fds THEN fd_table[p][fd] ELSE None]]
  BY DEF Fork
<1>3. OthersStay(c) /\ pc'[c] = "user"
  BY <1>1, GoOne
<1>4. /\ \A fd \in Fd : fd_table'[c][fd] = IF fd \in fds THEN fd_table[p][fd] ELSE None
      /\ \A q \in Process : q # c => fd_table'[q] = fd_table[q]
      /\ \A fd \in Fd : fd_table[c][fd] = None
  BY <1>1, <1>2, FilesParts DEF TablesTyped
<1>5. \A q \in Process : CallKnows(q)'
  BY <1>1, <1>3, <1>4, CallPlain, CallsKnow DEF Creating, Created
<1>6. /\ \A q \in Process, g \in Fd \cup {0} : q # c => Handles'[q][g] = Handles[q][g]
      /\ \A g \in Fd \cup {0} : Handles[c][g] = None /\ Handles'[c][g] \in {None, Handles[p][g]}
  <2>1. ASSUME NEW q \in Process, NEW g \in Fd \cup {0}, q # c PROVE Handles'[q][g] = Handles[q][g]
    <3>1. LoadHandle(q)' = LoadHandle(q)
      BY <1>3, <2>1, LoadsStay
    <3> QED BY <1>4, <2>1, <3>1, HandlesAre
  <2>2. ASSUME NEW g \in Fd PROVE Handles[c][g] = None /\ Handles'[c][g] \in {None, Handles[p][g]}
    <3>1. /\ Handles[c][g] = FileHandle(fd_table[c][g]) /\ Handles'[c][g] = FileHandle(fd_table'[c][g])
          /\ Handles[p][g] = FileHandle(fd_table[p][g])
      BY HandlesAre
    <3>2. FileHandle(None) = None
      BY DEF FileHandle
    <3> QED BY <1>4, <3>1, <3>2
  <2>3. Handles[c][0] = None /\ Handles'[c][0] = None
    <3>1. LoadHandle(c) = None /\ LoadHandle(c)' = None
      BY <1>1, <1>3 DEF LoadHandle
    <3> QED BY <3>1, HandlesAre
  <2> QED BY <2>1, <2>2, <2>3
<1>7. Handles' = [Handles EXCEPT ![c] = Handles'[c]]
  <2>1. /\ Handles = [q \in Process |-> [g \in Fd \cup {0} |-> Handles[q][g]]]
        /\ Handles' = [q \in Process |-> [g \in Fd \cup {0} |-> Handles'[q][g]]]
    BY HandlesAre
  <2> DEFINE G == Fd \cup {0}
             F == Handles
             H == Handles'
  <2>2. /\ F = [q \in Process |-> [g \in G |-> F[q][g]]] /\ H = [q \in Process |-> [g \in G |-> H[q][g]]]
        /\ \A q \in Process, g \in G : q # c => H[q][g] = F[q][g]
    BY <1>6, <2>1
  <2> HIDE DEF F, G, H
  <2>3. \A q \in Process : q # c => H[q] = F[q]
    <3>1. ASSUME NEW q \in Process, q # c PROVE H[q] = F[q]
      <4>1. H[q] = [g \in G |-> H[q][g]] /\ F[q] = [g \in G |-> F[q][g]]
        BY <2>2
      <4>2. \A g \in G : H[q][g] = F[q][g]
        BY <2>2, <3>1
      <4> QED BY <4>1, <4>2
    <3> QED BY <3>1
  <2>4. H = [F EXCEPT ![c] = H[c]]
    BY <2>2, <2>3
  <2> QED BY <2>4 DEF F, H
<1>8. ASSUME NEW r \in Sector PROVE Referenced(r)' <=> Referenced(r)
  <2>1. r \in Linked' <=> r \in Linked
    BY <1>1 DEF Linked
  <2>2. ASSUME NEW q \in Process, NEW g \in Fd \cup {0}, Handles[q][g] # None, Handles[q][g][1] = r
        PROVE  Referenced(r)'
    <3>1. Handles'[q][g] # None /\ Handles'[q][g][1] = r
      BY <1>6, <2>2
    <3> QED BY <3>1 DEF Referenced
  <2>3. ASSUME NEW q \in Process, NEW g \in Fd \cup {0}, Handles'[q][g] # None, Handles'[q][g][1] = r
        PROVE  Referenced(r)
    <3>1. \E u \in Process : Handles[u][g] # None /\ Handles[u][g][1] = r
      BY <1>6, <2>3
    <3> QED BY <3>1 DEF Referenced
  <2> QED BY <1>1, <2>1, <2>2, <2>3 DEF Referenced
<1>9. Objects' = Objects
  BY <1>1, <1>8, ObjectsSame DEF Cells
<1>10. Names' = Names
  BY <1>1 DEF Names, Obj, lookup
<1>11. S!Fork(p, c, Handles'[c])
  BY <1>1, <1>6, <1>7, <1>9, <1>10 DEF S!Fork
<1> QED BY <1>1, <1>5, <1>11, NameOnceStays DEF StoreInv, StoreStep, S!Next

LEMMA PowerOffStore ==
  ASSUME Known, Known', StoreInv, PowerOff PROVE StoreInv' /\ StoreStep
<1>1. /\ \A p \in Process : pc'[p] = "none"
      /\ fd_table' = [p \in Process |-> [fd \in Fd |-> None]]
      /\ file_cur' = [p \in Process |-> None] /\ UNCHANGED <<disk, entry>>
  BY DEF PowerOff
<1>2. \A p \in Process : CallKnows(p)'
  BY <1>1, CallPlain DEF Creating, Created
<1>3. Handles' = [p \in Process |-> [fd \in Fd \cup {0} |-> None]]
  <2>1. \A p \in Process : LoadHandle(p)' = None
    BY <1>1 DEF LoadHandle
  <2>2. FileHandle(None) = None
    BY DEF FileHandle
  <2>3. \A p \in Process, fd \in Fd : fd_table'[p][fd] = None
    BY <1>1
  <2> QED BY <2>1, <2>2, <2>3, HandlesAre
<1>4. UNCHANGED Names /\ S!Keep(Objects)
  <2>1. \A q \in Process, g \in Fd \cup {0} : Handles'[q][g] # None => Handles'[q][g] = Handles[q][g]
    BY <1>3
  <2>2. \A q \in Process : file_cur'[q] \in {None, file_cur[q]}
    BY <1>1
  <2> QED BY <1>1, <2>1, <2>2, ViewShrinks
<1>5. S!Stop
  BY <1>1, <1>3, <1>4 DEF S!Stop
<1> QED BY <1>1, <1>2, <1>5, NameOnceStays DEF StoreInv, StoreStep, S!Next

LEMMA InitStore == ASSUME Init PROVE StoreInv /\ S!Init
<1>1. /\ \A p \in Process : pc[p] = "none"
      /\ fd_table = [p \in Process |-> [fd \in Fd |-> None]]
      /\ file_cur = [p \in Process |-> None]
      /\ entry = [i \in Slot |-> IF i = 1 THEN <<Program, 2>> ELSE None]
  BY DEF Init
<1>2. NameOnce
  BY <1>1 DEF NameOnce
<1>3. \A p \in Process : CallKnows(p)
  BY <1>1 DEF CallKnows, Zeroed, Creating, Created
<1>4. FilesInv
  BY InitInv
<1>5. Handles = [p \in Process |-> [fd \in Fd \cup {0} |-> None]]
  <2>1. \A p \in Process : LoadHandle(p) = None
    BY <1>1 DEF LoadHandle
  <2>2. FileHandle(None) = None
    BY DEF FileHandle
  <2>3. \A p \in Process, fd \in Fd : fd_table[p][fd] = None
    BY <1>1
  <2> QED BY <2>1, <2>2, <2>3, HandlesAre
<1>6. NamesLead
  BY <1>2, <1>4, FilesParts, NamesKnown
<1>7. Names \in [Name -> Sector \cup {None}]
  <2>1. ASSUME NEW n \in Name PROVE Obj(n) \in Sector \cup {None}
    <3>1. CASE \E i \in Slot : entry[i] # None /\ entry[i][1] = n
      <4>1. PICK i \in Slot : entry[i] # None /\ entry[i][1] = n
        BY <3>1
      <4>2. Obj(n) = entry[i][2] /\ entry[i] \in Name \X Sector
        BY <1>4, <1>6, <4>1, FilesParts DEF NamesLead, StoreTyped
      <4> QED BY <4>2
    <3>2. CASE \A i \in Slot : entry[i] # None => entry[i][1] # n
      BY <1>6, <3>2 DEF NamesLead
    <3> QED BY <3>1, <3>2
  <2> QED BY <2>1 DEF Names
<1>8. ASSUME NEW s \in Sector, Objects[s] # None PROVE \E n \in Name : Names[n] = s
  <2>1. Referenced(s)
    <3>1. Objects[s] = Contents(s)
      BY DEF Objects
    <3>2. ~Referenced(s) => Contents(s) = None
      BY DEF Contents
    <3> QED BY <1>8, <3>1, <3>2
  <2>2. s \in Linked
    <3>1. s # None
      BY NoneAssumption
    <3> QED BY <1>1, <1>5, <2>1, <3>1 DEF Referenced
  <2> QED BY <1>6, <2>2 DEF NamesLead, Names
<1> QED BY <1>1, <1>2, <1>3, <1>5, <1>7, <1>8 DEF StoreInv, S!Init

LEMMA StoreProcess ==
  ASSUME Known, Known', StoreInv, NEW p \in Process, ProcessStep(p)
  PROVE  StoreInv' /\ StoreStep
<1>1. CASE \/ \E n \in Name, len \in Length : Create(p, n, len)
           \/ CreateData(p) \/ CreateLookup(p) \/ CreateSlot(p) \/ CreateUndo(p)
  BY <1>1, CreateQuiet
<1>2. CASE CreateInode(p) \/ CreateAdd(p) \/ RemoveErase(p) \/ Load(p) \/ ExitFile(p) \/ WriteDone(p)
  BY <1>2, CreateInodeQuiet, CreateAddStore, RemoveEraseStore, LoadStore, ExitFileStore, WriteDoneStore
<1>3. CASE \/ \E n \in Name : Open(p, n) \/ Remove(p, n) \/ Exec(p, n) \/ Boot(p, n)
           \/ RemoveDone(p) \/ Exit(p) \/ WriteFault(p) \/ ExitDone(p) \/ ReleaseInode(p) \/ ReleaseData(p)
  BY <1>3, CallsQuiet
<1>4. CASE OpenInode(p) \/ FillInode(p)
  BY <1>4, FindsStore
<1>5. CASE \E fd \in Fd : Close(p, fd) \/ Read(p, fd) \/ WriteStart(p, fd) \/ \E pos \in Pos : Seek(p, fd, pos)
  BY <1>5, CloseStore, UseStore
<1>6. CASE (\E v \in Value : WriteSector(p, v)) \/ \E c \in Process : Fork(p, c)
  BY <1>6, WriteSectorStore, ForkStore
<1> QED BY <1>1, <1>2, <1>3, <1>4, <1>5, <1>6 DEF ProcessStep

LEMMA StoreSteps == Known /\ Known' /\ StoreInv /\ [OrderlyNext]_vars => StoreInv' /\ StoreStep
<1> SUFFICES ASSUME Known, Known', StoreInv, [OrderlyNext]_vars PROVE StoreInv' /\ StoreStep
  OBVIOUS
<1>1. CASE \E p \in Process : ProcessStep(p)
  BY <1>1, StoreProcess
<1>2. CASE PowerOff
  BY <1>2, PowerOffStore
<1>3. CASE UNCHANGED vars
  <2>1. Stay /\ UNCHANGED <<disk, entry, fd_table, file_cur>>
    BY <1>3 DEF vars, Stay
  <2> QED BY <2>1, QuietStay
<1> QED BY <1>1, <1>2, <1>3 DEF OrderlyNext, Next

(* Under OrderlySpec, where one call at a time is between its scan of the  *)
(* directory and its use of what it found there, the calls do what the     *)
(* abstract store does: a file keeps its contents until a call writes to   *)
(* it, and lives as long as a name, a descriptor or a running program      *)
(* leads to it, and the machine may stop at any time (deferred removal of  *)
(* inode_close, the zeros of inode_create, reopening in fork).  No lock of *)
(* the code enforces the restriction, which leaves out two creates at      *)
(* once, an open against a remove, and a second opener of an inode that    *)
(* has not been read; without it the statement is false.                   *)
THEOREM CallsImplementStore == OrderlySpec => ImplementsStore
<1>1. OrderlyInv => Known
  BY ObjectsKnown DEF OrderlyInv, Known
<1>2. Init => StoreInv /\ S!Init
  BY InitStore
<1>3. OrderlyInv' => Known'
  BY <1>1, PTL
<1>4. OrderlyInv /\ OrderlyInv' /\ StoreInv /\ [OrderlyNext]_vars => StoreInv' /\ StoreStep
  BY <1>1, <1>3, StoreSteps
<1>5. StoreStep => [S!Next]_(S!storeVars)
  BY DEF StoreStep, S!storeVars
<1> QED BY <1>2, <1>4, <1>5, OrderlyKept, PTL DEF OrderlySpec, ImplementsStore, S!Spec
=============================================================================
