------------------------------- MODULE Filesys -------------------------------
(***************************************************************************)
(* The file system below the system calls: a disk of sectors with the free *)
(* map, the root directory and the inodes, and in memory the table of open *)
(* inodes.  Lengths are counted in sectors.  The free map is written to    *)
(* disk whenever it changes (free_map_allocate, free_map_release), so one  *)
(* variable stands for both copies.  Sectors 0 and 1, the files of the     *)
(* free map and of the directory, are not in Sector.                       *)
(***************************************************************************)
EXTENDS Integers, FiniteSets, FiniteSetsExt

CONSTANTS Name,       \* names of files
          LastSector, \* the disk has the sectors 2 .. LastSector for files
          Slots,      \* the number of entries of the root directory
          Value,      \* what may be written to a sector, with 0
          Garbage,    \* what an inode may hold that has not been read
          None

Sector == 2 .. LastSector
Slot == 1 .. Slots

ASSUME FilesysAssumption ==
  /\ LastSector \in Nat \ {0, 1}
  /\ Slots \in Nat \ {0}
  /\ 0 \in Value /\ Garbage # {} /\ Garbage \subseteq [start : {0} \cup Sector, length : 0 .. LastSector]

VARIABLES disk,     \* an on-disk inode or data in each sector
          entry,    \* the directory: <<name, sector>> or None in each slot
          free_map, \* the sectors marked as allocated
          inodes    \* open_inodes: the inode of a sector that is open, or None

fsVars == <<disk, entry, free_map, inodes>>

Data(v) == [data |-> v]
Cell == {Data(v) : v \in Value}
DiskInode == [start : {0} \cup Sector, length : 0 .. LastSector]
Inode == [start : {0} \cup Sector, length : 0 .. LastSector,
          open_cnt : Nat \ {0}, removed : BOOLEAN, deny_write_cnt : Nat]

(* NULL is no inode, no sector and no entry. *)
ASSUME NoneAssumption ==
  /\ None \notin Inode /\ None \notin Sector /\ None \notin Name \X Sector

DataSectors(i) == i.start .. i.start + i.length - 1

-----------------------------------------------------------------------------
(* The free map. *)

FreeRuns(cnt) ==
  {i \in Sector : i + cnt - 1 \in Sector /\ (i .. i + cnt - 1) \cap free_map = {}}

CanAllocate(cnt) == cnt = 0 \/ FreeRuns(cnt) # {}

(* bitmap_scan_and_flip: the first run that fits, and 0 for no sectors. *)
FirstFit(cnt) == IF cnt = 0 THEN 0 ELSE Min(FreeRuns(cnt))

free_map_allocate(start, cnt) == free_map' = free_map \cup start .. start + cnt - 1
free_map_release(start, cnt) == free_map' = free_map \ (start .. start + cnt - 1)

-----------------------------------------------------------------------------
(* The directory. *)

lookup(n) == {i \in Slot : entry[i] # None /\ entry[i][1] = n}
Linked == {entry[i][2] : i \in {j \in Slot : entry[j] # None}}
EmptySlots == {i \in Slot : entry[i] = None}

-----------------------------------------------------------------------------
(* The table of open inodes: what each function makes of the table t. *)

(* inode_open enters a new inode, whose data is still the garbage g, and   *)
(* then waits for the disk to fill it in.                                  *)
inode_enter(t, s, g) ==
  [t EXCEPT ![s] = [start |-> g.start, length |-> g.length,
                    open_cnt |-> 1, removed |-> FALSE, deny_write_cnt |-> 0]]

(* What disk_read finds in sector s; nothing checks that it is an inode. *)
OnDisk(s) == IF "length" \in DOMAIN disk[s] THEN disk[s] ELSE [start |-> 0, length |-> 0]
inode_fill(t, s) == [t EXCEPT ![s].start = OnDisk(s).start, ![s].length = OnDisk(s).length]

(* Seeded fault: the files share one opener. *)
inode_shared(t, s, times) == t

inode_reopen(t, s, times) ==
  IF t[s] = None THEN t ELSE [t EXCEPT ![s].open_cnt = @ + times]

inode_remove(t, s) == [t EXCEPT ![s].removed = TRUE]
inode_deny_write(t, s) == [t EXCEPT ![s].deny_write_cnt = @ + 1]
inode_allow_write(t, s) == [t EXCEPT ![s].deny_write_cnt = @ - 1]

LastOpener(t, s) == t[s].open_cnt = 1

(* Seeded fault: an inode nobody has open stays in open_inodes. *)
inode_kept(t, s) == [t EXCEPT ![s].open_cnt = @ - 1]
inode_close(t, s) ==
  IF LastOpener(t, s) THEN [t EXCEPT ![s] = None] ELSE [t EXCEPT ![s].open_cnt = @ - 1]

-----------------------------------------------------------------------------
FsTypeOK ==
  /\ disk \in [Sector -> DiskInode \cup Cell]
  /\ entry \in [Slot -> {None} \cup (Name \X Sector)]
  /\ free_map \subseteq Sector
  /\ inodes \in [Sector -> {None} \cup Inode]
=============================================================================
