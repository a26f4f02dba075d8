-------------------------------- MODULE Files --------------------------------
(***************************************************************************)
(* The system calls on files: the descriptor tables of the processes, the  *)
(* program file each keeps open, the semaphore syn_sema, and the calls     *)
(* themselves down to the directory, the inodes and the free map.          *)
(*                                                                         *)
(* A call is cut where it waits for the disk, for that is where another    *)
(* process gets in: a step runs up to the next disk operation whose order  *)
(* against the others is visible.  One scan of the directory is a step.    *)
(* The inode of the directory itself is always there and is left out.  A   *)
(* file structure belongs to one slot of one table, so it is a pair        *)
(* <<inode, pos>> in that slot; only load denies writing, to a file that   *)
(* is in no table, so the file->deny_write of a slot is always false.      *)
(***************************************************************************)
EXTENDS Filesys

CONSTANTS Process,       \* places for a process
          LastFd,        \* descriptors are 2 .. LastFd
          MaxPos,        \* bound on the position of a file
          MaxLost,       \* bound on the open files on an inode that nobody points to
          Length,        \* the lengths a file may be created with
          Program,       \* the file on the disk at the start,
          ProgramLength  \* and its length

Fd == 2 .. LastFd
Pos == 0 .. MaxPos
FileType == [inode : Sector, pos : Nat]

ASSUME FilesAssumption ==
  /\ LastFd \in Nat \ {0} /\ MaxPos \in Nat /\ MaxLost \in Nat
  /\ Length \subseteq 0 .. LastSector /\ Program \in Name
  /\ ProgramLength \in Nat /\ 2 + ProgramLength <= LastSector

(* Every process has a page of its own. *)
ASSUME FiniteProcesses == IsFiniteSet(Process)

ASSUME NoFile == None \notin FileType

(* Nor is it what the clients see of an open file, or of a file's data.    *)
Unseen(x) ==
  /\ x \notin Sector \X Nat
  /\ \A n \in 0 .. LastSector : x \notin [1 .. n -> DiskInode \cup Cell]
ASSUME NoHandle == Unseen(None)

VARIABLES pc, call,   \* where each process is, and the locals of its call
          fd_table,   \* the open files of each process
          fd_idx,     \* where add_file_to_fdt looks for a place
          file_cur,   \* the inode of the program file it holds, or None
          lost,       \* open files nobody points to: plain and write-denying
          syn_sema,
          image,      \* the inode whose program it runs, or None
          abandoned   \* a process has ended between sema_down and sema_up

vars == <<disk, entry, free_map, inodes, pc, call, fd_table, fd_idx, file_cur, lost,
          syn_sema, image, abandoned>>
procVars == <<fd_table, fd_idx, file_cur, image>>
semaVars == <<syn_sema, abandoned>>

NoCall == [name |-> None, sector |-> 0, start |-> 0, length |-> 0, fd |-> 0, next |-> "user"]

Labels == {"none", "user", "create_data", "create_inode", "create_lookup", "create_slot",
           "create_add", "create_undo", "open_inode", "fill_inode", "load", "remove_erase",
           "remove_done", "write_sector", "release_inode", "release_data", "exit"}

Init ==
  /\ disk = [s \in Sector |-> IF s = 2 THEN [start |-> IF ProgramLength = 0 THEN 0 ELSE 3,
                                             length |-> ProgramLength]
                              ELSE Data(0)]
  /\ entry = [i \in Slot |-> IF i = 1 THEN <<Program, 2>> ELSE None]
  /\ free_map = 2 .. 2 + ProgramLength
  /\ inodes = [s \in Sector |-> None]
  /\ pc = [p \in Process |-> "none"]
  /\ call = [p \in Process |-> NoCall]
  /\ fd_table = [p \in Process |-> [fd \in Fd |-> None]]
  /\ fd_idx = [p \in Process |-> 2]
  /\ file_cur = [p \in Process |-> None]
  /\ image = [p \in Process |-> None]
  /\ lost = [s \in Sector |-> [plain |-> 0, denying |-> 0]]
  /\ syn_sema = 1 /\ abandoned = FALSE

-----------------------------------------------------------------------------
At(p, label) == pc[p] = label
Go(p, label, locals) ==
  /\ pc' = [pc EXCEPT ![p] = label]
  /\ call' = [call EXCEPT ![p] = locals]
Return(p) == Go(p, "user", NoCall)
Stay == UNCHANGED <<pc, call>>
call_exit(p) == Go(p, "exit", NoCall)

File(s, pos) == [inode |-> s, pos |-> pos]
SetFile(p, fd, f) == fd_table' = [fd_table EXCEPT ![p][fd] = f]

(* Seeded fault: the sectors go with the first opener that closes. *)
CloseInodeEarly(p, t, s, next) ==
  /\ inodes' = inode_close(t, s)
  /\ IF t[s].removed
     THEN Go(p, "release_inode", [NoCall EXCEPT !.sector = s, !.start = t[s].start,
                                                !.length = t[s].length, !.next = next])
     ELSE Go(p, next, NoCall)

(* inode_close of s in the table t, then go on at next; the sectors of a   *)
(* removed inode are released when its last opener has closed it.          *)
CloseInode(p, t, s, next) ==
  /\ inodes' = inode_close(t, s)
  /\ IF LastOpener(t, s) /\ t[s].removed
     THEN Go(p, "release_inode", [NoCall EXCEPT !.sector = s, !.start = t[s].start,
                                                !.length = t[s].length, !.next = next])
     ELSE Go(p, next, NoCall)

ReleaseInode(p) ==
  /\ At(p, "release_inode")
  /\ free_map_release(call[p].sector, 1)
  /\ Go(p, "release_data", call[p])
  /\ UNCHANGED <<disk, entry, inodes, lost>> /\ UNCHANGED procVars /\ UNCHANGED semaVars

(* Seeded fault: the data of a removed inode stays allocated. *)
ReleaseInodeOnly(p) ==
  /\ At(p, "release_data")
  /\ Go(p, call[p].next, NoCall)
  /\ UNCHANGED fsVars /\ UNCHANGED lost /\ UNCHANGED procVars /\ UNCHANGED semaVars

ReleaseData(p) ==
  /\ At(p, "release_data")
  /\ free_map_release(call[p].start, call[p].length)
  /\ Go(p, call[p].next, NoCall)
  /\ UNCHANGED <<disk, entry, inodes, lost>> /\ UNCHANGED procVars /\ UNCHANGED semaVars

-----------------------------------------------------------------------------
(* call_create *)

Create(p, n, len) ==
  /\ At(p, "user")
  /\ IF CanAllocate(1)
     THEN /\ free_map_allocate(FirstFit(1), 1)
          /\ Go(p, "create_data", [NoCall EXCEPT !.name = n, !.sector = FirstFit(1), !.length = len])
     ELSE UNCHANGED free_map /\ Stay
  /\ UNCHANGED <<disk, entry, inodes, lost>> /\ UNCHANGED procVars /\ UNCHANGED semaVars

(* inode_create allocates the data, or finds no memory or no space. *)
CreateData(p) ==
  /\ At(p, "create_data")
  /\ LET len == call[p].length IN
       \/ /\ CanAllocate(len)
          /\ free_map_allocate(FirstFit(len), len)
          /\ Go(p, "create_inode", [call[p] EXCEPT !.start = FirstFit(len)])
       \/ UNCHANGED free_map /\ Go(p, "create_undo", call[p])
  /\ UNCHANGED <<disk, entry, inodes, lost>> /\ UNCHANGED procVars /\ UNCHANGED semaVars

(* Seeded fault: the data sectors keep what they held. *)
CreateInodeStale(p) ==
  /\ At(p, "create_inode")
  /\ disk' = [disk EXCEPT ![call[p].sector] = [start |-> call[p].start, length |-> call[p].length]]
  /\ Go(p, "create_lookup", call[p])
  /\ UNCHANGED <<entry, free_map, inodes, lost>> /\ UNCHANGED procVars /\ UNCHANGED semaVars

(* inode_create writes the inode and the zeros; nobody can reach them yet. *)
CreateInode(p) ==
  /\ At(p, "create_inode")
  /\ LET i == [start |-> call[p].start, length |-> call[p].length] IN
       disk' = [s \in Sector |-> IF s = call[p].sector THEN i
                                 ELSE IF s \in DataSectors(i) THEN Data(0) ELSE disk[s]]
  /\ Go(p, "create_lookup", call[p])
  /\ UNCHANGED <<entry, free_map, inodes, lost>> /\ UNCHANGED procVars /\ UNCHANGED semaVars

(* dir_add looks for the name, and then for a slot that is not in use.     *)
CreateLookup(p) ==
  /\ At(p, "create_lookup")
  /\ Go(p, IF lookup(call[p].name) = {} THEN "create_slot" ELSE "create_undo", call[p])
  /\ UNCHANGED fsVars /\ UNCHANGED lost /\ UNCHANGED procVars /\ UNCHANGED semaVars

CreateSlot(p) ==
  /\ At(p, "create_slot")
  /\ IF EmptySlots = {} THEN Go(p, "create_undo", call[p])
     ELSE Go(p, "create_add", [call[p] EXCEPT !.fd = Min(EmptySlots)])
  /\ UNCHANGED fsVars /\ UNCHANGED lost /\ UNCHANGED procVars /\ UNCHANGED semaVars

CreateAdd(p) ==
  /\ At(p, "create_add")
  /\ \/ /\ entry' = [entry EXCEPT ![call[p].fd] = <<call[p].name, call[p].sector>>]
        /\ Return(p)
     \/ UNCHANGED entry /\ Go(p, "create_undo", call[p])
  /\ UNCHANGED <<disk, free_map, inodes, lost>> /\ UNCHANGED procVars /\ UNCHANGED semaVars

(* Only the sector of the inode is given back, not those of its data. *)
CreateUndo(p) ==
  /\ At(p, "create_undo")
  /\ free_map_release(call[p].sector, 1)
  /\ Return(p)
  /\ UNCHANGED <<disk, entry, inodes, lost>> /\ UNCHANGED procVars /\ UNCHANGED semaVars

-----------------------------------------------------------------------------
(* Finding a file by name: filesys_open and dir_remove.  call.next says    *)
(* what for: "open", "exec" or "remove".                                   *)

(* The scan of the directory, up to the sector inode_open opens next. *)
Find(p, n, next, otherwise) ==
  IF lookup(n) = {} THEN Go(p, otherwise, NoCall)
  ELSE Go(p, "open_inode", [NoCall EXCEPT !.sector = entry[Min(lookup(n))][2],
                                          !.fd = Min(lookup(n)), !.next = next])

(* Where a call goes that gets no inode. *)
Without(next) ==
  CASE next = "remove" -> "remove_done" [] next = "exec" -> "exit" [] OTHER -> "user"

(* add_file_to_fdt: the first empty slot from fd_idx on. *)
FreeFds(p) == {fd \in Fd : fd >= fd_idx[p] /\ fd_table[p][fd] = None}

OpenFile(p, t, s) ==
  \/ \E fd \in FreeFds(p) :
       /\ \A f \in FreeFds(p) : fd <= f
       /\ inodes' = t
       /\ SetFile(p, fd, File(s, 0))
       /\ fd_idx' = [fd_idx EXCEPT ![p] = fd]
       /\ Return(p)
  \/ /\ FreeFds(p) = {}
     /\ fd_idx' = [fd_idx EXCEPT ![p] = LastFd + 1]
     /\ CloseInode(p, t, s, "user") /\ UNCHANGED fd_table
  \/ CloseInode(p, t, s, "user") /\ UNCHANGED <<fd_table, fd_idx>> \* no memory

(* The call has its inode, in the table t. *)
Opened(p, t, s) ==
  \/ call[p].next = "open" /\ OpenFile(p, t, s)
  \/ /\ call[p].next = "exec"
     /\ \/ inodes' = t /\ Go(p, "load", call[p])
        \/ CloseInode(p, t, s, "exit") \* no memory
     /\ UNCHANGED <<fd_table, fd_idx>>
  \/ /\ call[p].next = "remove"
     /\ inodes' = t /\ Go(p, "remove_erase", call[p])
     /\ UNCHANGED <<fd_table, fd_idx>>

OpenInode(p) ==
  /\ At(p, "open_inode")
  /\ LET s == call[p].sector IN
       \/ inodes[s] # None /\ Opened(p, inode_reopen(inodes, s, 1), s)
       \/ /\ inodes[s] = None
          /\ \E g \in Garbage : inodes' = inode_enter(inodes, s, g)
          /\ Go(p, "fill_inode", call[p])
          /\ UNCHANGED <<fd_table, fd_idx>>
       \/ /\ inodes[s] = None \* no memory
          /\ Go(p, Without(call[p].next), NoCall)
          /\ UNCHANGED <<inodes, fd_table, fd_idx>>
  /\ UNCHANGED <<disk, entry, free_map, lost, file_cur, image>> /\ UNCHANGED semaVars

FillInode(p) ==
  /\ At(p, "fill_inode")
  /\ LET s == call[p].sector IN Opened(p, inode_fill(inodes, s), s)
  /\ UNCHANGED <<disk, entry, free_map, lost, file_cur, image>> /\ UNCHANGED semaVars

-----------------------------------------------------------------------------
(* call_open, call_close *)

Open(p, n) ==
  /\ At(p, "user")
  /\ Find(p, n, "open", "user")
  /\ UNCHANGED fsVars /\ UNCHANGED lost /\ UNCHANGED procVars /\ UNCHANGED semaVars

Close(p, fd) ==
  /\ At(p, "user") /\ fd_table[p][fd] # None
  /\ SetFile(p, fd, None)
  /\ CloseInode(p, inodes, fd_table[p][fd].inode, "user")
  /\ UNCHANGED <<disk, entry, free_map, lost, fd_idx, file_cur, image>> /\ UNCHANGED semaVars

-----------------------------------------------------------------------------
(* call_remove, under syn_sema *)

Remove(p, n) ==
  /\ At(p, "user") /\ syn_sema = 1
  /\ syn_sema' = 0
  /\ Find(p, n, "remove", "remove_done")
  /\ UNCHANGED fsVars /\ UNCHANGED <<lost, abandoned>> /\ UNCHANGED procVars

RemoveErase(p) ==
  /\ At(p, "remove_erase")
  /\ LET s == call[p].sector IN
       \/ /\ entry' = [entry EXCEPT ![call[p].fd] = None]
          /\ CloseInode(p, inode_remove(inodes, s), s, "remove_done")
       \/ UNCHANGED entry /\ CloseInode(p, inodes, s, "remove_done")
  /\ UNCHANGED <<disk, free_map, lost>> /\ UNCHANGED procVars /\ UNCHANGED semaVars

(* Seeded fault: call_remove returns without sema_up. *)
RemoveDoneHeld(p) ==
  /\ At(p, "remove_done") /\ Return(p)
  /\ UNCHANGED fsVars /\ UNCHANGED lost /\ UNCHANGED procVars /\ UNCHANGED semaVars

RemoveDone(p) ==
  /\ At(p, "remove_done")
  /\ syn_sema' = 1 /\ Return(p)
  /\ UNCHANGED fsVars /\ UNCHANGED <<lost, abandoned>> /\ UNCHANGED procVars

-----------------------------------------------------------------------------
(* call_read, call_write, call_seek *)

BadFd(p, fd) == fd_table[p][fd] = None

(* Reading moves the position and changes nothing else.  A buffer that     *)
(* runs into an unmapped page ends the process with syn_sema down.         *)
Read(p, fd) ==
  /\ At(p, "user") /\ syn_sema = 1
  /\ \/ BadFd(p, fd) /\ call_exit(p) /\ UNCHANGED <<fd_table, syn_sema, abandoned>>
     \/ /\ ~BadFd(p, fd)
        /\ LET f == fd_table[p][fd] IN
             \E pos \in {f.pos} \cup f.pos .. inodes[f.inode].length : SetFile(p, fd, [f EXCEPT !.pos = pos])
        /\ Stay /\ UNCHANGED semaVars
     \/ /\ ~BadFd(p, fd)
        /\ call_exit(p) /\ syn_sema' = 0 /\ abandoned' = TRUE /\ UNCHANGED fd_table
  /\ UNCHANGED fsVars /\ UNCHANGED <<lost, fd_idx, file_cur, image>>

(* Writing is refused once, at its start. *)
WriteStart(p, fd) ==
  /\ At(p, "user") /\ syn_sema = 1
  /\ \/ BadFd(p, fd) /\ call_exit(p) /\ syn_sema' = 0 /\ abandoned' = TRUE
     \/ /\ ~BadFd(p, fd) /\ inodes[fd_table[p][fd].inode].deny_write_cnt = 0
        /\ syn_sema' = 0 /\ UNCHANGED abandoned
        /\ Go(p, "write_sector", [NoCall EXCEPT !.fd = fd, !.start = fd_table[p][fd].pos])
     \/ /\ ~BadFd(p, fd) /\ inodes[fd_table[p][fd].inode].deny_write_cnt > 0
        /\ Stay /\ UNCHANGED semaVars
  /\ UNCHANGED fsVars /\ UNCHANGED lost /\ UNCHANGED procVars

(* The next sector; call.start is the offset inode_write_at has reached. *)
WriteSector(p, v) ==
  /\ At(p, "write_sector")
  /\ LET i == inodes[fd_table[p][call[p].fd].inode] IN
       /\ call[p].start < i.length
       /\ disk' = [disk EXCEPT ![i.start + call[p].start] = Data(v)]
  /\ Go(p, "write_sector", [call[p] EXCEPT !.start = @ + 1])
  /\ UNCHANGED <<entry, free_map, inodes, lost>> /\ UNCHANGED procVars /\ UNCHANGED semaVars

(* All is written, the end of the file is reached or memory has run out. *)
WriteDone(p) ==
  /\ At(p, "write_sector")
  /\ fd_table' = [fd_table EXCEPT ![p][call[p].fd].pos = call[p].start]
  /\ syn_sema' = 1 /\ Return(p)
  /\ UNCHANGED fsVars /\ UNCHANGED <<lost, fd_idx, file_cur, image, abandoned>>

WriteFault(p) ==
  /\ At(p, "write_sector")
  /\ call_exit(p) /\ abandoned' = TRUE
  /\ UNCHANGED fsVars /\ UNCHANGED <<lost, syn_sema>> /\ UNCHANGED procVars

Seek(p, fd, pos) ==
  /\ At(p, "user") /\ fd_table[p][fd] # None
  /\ fd_table' = [fd_table EXCEPT ![p][fd].pos = pos]
  /\ Stay
  /\ UNCHANGED fsVars /\ UNCHANGED <<lost, fd_idx, file_cur, image>> /\ UNCHANGED semaVars

-----------------------------------------------------------------------------
(* Processes: exec, fork, exit, and the machine. *)

Lose(kind, s) ==
  /\ \A t \in Sector : lost[t].plain + lost[t].denying < MaxLost
  /\ lost' = [lost EXCEPT ![s][kind] = @ + 1]

Exec(p, n) ==
  /\ At(p, "user")
  /\ Find(p, n, "exec", "exit")
  /\ image' = [image EXCEPT ![p] = None]
  /\ UNCHANGED fsVars /\ UNCHANGED <<lost, fd_table, fd_idx, file_cur>> /\ UNCHANGED semaVars

(* load leaves the file open when it fails, and the old program's file     *)
(* open and denying when it succeeds.                                      *)
Load(p) ==
  /\ At(p, "load")
  /\ LET s == call[p].sector  old == file_cur[p] IN
       \/ /\ inodes' = inode_deny_write(inodes, s)
          /\ file_cur' = [file_cur EXCEPT ![p] = s]
          /\ image' = [image EXCEPT ![p] = s]
          /\ IF old = None THEN UNCHANGED lost ELSE Lose("denying", old)
          /\ Return(p)
       \/ /\ Lose("plain", s) /\ call_exit(p)
          /\ UNCHANGED <<inodes, file_cur, image>>
  /\ UNCHANGED <<disk, entry, free_map, fd_table, fd_idx>> /\ UNCHANGED semaVars

(* The child goes on from its parent's first free descriptor. *)
InheritIdx(p, c) == fd_idx' = [fd_idx EXCEPT ![c] = fd_idx[p]]

(* __do_fork: the child duplicates the descriptors, apart from those there *)
(* is no memory for; its file_cur stays NULL.                              *)
Fork(p, c) ==
  /\ At(p, "user") /\ At(c, "none")
  /\ \E fds \in SUBSET {fd \in Fd : fd_table[p][fd] # None} :
       /\ fd_table' = [fd_table EXCEPT ![c] = [fd \in Fd |-> IF fd \in fds THEN fd_table[p][fd] ELSE None]]
       /\ inodes' = [s \in Sector |->
            inode_reopen(inodes, s, Cardinality({fd \in fds : fd_table[p][fd].inode = s}))[s]]
  /\ InheritIdx(p, c)
  /\ image' = [image EXCEPT ![c] = image[p]]
  /\ Go(c, "user", NoCall)
  /\ UNCHANGED <<disk, entry, free_map, lost, file_cur>> /\ UNCHANGED semaVars

Exit(p) ==
  /\ At(p, "user") /\ call_exit(p)
  /\ UNCHANGED fsVars /\ UNCHANGED lost /\ UNCHANGED procVars /\ UNCHANGED semaVars

(* process_exit closes the program's file and then the descriptors. *)
ExitFile(p) ==
  /\ At(p, "exit")
  /\ LET open == {fd \in Fd : fd_table[p][fd] # None} IN
       \/ /\ file_cur[p] # None
          /\ CloseInode(p, inode_allow_write(inodes, file_cur[p]), file_cur[p], "exit")
          /\ file_cur' = [file_cur EXCEPT ![p] = None] /\ UNCHANGED fd_table
       \/ /\ file_cur[p] = None /\ open # {}
          /\ CloseInode(p, inodes, fd_table[p][Min(open)].inode, "exit")
          /\ SetFile(p, Min(open), None) /\ UNCHANGED file_cur
  /\ UNCHANGED <<disk, entry, free_map, lost, fd_idx, image>> /\ UNCHANGED semaVars

ExitDone(p) ==
  /\ At(p, "exit") /\ file_cur[p] = None /\ \A fd \in Fd : fd_table[p][fd] = None
  /\ Go(p, "none", NoCall)
  /\ fd_idx' = [fd_idx EXCEPT ![p] = 2]
  /\ image' = [image EXCEPT ![p] = None]
  /\ UNCHANGED fsVars /\ UNCHANGED <<lost, fd_table, file_cur>> /\ UNCHANGED semaVars

(* call_halt, or the plug is pulled, at any time: the disk stays. *)
Idle == /\ \A p \in Process : At(p, "none")
        /\ \A s \in Sector : inodes[s] = None
        /\ ~abandoned
PowerOff ==
  /\ ~Idle
  /\ inodes' = [s \in Sector |-> None]
  /\ pc' = [p \in Process |-> "none"]
  /\ call' = [p \in Process |-> NoCall]
  /\ fd_table' = [p \in Process |-> [fd \in Fd |-> None]]
  /\ fd_idx' = [p \in Process |-> 2]
  /\ file_cur' = [p \in Process |-> None]
  /\ image' = [p \in Process |-> None]
  /\ lost' = [s \in Sector |-> [plain |-> 0, denying |-> 0]]
  /\ syn_sema' = 1 /\ abandoned' = FALSE
  /\ UNCHANGED <<disk, entry, free_map>>

(* initd loads its program on a machine that has just been started.        *)
Boot(p, n) ==
  /\ Idle
  /\ Find(p, n, "exec", "none")
  /\ UNCHANGED fsVars /\ UNCHANGED lost /\ UNCHANGED procVars /\ UNCHANGED semaVars

ProcessStep(p) ==
  \/ \E n \in Name, len \in Length : Create(p, n, len)
  \/ CreateData(p) \/ CreateInode(p) \/ CreateLookup(p) \/ CreateSlot(p)
  \/ CreateAdd(p) \/ CreateUndo(p)
  \/ \E n \in Name : Open(p, n) \/ Remove(p, n) \/ Exec(p, n) \/ Boot(p, n)
  \/ OpenInode(p) \/ FillInode(p) \/ RemoveErase(p) \/ RemoveDone(p) \/ Load(p)
  \/ \E fd \in Fd :
       Close(p, fd) \/ Read(p, fd) \/ WriteStart(p, fd) \/ \E pos \in Pos : Seek(p, fd, pos)
  \/ \E v \in Value : WriteSector(p, v)
  \/ WriteDone(p) \/ WriteFault(p)
  \/ \E c \in Process : Fork(p, c)
  \/ Exit(p) \/ ExitFile(p) \/ ExitDone(p)
  \/ ReleaseInode(p) \/ ReleaseData(p)

Next == (\E p \in Process : ProcessStep(p)) \/ PowerOff
Spec == Init /\ [][Next]_vars

(* The directory has no lock.  The same system when one process at a time  *)
(* is between what it has read in the directory and what it does with it.  *)
Window == {"create_slot", "create_add", "open_inode", "fill_inode", "remove_erase"}
InWindow == {p \in Process : pc[p] \in Window}
OrderlyNext == Next /\ Cardinality(InWindow') <= 1
OrderlySpec == Init /\ [][OrderlyNext]_vars
-----------------------------------------------------------------------------
CallType == [name : Name \cup {None}, sector : {0} \cup Sector, start : 0 .. LastSector + MaxPos,
             length : 0 .. LastSector, fd : {0} \cup Fd \cup Slot, next : {"user", "exit", "open", "exec", "remove", "remove_done"}]

FilesTypeOK ==
  /\ FsTypeOK
  /\ pc \in [Process -> Labels]
  /\ call \in [Process -> CallType]
  /\ fd_table \in [Process -> [Fd -> {None} \cup FileType]]
  /\ fd_idx \in [Process -> 2 .. LastFd + 1]
  /\ file_cur \in [Process -> {None} \cup Sector]
  /\ image \in [Process -> {None} \cup Sector]
  /\ lost \in [Sector -> [plain : 0 .. MaxLost, denying : 0 .. MaxLost]]
  /\ syn_sema \in {0, 1} /\ abandoned \in BOOLEAN

(* Who holds which sectors: <<owner, sectors>> for every inode in the      *)
(* directory or open, every create that is under way and every release.    *)
Unread(s) == \E p \in Process : At(p, "fill_inode") /\ call[p].sector = s
InodeOf(s) == IF inodes[s] = None \/ Unread(s) THEN OnDisk(s) ELSE inodes[s]
Creating == {"create_data", "create_undo"}
Created == {"create_inode", "create_lookup", "create_slot", "create_add"}
Holdings ==
  {<<s, {s} \cup DataSectors(InodeOf(s))>> : s \in Linked \cup {t \in Sector : inodes[t] # None}}
  \cup {<<p, {call[p].sector}>> : p \in {q \in Process : pc[q] \in Creating}}
  \cup {<<p, {call[p].sector} \cup DataSectors(call[p])>> :
          p \in {q \in Process : pc[q] \in Created \cup {"release_inode"}}}
  \cup {<<p, DataSectors(call[p])>> : p \in {q \in Process : At(q, "release_data")}}
Held == UNION {h[2] : h \in Holdings}

(* Every sector in use has one user and is marked in the free map, and     *)
(* what a name leads to is an inode, in whatever step the machine stops:   *)
(* the order of allocation, dir_add and erasure, and deferred removal.     *)
SectorsOwnedOnce ==
  /\ Held \subseteq free_map
  /\ \A g, h \in Holdings : g # h => g[2] \cap h[2] = {}
  /\ \A s \in Linked : "length" \in DOMAIN disk[s]

(* The counts of an open inode are those of the files on it: what the      *)
(* assertions of inode_deny_write and inode_allow_write rely on, and what  *)
(* decides when a removed inode's sectors go.                              *)
FilesOn(s) == {x \in Process \X Fd : fd_table[x[1]][x[2]] # None /\ fd_table[x[1]][x[2]].inode = s}
CallsOn(s) == {p \in Process : pc[p] \in {"fill_inode", "load", "remove_erase"} /\ call[p].sector = s}
RunningOn(s) == {p \in Process : file_cur[p] = s}
Openers(s) == Cardinality(FilesOn(s)) + Cardinality(CallsOn(s)) + lost[s].plain
Deniers(s) == Cardinality(RunningOn(s)) + lost[s].denying
CountsMatch ==
  \A s \in Sector :
    IF inodes[s] = None THEN Openers(s) + Deniers(s) = 0
    ELSE /\ inodes[s].open_cnt = Openers(s) + Deniers(s)
         /\ inodes[s].deny_write_cnt = Deniers(s)

(* syn_sema is up, or one call holds it, or a process that has ended does: *)
(* sema_up on every path of call_read, call_write and call_remove.         *)
Holders == {p \in Process :
              \/ pc[p] \in {"remove_erase", "remove_done", "write_sector"}
              \/ pc[p] \in {"open_inode", "fill_inode"} /\ call[p].next = "remove"
              \/ pc[p] \in {"release_inode", "release_data"} /\ call[p].next = "remove_done"}
SynSemaKept ==
  /\ \A p, q \in Holders : p = q
  /\ (syn_sema = 0) = (Holders # {} \/ abandoned)
  /\ abandoned => Holders = {}

(* Nothing is open above fd_idx, also in a child: a new descriptor is above *)
(* all others of the process, so call_close never frees one for reuse but  *)
(* the last, and opening fails only when fd_idx has come to the end.       *)
NothingAboveIdx == \A p \in Process, fd \in Fd : fd > fd_idx[p] => fd_table[p][fd] = None

(* Sectors get lost - marked in the free map, and nobody's - only when the *)
(* machine stops or a create fails after inode_create.                     *)
Leaked == free_map \ Held
LeaksOnlyByUndo ==
  [][\/ Leaked' \subseteq Leaked
     \/ Idle'
     \/ \E p \in Process : pc[p] \in {"create_lookup", "create_slot", "create_add"} /\ At(p, "create_undo")']_vars

(* The calls do what the abstract store does: an object lives while it has *)
(* a name, a descriptor or a running program, keeps its contents, and      *)
(* survives with its name when the machine stops.  Descriptor 0 stands for *)
(* the file load has open.                                                 *)
Obj(n) == IF lookup(n) = {} THEN None ELSE entry[Min(lookup(n))][2]
Handles == [p \in Process |-> [fd \in Fd \cup {0} |->
              IF fd = 0 THEN IF At(p, "load") THEN <<call[p].sector, 0>> ELSE None
              ELSE IF fd_table[p][fd] = None THEN None
              ELSE <<fd_table[p][fd].inode, fd_table[p][fd].pos>>]]
Referenced(s) ==
  \/ s \in Linked
  \/ \E p \in Process : file_cur[p] = s
  \/ \E p \in Process, fd \in Fd \cup {0} : Handles[p][fd] # None /\ Handles[p][fd][1] = s
Contents(s) ==
  IF Referenced(s) THEN [i \in 1 .. InodeOf(s).length |-> disk[InodeOf(s).start + i - 1]] ELSE None
Names == [n \in Name |-> Obj(n)]
Objects == [s \in Sector |-> Contents(s)]
S == INSTANCE Store WITH
       Object <- Sector, Proc <- Process, Fd <- Fd \cup {0}, Zero <- Data(0), Offset <- 0 .. LastSector + MaxPos,
       dir <- Names, data <- Objects, handle <- Handles, exe <- file_cur
ImplementsStore == S!Spec

(* The executable of a running process cannot be modified                  *)
(* (tests/userprog/rox-child.c).                                           *)
ExecutableProtected ==
  [][\A p \in Process :
       At(p, "user") /\ image[p] # None /\ inodes[image[p]] # None =>
         \A d \in DataSectors(inodes[image[p]]) : disk'[d] = disk[d]]_vars

(* No two entries have one name (filesys_create: "Fails if a file named    *)
(* NAME already exists").                                                  *)
UniqueNames == \A n \in Name : Cardinality(lookup(n)) <= 1
=============================================================================
