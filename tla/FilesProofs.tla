----------------------------- MODULE FilesProofs ------------------------------
(***************************************************************************)
(* Proofs about the system calls on files and about the open inodes, for   *)
(* every number of processes, descriptors, names and sectors.  First, with *)
(* no restriction on who uses the directory when: syn_sema is up, or one   *)
(* call holds it, or a process that has ended does; and nothing is open    *)
(* above fd_idx.  Then the type invariant, and that the counts of an inode *)
(* are those of the files that are open on it.                             *)
(***************************************************************************)
EXTENDS Files, TLAPS, FiniteSetTheorems, WellFoundedInduction

(* A call that releases sectors knows where it goes on. *)
Resumes(l, next) ==
  l \in {"release_inode", "release_data"} => next \in {"user", "exit", "remove_done"}

(* What each step leaves of pc and call outside the process that moves. *)
ControlOK ==
  /\ pc \in [Process -> Labels]
  /\ call = [p \in Process |-> call[p]]
  /\ \A p \in Process : Resumes(pc[p], call[p].next)

-----------------------------------------------------------------------------
(* syn_sema. *)

HoldsAt(l, next) ==
  \/ l \in {"remove_erase", "remove_done", "write_sector"}
  \/ l \in {"open_inode", "fill_inode"} /\ next = "remove"
  \/ l \in {"release_inode", "release_data"} /\ next = "remove_done"

Holds(p) == HoldsAt(pc[p], call[p].next)

(* SynSemaKept process by process, and the types it needs. *)
SemaInv ==
  /\ ControlOK
  /\ syn_sema \in {0, 1} /\ abandoned \in {TRUE, FALSE}
  /\ \A p, q \in Process : Holds(p) /\ Holds(q) => p = q
  /\ \A p \in Process : Holds(p) => syn_sema = 0 /\ abandoned = FALSE
  /\ abandoned = TRUE => syn_sema = 0
  /\ syn_sema = 0 /\ abandoned = FALSE => \E p \in Process : Holds(p)

LEMMA SemaInvKept == SemaInv => SynSemaKept
<1> SUFFICES ASSUME SemaInv PROVE SynSemaKept
  OBVIOUS
<1>1. \A p : p \in Holders <=> p \in Process /\ Holds(p)
  BY DEF Holders, Holds, HoldsAt
<1>2. \A p, q \in Holders : p = q
  BY <1>1 DEF SemaInv
<1>3. (syn_sema = 0) <=> (Holders # {} \/ abandoned = TRUE)
  BY <1>1 DEF SemaInv
<1>4. abandoned = TRUE => Holders = {}
  BY <1>1 DEF SemaInv
<1>5. abandoned = TRUE \/ abandoned = FALSE
  BY DEF SemaInv
<1> QED BY <1>2, <1>3, <1>4, <1>5 DEF SynSemaKept

LEMMA SemaInit == Init => SemaInv
<1> SUFFICES ASSUME Init PROVE SemaInv
  OBVIOUS
<1>1. ControlOK
  BY DEF Init, ControlOK, Labels, Resumes
<1>2. \A p \in Process : ~Holds(p)
  BY DEF Init, Holds, HoldsAt
<1>3. syn_sema = 1 /\ abandoned = FALSE
  BY DEF Init
<1>4. 1 # 0
  OBVIOUS
<1> QED BY <1>1, <1>2, <1>3, <1>4, Zenon DEF SemaInv

(* One process moves, and syn_sema moves with it. *)
SemaMoves(p, l, next) ==
  /\ Resumes(l, next)
  /\ \/ UNCHANGED semaVars /\ (HoldsAt(l, next) <=> Holds(p))
     \/ syn_sema = 1 /\ syn_sema' = 0 /\ UNCHANGED abandoned /\ HoldsAt(l, next)
     \/ Holds(p) /\ syn_sema' = 1 /\ UNCHANGED abandoned /\ ~HoldsAt(l, next)
     \/ (Holds(p) \/ syn_sema = 1) /\ syn_sema' = 0 /\ abandoned' = TRUE /\ ~HoldsAt(l, next)

LEMMA SemaMove ==
  ASSUME SemaInv, NEW p \in Process, NEW l \in Labels, NEW c, Go(p, l, c), SemaMoves(p, l, c.next)
  PROVE  SemaInv'
<1>0. 1 # 0
  OBVIOUS
<1>1. ControlOK'
  <2>1. pc' \in [Process -> Labels] /\ call' = [q \in Process |-> call'[q]]
    BY DEF SemaInv, ControlOK, Go
  <2>2. \A q \in Process : Resumes(pc[q], call[q].next)'
    BY DEF SemaInv, ControlOK, Go, SemaMoves
  <2> QED BY <2>1, <2>2 DEF ControlOK
<1>2. Holds(p)' <=> HoldsAt(l, c.next)
  BY DEF SemaInv, ControlOK, Go, Holds
<1>3. \A q \in Process : q # p => (Holds(q)' <=> Holds(q))
  BY DEF SemaInv, ControlOK, Go, Holds
<1>4. CASE UNCHANGED semaVars /\ (HoldsAt(l, c.next) <=> Holds(p))
  BY <1>1, <1>2, <1>3, <1>4 DEF SemaInv, semaVars
<1>5. CASE syn_sema = 1 /\ syn_sema' = 0 /\ UNCHANGED abandoned /\ HoldsAt(l, c.next)
  BY <1>0, <1>1, <1>2, <1>3, <1>5, Zenon DEF SemaInv
<1>6. CASE Holds(p) /\ syn_sema' = 1 /\ UNCHANGED abandoned /\ ~HoldsAt(l, c.next)
  BY <1>0, <1>1, <1>2, <1>3, <1>6, Zenon DEF SemaInv
<1>7. CASE (Holds(p) \/ syn_sema = 1) /\ syn_sema' = 0 /\ abandoned' = TRUE /\ ~HoldsAt(l, c.next)
  BY <1>1, <1>2, <1>3, <1>7 DEF SemaInv
<1> QED BY <1>4, <1>5, <1>6, <1>7 DEF SemaMoves, Resumes

LEMMA SemaStay ==
  ASSUME SemaInv, Stay, UNCHANGED semaVars PROVE SemaInv'
BY DEF SemaInv, ControlOK, Stay, semaVars, Holds

(* Where inode_close goes on, it holds syn_sema if the call does. *)
LEMMA SemaClose ==
  ASSUME SemaInv, NEW p \in Process, NEW t, NEW s, NEW next \in {"user", "exit", "remove_done"},
         CloseInode(p, t, s, next), UNCHANGED semaVars, Holds(p) <=> (next = "remove_done")
  PROVE  SemaInv'
<1> DEFINE c == [NoCall EXCEPT !.sector = s, !.start = t[s].start,
                               !.length = t[s].length, !.next = next]
<1>1. CASE Go(p, "release_inode", c)
  <2>1. c.next = next
    BY DEF NoCall
  <2>2. SemaMoves(p, "release_inode", c.next)
    BY <2>1 DEF SemaMoves, Resumes, HoldsAt
  <2> HIDE DEF c
  <2>3. "release_inode" \in Labels
    BY DEF Labels
  <2> QED BY <1>1, <2>2, <2>3, SemaMove
<1>2. CASE Go(p, next, NoCall)
  <2>1. SemaMoves(p, next, NoCall.next)
    BY DEF SemaMoves, Resumes, HoldsAt, NoCall
  <2>2. next \in Labels
    BY DEF Labels
  <2> QED BY <1>2, <2>1, <2>2, SemaMove
<1> QED BY <1>1, <1>2 DEF CloseInode

(* Labels of a call that does not hold syn_sema. *)
FreeLabels == {"none", "user", "create_data", "create_inode", "create_lookup", "create_slot",
               "create_add", "create_undo", "load", "exit"}

LEMMA SemaFree ==
  ASSUME SemaInv, NEW p \in Process, NEW l, NEW c, Go(p, l, c), UNCHANGED semaVars,
         pc[p] \in FreeLabels, l \in FreeLabels
  PROVE  SemaInv'
<1>1. SemaMoves(p, l, c.next)
  BY DEF SemaMoves, Resumes, Holds, HoldsAt, FreeLabels
<1>2. l \in Labels
  BY DEF FreeLabels, Labels
<1> QED BY <1>1, <1>2, SemaMove

LEMMA SemaFind ==
  ASSUME SemaInv, NEW p \in Process, NEW n, NEW next \in {"open", "exec"}, NEW otherwise \in FreeLabels,
         Find(p, n, next, otherwise), UNCHANGED semaVars, pc[p] \in FreeLabels
  PROVE  SemaInv'
<1> DEFINE c == [NoCall EXCEPT !.sector = entry[Min(lookup(n))][2],
                               !.fd = Min(lookup(n)), !.next = next]
<1>1. CASE Go(p, otherwise, NoCall)
  BY <1>1, SemaFree
<1>2. CASE Go(p, "open_inode", c)
  <2>1. c.next = next
    BY DEF NoCall
  <2> HIDE DEF c
  <2>2. SemaMoves(p, "open_inode", c.next)
    BY <2>1 DEF SemaMoves, Resumes, Holds, HoldsAt, FreeLabels
  <2>3. "open_inode" \in Labels
    BY DEF Labels
  <2> QED BY <1>2, <2>2, <2>3, SemaMove
<1> QED BY <1>1, <1>2 DEF Find

(* The call has its inode: only call_remove has syn_sema. *)
LEMMA SemaOpened ==
  ASSUME SemaInv, NEW p \in Process, NEW t, NEW s, pc[p] \in {"open_inode", "fill_inode"},
         Opened(p, t, s), UNCHANGED semaVars
  PROVE  SemaInv'
<1>1. Holds(p) <=> call[p].next = "remove"
  BY DEF Holds, HoldsAt
<1>2. "load" \in Labels /\ "user" \in Labels /\ "remove_erase" \in Labels
  BY DEF Labels
<1>3. CASE call[p].next = "open" /\ OpenFile(p, t, s)
  <2>1. CASE CloseInode(p, t, s, "user")
    BY <1>1, <1>3, <2>1, SemaClose
  <2>2. CASE Go(p, "user", NoCall)
    <3>1. SemaMoves(p, "user", NoCall.next)
      BY <1>1, <1>3 DEF SemaMoves, Resumes, HoldsAt
    <3> QED BY <1>2, <2>2, <3>1, SemaMove
  <2> QED BY <1>3, <2>1, <2>2 DEF OpenFile, Return
<1>4. CASE call[p].next = "exec" /\ Go(p, "load", call[p])
  <2>1. SemaMoves(p, "load", call[p].next)
    BY <1>1, <1>4 DEF SemaMoves, Resumes, HoldsAt
  <2> QED BY <1>2, <1>4, <2>1, SemaMove
<1>5. CASE call[p].next = "exec" /\ CloseInode(p, t, s, "exit")
  BY <1>1, <1>5, SemaClose
<1>6. CASE call[p].next = "remove" /\ Go(p, "remove_erase", call[p])
  <2>1. SemaMoves(p, "remove_erase", call[p].next)
    BY <1>1, <1>6 DEF SemaMoves, Resumes, HoldsAt
  <2> QED BY <1>2, <1>6, <2>1, SemaMove
<1> QED BY <1>3, <1>4, <1>5, <1>6 DEF Opened

LEMMA SemaCreate ==
  ASSUME SemaInv, NEW p \in Process,
         \/ \E n \in Name, len \in Length : Create(p, n, len)
         \/ CreateData(p) \/ CreateInode(p) \/ CreateLookup(p) \/ CreateSlot(p)
         \/ CreateAdd(p) \/ CreateUndo(p)
  PROVE  SemaInv'
<1>1. CASE \E n \in Name, len \in Length : Create(p, n, len)
  <2>1. PICK n \in Name, len \in Length : Create(p, n, len)
    BY <1>1
  <2>2. CASE Stay
    BY <2>1, <2>2, SemaStay DEF Create
  <2>3. CASE ~Stay
    BY <2>1, <2>3, SemaFree DEF Create, At, FreeLabels
  <2> QED BY <2>2, <2>3
<1>2. CASE CreateData(p)
  BY <1>2, SemaFree DEF CreateData, At, FreeLabels
<1>3. CASE CreateInode(p)
  BY <1>3, SemaFree DEF CreateInode, At, FreeLabels
<1>4. CASE CreateLookup(p)
  BY <1>4, SemaFree DEF CreateLookup, At, FreeLabels
<1>5. CASE CreateSlot(p)
  BY <1>5, SemaFree DEF CreateSlot, At, FreeLabels
<1>6. CASE CreateAdd(p)
  BY <1>6, SemaFree DEF CreateAdd, At, FreeLabels, Return
<1>7. CASE CreateUndo(p)
  BY <1>7, SemaFree DEF CreateUndo, At, FreeLabels, Return
<1> QED BY <1>1, <1>2, <1>3, <1>4, <1>5, <1>6, <1>7

LEMMA SemaOpen ==
  ASSUME SemaInv, NEW p \in Process,
         \/ \E n \in Name : Open(p, n) \/ Exec(p, n) \/ Boot(p, n)
         \/ OpenInode(p) \/ FillInode(p) \/ Load(p)
         \/ \E fd \in Fd : Close(p, fd)
  PROVE  SemaInv'
<1>1. CASE \E n \in Name : Open(p, n) \/ Exec(p, n) \/ Boot(p, n)
  <2>1. PICK n \in Name : Open(p, n) \/ Exec(p, n) \/ Boot(p, n)
    BY <1>1
  <2>2. pc[p] \in FreeLabels
    BY <2>1 DEF Open, Exec, Boot, Idle, At, FreeLabels
  <2>3. "user" \in FreeLabels /\ "exit" \in FreeLabels /\ "none" \in FreeLabels
    BY DEF FreeLabels
  <2> QED BY <2>1, <2>2, <2>3, SemaFind DEF Open, Exec, Boot
<1>2. CASE OpenInode(p)
  <2> DEFINE s == call[p].sector
  <2>1. CASE Opened(p, inode_reopen(inodes, s, 1), s)
    BY <1>2, <2>1, SemaOpened DEF OpenInode, At
  <2>2. CASE Go(p, "fill_inode", call[p])
    <3>1. SemaMoves(p, "fill_inode", call[p].next)
      BY <1>2 DEF OpenInode, At, SemaMoves, Resumes, Holds, HoldsAt
    <3> QED BY <2>2, <3>1, SemaMove DEF Labels
  <2>3. CASE Go(p, Without(call[p].next), NoCall)
    <3>1. SemaMoves(p, Without(call[p].next), NoCall.next)
      BY <1>2, <2>3 DEF OpenInode, At, SemaMoves, Resumes, Holds, HoldsAt, Without, NoCall
    <3>2. Without(call[p].next) \in Labels
      BY <2>3 DEF Without, Labels
    <3> QED BY <2>3, <3>1, <3>2, SemaMove
  <2> QED BY <1>2, <2>1, <2>2, <2>3 DEF OpenInode
<1>3. CASE FillInode(p)
  BY <1>3, SemaOpened DEF FillInode, At
<1>4. CASE Load(p)
  BY <1>4, SemaFree DEF Load, At, FreeLabels, Return, call_exit
<1>5. CASE \E fd \in Fd : Close(p, fd)
  <2>1. PICK fd \in Fd : Close(p, fd)
    BY <1>5
  <2>2. ~Holds(p)
    BY <2>1 DEF Close, At, Holds, HoldsAt
  <2> QED BY <2>1, <2>2, SemaClose DEF Close
<1> QED BY <1>1, <1>2, <1>3, <1>4, <1>5

(* The calls that use syn_sema. *)
LEMMA SemaUse ==
  ASSUME SemaInv, NEW p \in Process,
         \/ \E n \in Name : Remove(p, n)
         \/ RemoveErase(p) \/ RemoveDone(p)
         \/ \E fd \in Fd : Read(p, fd) \/ WriteStart(p, fd)
         \/ \E v \in Value : WriteSector(p, v)
         \/ WriteDone(p) \/ WriteFault(p)
  PROVE  SemaInv'
<1> USE DEF At, HoldsAt
<1>1. CASE \E n \in Name : Remove(p, n)
  <2>1. PICK n \in Name : Remove(p, n)
    BY <1>1
  <2> DEFINE c == [NoCall EXCEPT !.sector = entry[Min(lookup(n))][2],
                                 !.fd = Min(lookup(n)), !.next = "remove"]
  <2>2. c.next = "remove"
    BY DEF NoCall
  <2> HIDE DEF c
  <2>3. syn_sema = 1 /\ syn_sema' = 0 /\ UNCHANGED abandoned
    BY <2>1 DEF Remove
  <2>4. CASE Go(p, "open_inode", c)
    <3>1. SemaMoves(p, "open_inode", c.next)
      BY <2>2, <2>3 DEF SemaMoves, Resumes
    <3> QED BY <2>4, <3>1, SemaMove DEF Labels
  <2>5. CASE Go(p, "remove_done", NoCall)
    <3>1. SemaMoves(p, "remove_done", NoCall.next)
      BY <2>3 DEF SemaMoves, Resumes
    <3> QED BY <2>5, <3>1, SemaMove DEF Labels
  <2> QED BY <2>1, <2>4, <2>5 DEF Remove, Find, c
<1>2. CASE RemoveErase(p)
  <2>1. Holds(p)
    BY <1>2 DEF RemoveErase, Holds
  <2> QED BY <1>2, <2>1, SemaClose DEF RemoveErase
<1>3. CASE RemoveDone(p)
  <2>1. SemaMoves(p, "user", NoCall.next)
    BY <1>3 DEF RemoveDone, SemaMoves, Resumes, Holds
  <2> QED BY <1>3, <2>1, SemaMove DEF RemoveDone, Return, Labels
<1>4. CASE \E fd \in Fd : Read(p, fd)
  <2>1. PICK fd \in Fd : Read(p, fd)
    BY <1>4
  <2>2. CASE call_exit(p) /\ UNCHANGED semaVars
    BY <2>1, <2>2, SemaFree DEF Read, call_exit, FreeLabels
  <2>3. CASE Stay /\ UNCHANGED semaVars
    BY <2>3, SemaStay
  <2>4. CASE call_exit(p) /\ syn_sema' = 0 /\ abandoned' = TRUE
    <3>1. SemaMoves(p, "exit", NoCall.next)
      BY <2>1, <2>4 DEF Read, SemaMoves, Resumes
    <3> QED BY <2>4, <3>1, SemaMove DEF call_exit, Labels
  <2> QED BY <2>1, <2>2, <2>3, <2>4 DEF Read, semaVars
<1>5. CASE \E fd \in Fd : WriteStart(p, fd)
  <2>1. PICK fd \in Fd : WriteStart(p, fd)
    BY <1>5
  <2> DEFINE c == [NoCall EXCEPT !.fd = fd, !.start = fd_table[p][fd].pos]
  <2>2. CASE call_exit(p) /\ syn_sema' = 0 /\ abandoned' = TRUE
    <3>1. SemaMoves(p, "exit", NoCall.next)
      BY <2>1, <2>2 DEF WriteStart, SemaMoves, Resumes
    <3> QED BY <2>2, <3>1, SemaMove DEF call_exit, Labels
  <2>3. CASE syn_sema' = 0 /\ UNCHANGED abandoned /\ Go(p, "write_sector", c)
    <3> HIDE DEF c
    <3>1. SemaMoves(p, "write_sector", c.next)
      BY <2>1, <2>3 DEF WriteStart, SemaMoves, Resumes
    <3> QED BY <2>3, <3>1, SemaMove DEF Labels
  <2>4. CASE Stay /\ UNCHANGED semaVars
    BY <2>4, SemaStay
  <2> QED BY <2>1, <2>2, <2>3, <2>4 DEF WriteStart
<1>6. CASE \E v \in Value : WriteSector(p, v)
  <2> DEFINE c == [call[p] EXCEPT !.start = @ + 1]
  <2>1. At(p, "write_sector") /\ Go(p, "write_sector", c) /\ UNCHANGED semaVars
    BY <1>6 DEF WriteSector
  <2> HIDE DEF c
  <2>2. SemaMoves(p, "write_sector", c.next)
    BY <2>1 DEF SemaMoves, Resumes, Holds
  <2> QED BY <2>1, <2>2, SemaMove DEF Labels
<1>7. CASE WriteDone(p)
  <2>1. SemaMoves(p, "user", NoCall.next)
    BY <1>7 DEF WriteDone, SemaMoves, Resumes, Holds
  <2> QED BY <1>7, <2>1, SemaMove DEF WriteDone, Return, Labels
<1>8. CASE WriteFault(p)
  <2>1. SemaMoves(p, "exit", NoCall.next)
    BY <1>8 DEF WriteFault, SemaMoves, Resumes, Holds, SemaInv
  <2> QED BY <1>8, <2>1, SemaMove DEF WriteFault, call_exit, Labels
<1> QED BY <1>1, <1>2, <1>3, <1>4, <1>5, <1>6, <1>7, <1>8

LEMMA SemaProcess ==
  ASSUME SemaInv, NEW p \in Process,
         \/ \E c \in Process : Fork(p, c)
         \/ Exit(p) \/ ExitFile(p) \/ ExitDone(p)
         \/ ReleaseInode(p) \/ ReleaseData(p)
  PROVE  SemaInv'
<1> USE DEF At
<1>1. CASE \E c \in Process : Fork(p, c)
  BY <1>1, SemaFree DEF Fork, FreeLabels
<1>2. CASE Exit(p)
  BY <1>2, SemaFree DEF Exit, call_exit, FreeLabels
<1>3. CASE ExitFile(p)
  <2>1. ~Holds(p)
    BY <1>3 DEF ExitFile, Holds, HoldsAt
  <2> QED BY <1>3, <2>1, SemaClose DEF ExitFile
<1>4. CASE ExitDone(p)
  BY <1>4, SemaFree DEF ExitDone, FreeLabels
<1>5. CASE ReleaseInode(p)
  <2>1. call[p].next \in {"user", "exit", "remove_done"}
    BY <1>5 DEF ReleaseInode, SemaInv, ControlOK, Resumes
  <2>2. SemaMoves(p, "release_data", call[p].next)
    BY <1>5, <2>1 DEF ReleaseInode, SemaMoves, Resumes, Holds, HoldsAt
  <2> QED BY <1>5, <2>2, SemaMove DEF ReleaseInode, Labels
<1>6. CASE ReleaseData(p)
  <2>1. call[p].next \in {"user", "exit", "remove_done"}
    BY <1>6 DEF ReleaseData, SemaInv, ControlOK, Resumes
  <2>2. SemaMoves(p, call[p].next, NoCall.next)
    BY <1>6, <2>1 DEF ReleaseData, SemaMoves, Resumes, Holds, HoldsAt
  <2> QED BY <1>6, <2>1, <2>2, SemaMove DEF ReleaseData, Labels
<1> QED BY <1>1, <1>2, <1>3, <1>4, <1>5, <1>6

LEMMA SemaStep == SemaInv /\ [Next]_vars => SemaInv'
<1> SUFFICES ASSUME SemaInv, [Next]_vars PROVE SemaInv'
  OBVIOUS
<1>1. CASE \E p \in Process : ProcessStep(p)
  <2>1. PICK p \in Process : ProcessStep(p)
    BY <1>1
  <2>2. CASE \E fd \in Fd, pos \in Pos : Seek(p, fd, pos)
    BY <2>2, SemaStay DEF Seek
  <2>3. CASE ~ \E fd \in Fd, pos \in Pos : Seek(p, fd, pos)
    <3>1. \/ \/ \E n \in Name, len \in Length : Create(p, n, len)
             \/ CreateData(p) \/ CreateInode(p) \/ CreateLookup(p) \/ CreateSlot(p)
             \/ CreateAdd(p) \/ CreateUndo(p)
          \/ \/ \E n \in Name : Open(p, n) \/ Exec(p, n) \/ Boot(p, n)
             \/ OpenInode(p) \/ FillInode(p) \/ Load(p)
             \/ \E fd \in Fd : Close(p, fd)
          \/ \/ \E n \in Name : Remove(p, n)
             \/ RemoveErase(p) \/ RemoveDone(p)
             \/ \E fd \in Fd : Read(p, fd) \/ WriteStart(p, fd)
             \/ \E v \in Value : WriteSector(p, v)
             \/ WriteDone(p) \/ WriteFault(p)
          \/ \/ \E c \in Process : Fork(p, c)
             \/ Exit(p) \/ ExitFile(p) \/ ExitDone(p)
             \/ ReleaseInode(p) \/ ReleaseData(p)
      BY <2>1, <2>3, Zenon DEF ProcessStep
    <3> QED BY <3>1, SemaCreate, SemaOpen, SemaUse, SemaProcess
  <2> QED BY <2>2, <2>3
<1>2. CASE PowerOff
  <2>1. ControlOK'
    BY <1>2 DEF PowerOff, ControlOK, Labels, Resumes
  <2>2. \A p \in Process : ~Holds(p)'
    BY <1>2 DEF PowerOff, Holds, HoldsAt
  <2>3. syn_sema' = 1 /\ abandoned' = FALSE /\ 1 # 0
    BY <1>2 DEF PowerOff
  <2> QED BY <2>1, <2>2, <2>3, Zenon DEF SemaInv
<1>3. CASE UNCHANGED vars
  BY <1>3, SemaStay DEF vars, Stay, semaVars
<1> QED BY <1>1, <1>2, <1>3 DEF Next

(* syn_sema of userprog/syscall.c is never down without a call that will   *)
(* up it, except when a process has ended inside a call; and never two     *)
(* calls are between its sema_down and sema_up.                            *)
THEOREM SynSemaGuards == Spec => []SynSemaKept
<1> QED BY SemaInit, SemaStep, SemaInvKept, PTL DEF Spec

-----------------------------------------------------------------------------
(* The descriptor tables. *)

(* A writing process has the file it writes to in its table. *)
Writes(p) ==
  /\ "fd" \in DOMAIN call[p]
  /\ call[p].fd \in Fd
  /\ fd_table[p][call[p].fd] # None

IdxInv ==
  /\ fd_table = [p \in Process |-> [fd \in Fd |-> fd_table[p][fd]]]
  /\ fd_idx \in [Process -> Int]
  /\ \A p \in Process : pc[p] = "write_sector" => Writes(p)
  /\ NothingAboveIdx

LEMMA IdxInit == Init => IdxInv
BY DEF Init, IdxInv, NothingAboveIdx

(* In a step of p nothing changes at the others. *)
OthersStay(p) == \A q \in Process : q # p => pc'[q] = pc[q] /\ call'[q] = call[q]

LEMMA GoAlone ==
  ASSUME ControlOK, NEW p \in Process, NEW l, NEW c, Go(p, l, c)
  PROVE  OthersStay(p) /\ pc'[p] = l /\ call'[p] = c
BY DEF ControlOK, Go, OthersStay

LEMMA StayAlone ==
  ASSUME NEW p \in Process, Stay PROVE OthersStay(p) /\ pc'[p] = pc[p] /\ call'[p] = call[p]
BY DEF Stay, OthersStay

LEMMA CloseAlone ==
  ASSUME ControlOK, NEW p \in Process, NEW t, NEW s, NEW next \in {"user", "exit", "remove_done"},
         CloseInode(p, t, s, next)
  PROVE  OthersStay(p) /\ pc'[p] # "write_sector"
BY GoAlone DEF CloseInode

LEMMA FindAlone ==
  ASSUME ControlOK, NEW p \in Process, NEW n, NEW next, NEW otherwise \in {"none", "user", "exit", "remove_done"},
         Find(p, n, next, otherwise)
  PROVE  OthersStay(p) /\ pc'[p] # "write_sector"
BY GoAlone DEF Find

(* A step that leaves the tables alone. *)
LEMMA IdxSame ==
  ASSUME IdxInv, NEW p \in Process, OthersStay(p), UNCHANGED <<fd_table, fd_idx>>,
         pc'[p] = "write_sector" => Writes(p)'
  PROVE  IdxInv'
<1>1. \A q \in Process : pc'[q] = "write_sector" => Writes(q)'
  BY DEF IdxInv, OthersStay, Writes
<1>2. NothingAboveIdx'
  BY DEF IdxInv, NothingAboveIdx
<1> QED BY <1>1, <1>2 DEF IdxInv

(* A step that gives p the table row and the index i. *)
LEMMA IdxRow ==
  ASSUME IdxInv, NEW p \in Process, OthersStay(p), pc'[p] # "write_sector",
         NEW row, row = [fd \in Fd |-> row[fd]], NEW i \in Int,
         fd_table' = [fd_table EXCEPT ![p] = row], fd_idx' = [fd_idx EXCEPT ![p] = i],
         \A fd \in Fd : fd > i => row[fd] = None
  PROVE  IdxInv'
<1>1. /\ fd_table'[p] = row /\ fd_idx'[p] = i
      /\ \A q \in Process : q # p => fd_table'[q] = fd_table[q] /\ fd_idx'[q] = fd_idx[q]
  BY DEF IdxInv
<1>2. \A q \in Process : pc'[q] = "write_sector" => Writes(q)'
  BY <1>1 DEF IdxInv, OthersStay, Writes
<1>3. NothingAboveIdx'
  BY <1>1 DEF IdxInv, NothingAboveIdx
<1>4. fd_table' = [q \in Process |-> [fd \in Fd |-> fd_table'[q][fd]]]
  <2>1. fd_table' = [q \in Process |-> fd_table'[q]]
    BY DEF IdxInv
  <2>2. ASSUME NEW q \in Process PROVE fd_table'[q] = [fd \in Fd |-> fd_table'[q][fd]]
    <3>1. CASE q = p
      BY <1>1, <3>1
    <3>2. CASE q # p
      <4>1. fd_table[q] = [fd \in Fd |-> fd_table[q][fd]]
        BY DEF IdxInv
      <4> QED BY <1>1, <3>2, <4>1
    <3> QED BY <3>1, <3>2
  <2> QED BY <2>1, <2>2
<1>5. fd_idx' \in [Process -> Int]
  BY DEF IdxInv
<1> QED BY <1>2, <1>3, <1>4, <1>5 DEF IdxInv

(* A step that changes one slot, to None or of a file that is there. *)
LEMMA IdxSet ==
  ASSUME IdxInv, NEW p \in Process, OthersStay(p), pc'[p] # "write_sector",
         NEW fd \in Fd, NEW f, SetFile(p, fd, f), UNCHANGED fd_idx,
         f = None \/ fd_table[p][fd] # None
  PROVE  IdxInv'
<1> DEFINE row == [g \in Fd |-> IF g = fd THEN f ELSE fd_table[p][g]]
           i == fd_idx[p]
<1>1. fd_table' = [fd_table EXCEPT ![p] = row]
  BY DEF SetFile, IdxInv
<1>2. fd_idx' = [fd_idx EXCEPT ![p] = i] /\ i \in Int
  BY DEF IdxInv
<1>3. \A g \in Fd : g > i => row[g] = None
  <2>1. \A g \in Fd : g > i => fd_table[p][g] = None
    BY DEF IdxInv, NothingAboveIdx
  <2>2. fd > i => f = None
    BY <2>1
  <2>3. \A g \in Fd : row[g] = IF g = fd THEN f ELSE fd_table[p][g]
    OBVIOUS
  <2> HIDE DEF row
  <2> QED BY <2>1, <2>2, <2>3
<1>4. row = [g \in Fd |-> row[g]]
  OBVIOUS
<1> HIDE DEF row, i
<1> QED BY <1>1, <1>2, <1>3, <1>4, IdxRow

LEMMA IdxOpened ==
  ASSUME FilesAssumption, ControlOK, IdxInv, NEW p \in Process, NEW t, NEW s, Opened(p, t, s)
  PROVE  IdxInv'
<1>1. CASE OpenFile(p, t, s)
  <2>1. CASE \E fd \in FreeFds(p) :
               SetFile(p, fd, File(s, 0)) /\ fd_idx' = [fd_idx EXCEPT ![p] = fd] /\ Return(p)
    <3>1. PICK fd \in FreeFds(p) :
            SetFile(p, fd, File(s, 0)) /\ fd_idx' = [fd_idx EXCEPT ![p] = fd] /\ Return(p)
      BY <2>1
    <3> DEFINE row == [g \in Fd |-> IF g = fd THEN File(s, 0) ELSE fd_table[p][g]]
    <3>2. fd \in Fd /\ fd \in Int /\ fd >= fd_idx[p] /\ fd_idx[p] \in Int
      BY FilesAssumption DEF FreeFds, Fd, IdxInv
    <3>3. fd_table' = [fd_table EXCEPT ![p] = row]
      BY <3>1, <3>2 DEF SetFile, IdxInv
    <3>4. OthersStay(p) /\ pc'[p] # "write_sector"
      BY <3>1, GoAlone DEF Return
    <3>5. \A g \in Fd : g > fd => row[g] = None
      <4>1. \A g \in Fd : g > fd_idx[p] => fd_table[p][g] = None
        BY DEF IdxInv, NothingAboveIdx
      <4>2. \A g \in Fd : g > fd => g > fd_idx[p] /\ g # fd
        BY <3>2, FilesAssumption DEF Fd
      <4> QED BY <4>1, <4>2
    <3>6. row = [g \in Fd |-> row[g]]
      OBVIOUS
    <3> HIDE DEF row
    <3> QED BY <3>1, <3>2, <3>3, <3>4, <3>5, <3>6, IdxRow
  <2>2. CASE fd_idx' = [fd_idx EXCEPT ![p] = LastFd + 1] /\ CloseInode(p, t, s, "user") /\ UNCHANGED fd_table
    <3>1. OthersStay(p) /\ pc'[p] # "write_sector"
      BY <2>2, CloseAlone
    <3>2. \A fd \in Fd : fd > LastFd + 1 => fd_table[p][fd] = None
      BY FilesAssumption DEF Fd
    <3>3. fd_table' = [fd_table EXCEPT ![p] = fd_table[p]] /\ LastFd + 1 \in Int
      BY <2>2, FilesAssumption DEF IdxInv
    <3>4. fd_table[p] = [fd \in Fd |-> fd_table[p][fd]]
      BY DEF IdxInv
    <3> QED BY <2>2, <3>1, <3>2, <3>3, <3>4, IdxRow
  <2>3. CASE CloseInode(p, t, s, "user") /\ UNCHANGED <<fd_table, fd_idx>>
    BY <2>3, CloseAlone, IdxSame
  <2> QED BY <1>1, <2>1, <2>2, <2>3 DEF OpenFile
<1>2. CASE ~OpenFile(p, t, s)
  <2>1. UNCHANGED <<fd_table, fd_idx>>
    BY <1>2 DEF Opened
  <2>2. OthersStay(p) /\ pc'[p] # "write_sector"
    BY <1>2, GoAlone, CloseAlone DEF Opened
  <2> QED BY <2>1, <2>2, IdxSame
<1> QED BY <1>1, <1>2

LEMMA IdxRead ==
  ASSUME ControlOK, IdxInv, NEW p \in Process, NEW fd \in Fd,
         Read(p, fd) \/ Close(p, fd) \/ \E pos \in Pos : Seek(p, fd, pos)
  PROVE  IdxInv'
<1> USE DEF At
<1>1. CASE Read(p, fd)
  <2>1. OthersStay(p) /\ pc'[p] # "write_sector"
    <3>1. (Stay \/ Go(p, "exit", NoCall)) /\ pc[p] = "user"
      BY <1>1 DEF Read, call_exit
    <3> QED BY <3>1, GoAlone, StayAlone
  <2>2. CASE UNCHANGED fd_table
    BY <1>1, <2>1, <2>2, IdxSame DEF Read
  <2>3. CASE \E f : SetFile(p, fd, f) /\ fd_table[p][fd] # None
    BY <1>1, <2>1, <2>3, IdxSet DEF Read
  <2> QED BY <1>1, <2>2, <2>3 DEF Read, BadFd
<1>2. CASE Close(p, fd)
  BY <1>2, CloseAlone, IdxSet DEF Close
<1>3. CASE \E pos \in Pos : Seek(p, fd, pos)
  <2>1. PICK pos \in Pos : Seek(p, fd, pos)
    BY <1>3
  <2>2. SetFile(p, fd, [fd_table[p][fd] EXCEPT !.pos = pos])
    BY <2>1 DEF Seek, SetFile, IdxInv
  <2>3. OthersStay(p) /\ pc'[p] # "write_sector" /\ UNCHANGED fd_idx /\ fd_table[p][fd] # None
    BY <2>1, StayAlone DEF Seek
  <2> QED BY <2>2, <2>3, IdxSet
<1> QED BY <1>1, <1>2, <1>3

LEMMA IdxWrite ==
  ASSUME ControlOK, IdxInv, NEW p \in Process,
         \/ \E fd \in Fd : WriteStart(p, fd)
         \/ \E v \in Value : WriteSector(p, v)
         \/ WriteDone(p) \/ WriteFault(p)
  PROVE  IdxInv'
<1> USE DEF At
<1>1. CASE \E fd \in Fd : WriteStart(p, fd)
  <2>1. PICK fd \in Fd : WriteStart(p, fd)
    BY <1>1
  <2>2. UNCHANGED <<fd_table, fd_idx>>
    BY <2>1 DEF WriteStart, procVars
  <2> DEFINE c == [NoCall EXCEPT !.fd = fd, !.start = fd_table[p][fd].pos]
  <2>3. CASE ~BadFd(p, fd) /\ Go(p, "write_sector", c)
    <3>1. "fd" \in DOMAIN c /\ c.fd = fd
      BY DEF NoCall
    <3> HIDE DEF c
    <3>2. OthersStay(p) /\ call'[p] = c
      BY <2>3, GoAlone
    <3>3. Writes(p)'
      BY <2>2, <2>3, <3>1, <3>2 DEF Writes, BadFd
    <3> QED BY <2>2, <3>2, <3>3, IdxSame
  <2>4. CASE call_exit(p) \/ Stay
    <3>1. pc[p] = "user"
      BY <2>1 DEF WriteStart
    <3>2. OthersStay(p) /\ pc'[p] # "write_sector"
      BY <2>4, <3>1, GoAlone, StayAlone DEF call_exit
    <3> QED BY <2>2, <3>2, IdxSame
  <2> QED BY <2>1, <2>3, <2>4 DEF WriteStart
<1>2. CASE \E v \in Value : WriteSector(p, v)
  <2> DEFINE c == [call[p] EXCEPT !.start = @ + 1]
  <2>1. At(p, "write_sector") /\ Go(p, "write_sector", c) /\ UNCHANGED <<fd_table, fd_idx>>
    BY <1>2 DEF WriteSector, procVars
  <2>2. Writes(p)
    BY <2>1 DEF IdxInv
  <2>3. "fd" \in DOMAIN c /\ c.fd = call[p].fd
    BY <2>2 DEF Writes
  <2> HIDE DEF c
  <2>4. OthersStay(p) /\ call'[p] = c
    BY <2>1, GoAlone
  <2>5. Writes(p)'
    BY <2>1, <2>2, <2>3, <2>4 DEF Writes
  <2> QED BY <2>1, <2>4, <2>5, IdxSame
<1>3. CASE WriteDone(p)
  <2>1. Writes(p)
    BY <1>3 DEF WriteDone, IdxInv
  <2>2. SetFile(p, call[p].fd, [fd_table[p][call[p].fd] EXCEPT !.pos = call[p].start])
    BY <1>3, <2>1 DEF WriteDone, SetFile, IdxInv
  <2>3. OthersStay(p) /\ pc'[p] # "write_sector" /\ UNCHANGED fd_idx
    BY <1>3, GoAlone DEF WriteDone, Return
  <2> QED BY <2>1, <2>2, <2>3, IdxSet DEF Writes
<1>4. CASE WriteFault(p)
  BY <1>4, GoAlone, IdxSame DEF WriteFault, call_exit, procVars
<1> QED BY <1>1, <1>2, <1>3, <1>4

LEMMA IdxProcess ==
  ASSUME ControlOK, IdxInv, NEW p \in Process,
         \/ \E c \in Process : Fork(p, c)
         \/ ExitFile(p) \/ ExitDone(p)
  PROVE  IdxInv'
<1> USE DEF At
<1>1. CASE \E c \in Process : Fork(p, c)
  <2>1. PICK c \in Process : Fork(p, c)
    BY <1>1
  <2>2. PICK fds \in SUBSET {fd \in Fd : fd_table[p][fd] # None} :
          fd_table' = [fd_table EXCEPT ![c] = [fd \in Fd |-> IF fd \in fds THEN fd_table[p][fd] ELSE None]]
    BY <2>1 DEF Fork
  <2> DEFINE row == [fd \in Fd |-> IF fd \in fds THEN fd_table[p][fd] ELSE None]
             i == fd_idx[p]
  <2>3. OthersStay(c) /\ pc'[c] # "write_sector"
    BY <2>1, GoAlone DEF Fork
  <2>4. fd_idx' = [fd_idx EXCEPT ![c] = i] /\ i \in Int
    BY <2>1 DEF Fork, InheritIdx, IdxInv
  <2>5. \A fd \in Fd : fd > i => row[fd] = None
    BY DEF IdxInv, NothingAboveIdx
  <2>6. row = [fd \in Fd |-> row[fd]]
    OBVIOUS
  <2>7. fd_table' = [fd_table EXCEPT ![c] = row]
    BY <2>2
  <2> HIDE DEF row, i
  <2> QED BY <2>3, <2>4, <2>5, <2>6, <2>7, IdxRow
<1>2. CASE ExitFile(p)
  <2>1. OthersStay(p) /\ pc'[p] # "write_sector" /\ UNCHANGED fd_idx
    BY <1>2, CloseAlone DEF ExitFile
  <2> DEFINE open == {fd \in Fd : fd_table[p][fd] # None}
             m == Min(open)
  <2>2. CASE UNCHANGED fd_table
    BY <2>1, <2>2, IdxSame
  <2>3. CASE SetFile(p, m, None)
    <3>1. CASE m \in Fd
      <4> HIDE DEF m
      <4> QED BY <2>1, <2>3, <3>1, IdxSet
    <3>2. CASE m \notin Fd
      <4> HIDE DEF m
      <4>1. fd_table[p] = [fd \in Fd |-> fd_table[p][fd]]
        BY DEF IdxInv
      <4>2. [fd_table[p] EXCEPT ![m] = None] = fd_table[p]
        BY <3>2, <4>1
      <4>3. UNCHANGED fd_table
        BY <2>3, <4>2 DEF SetFile, IdxInv
      <4> QED BY <2>1, <4>3, IdxSame
    <3> QED BY <3>1, <3>2
  <2> QED BY <1>2, <2>2, <2>3 DEF ExitFile
<1>3. CASE ExitDone(p)
  <2>1. OthersStay(p) /\ pc'[p] # "write_sector"
    BY <1>3, GoAlone DEF ExitDone
  <2>2. /\ fd_table' = [fd_table EXCEPT ![p] = fd_table[p]]
        /\ fd_idx' = [fd_idx EXCEPT ![p] = 2] /\ 2 \in Int
        /\ \A fd \in Fd : fd > 2 => fd_table[p][fd] = None
        /\ fd_table[p] = [fd \in Fd |-> fd_table[p][fd]]
    BY <1>3 DEF ExitDone, IdxInv
  <2> QED BY <2>1, <2>2, IdxRow
<1> QED BY <1>1, <1>2, <1>3

(* The steps that leave the descriptor tables alone. *)
LEMMA IdxQuiet ==
  ASSUME ControlOK, NEW p \in Process,
         \/ \E n \in Name, len \in Length : Create(p, n, len)
         \/ CreateData(p) \/ CreateInode(p) \/ CreateLookup(p) \/ CreateSlot(p)
         \/ CreateAdd(p) \/ CreateUndo(p)
         \/ \E n \in Name : Open(p, n) \/ Remove(p, n) \/ Exec(p, n) \/ Boot(p, n)
         \/ RemoveErase(p) \/ RemoveDone(p) \/ Load(p) \/ Exit(p)
         \/ ReleaseInode(p) \/ ReleaseData(p)
  PROVE  OthersStay(p) /\ pc'[p] # "write_sector" /\ UNCHANGED <<fd_table, fd_idx>>
<1> USE DEF At, procVars
<1>1. CASE \E n \in Name, len \in Length : Create(p, n, len)
  <2>1. PICK n \in Name, len \in Length : Create(p, n, len)
    BY <1>1
  <2>2. pc[p] = "user" /\ UNCHANGED <<fd_table, fd_idx>>
    BY <2>1 DEF Create
  <2> QED BY <2>1, <2>2, GoAlone, StayAlone DEF Create
<1>2. CASE CreateData(p)
  BY <1>2, GoAlone DEF CreateData
<1>3. CASE CreateInode(p)
  BY <1>3, GoAlone DEF CreateInode
<1>4. CASE CreateLookup(p)
  BY <1>4, GoAlone DEF CreateLookup
<1>5. CASE CreateSlot(p)
  BY <1>5, GoAlone DEF CreateSlot
<1>6. CASE CreateAdd(p)
  BY <1>6, GoAlone DEF CreateAdd, Return
<1>7. CASE CreateUndo(p)
  BY <1>7, GoAlone DEF CreateUndo, Return
<1>8. CASE \E n \in Name : Open(p, n) \/ Remove(p, n) \/ Exec(p, n) \/ Boot(p, n)
  <2>1. PICK n \in Name : Open(p, n) \/ Remove(p, n) \/ Exec(p, n) \/ Boot(p, n)
    BY <1>8
  <2>2. UNCHANGED <<fd_table, fd_idx>>
    BY <2>1 DEF Open, Remove, Exec, Boot
  <2>3. \E next : \E otherwise \in {"none", "user", "exit", "remove_done"} : Find(p, n, next, otherwise)
    BY <2>1 DEF Open, Remove, Exec, Boot
  <2> QED BY <2>2, <2>3, FindAlone
<1>9. CASE RemoveErase(p)
  BY <1>9, CloseAlone DEF RemoveErase
<1>10. CASE RemoveDone(p)
  BY <1>10, GoAlone DEF RemoveDone, Return
<1>11. CASE Load(p)
  BY <1>11, GoAlone DEF Load, Return, call_exit
<1>12. CASE Exit(p)
  BY <1>12, GoAlone DEF Exit, call_exit
<1>13. CASE ReleaseInode(p)
  BY <1>13, GoAlone DEF ReleaseInode
<1>14. CASE ReleaseData(p)
  <2>1. call[p].next \in {"user", "exit", "remove_done"}
    BY <1>14 DEF ReleaseData, ControlOK, Resumes
  <2> QED BY <1>14, <2>1, GoAlone DEF ReleaseData
<1> QED BY <1>1, <1>2, <1>3, <1>4, <1>5, <1>6, <1>7, <1>8, <1>9, <1>10, <1>11, <1>12, <1>13, <1>14

LEMMA IdxStep == SemaInv /\ IdxInv /\ [Next]_vars => IdxInv'
<1> SUFFICES ASSUME SemaInv, IdxInv, [Next]_vars PROVE IdxInv'
  OBVIOUS
<1>1. ControlOK
  BY DEF SemaInv
<1>2. CASE \E p \in Process : ProcessStep(p)
  <2>1. PICK p \in Process : ProcessStep(p)
    BY <1>2
  <2>2. \/ \/ \E n \in Name, len \in Length : Create(p, n, len)
           \/ CreateData(p) \/ CreateInode(p) \/ CreateLookup(p) \/ CreateSlot(p)
           \/ CreateAdd(p) \/ CreateUndo(p)
           \/ \E n \in Name : Open(p, n) \/ Remove(p, n) \/ Exec(p, n) \/ Boot(p, n)
           \/ RemoveErase(p) \/ RemoveDone(p) \/ Load(p) \/ Exit(p)
           \/ ReleaseInode(p) \/ ReleaseData(p)
        \/ OpenInode(p) \/ FillInode(p)
        \/ \E fd \in Fd : Read(p, fd) \/ Close(p, fd) \/ \E pos \in Pos : Seek(p, fd, pos)
        \/ \/ \E fd \in Fd : WriteStart(p, fd)
           \/ \E v \in Value : WriteSector(p, v)
           \/ WriteDone(p) \/ WriteFault(p)
        \/ \/ \E c \in Process : Fork(p, c)
           \/ ExitFile(p) \/ ExitDone(p)
    BY <2>1, Zenon DEF ProcessStep
  <2>3. CASE OpenInode(p) \/ FillInode(p)
    <3>1. CASE \E t, s : Opened(p, t, s)
      BY <1>1, <3>1, IdxOpened, FilesAssumption
    <3>2. CASE ~ \E t, s : Opened(p, t, s)
      <4>1. UNCHANGED <<fd_table, fd_idx>>
        BY <2>3, <3>2 DEF OpenInode, FillInode
      <4>2. OthersStay(p) /\ pc'[p] # "write_sector"
        BY <1>1, <2>3, <3>2, GoAlone DEF OpenInode, FillInode, Without
      <4> QED BY <4>1, <4>2, IdxSame
    <3> QED BY <3>1, <3>2
  <2> QED BY <1>1, <2>2, <2>3, IdxQuiet, IdxSame, IdxRead, IdxWrite, IdxProcess
<1>3. CASE PowerOff
  BY <1>3 DEF PowerOff, IdxInv, NothingAboveIdx
<1>4. CASE UNCHANGED vars
  BY <1>4 DEF vars, IdxInv, NothingAboveIdx, Writes
<1> QED BY <1>2, <1>3, <1>4 DEF Next

(* add_file_to_fdt puts every file at fd_idx, which only moves up, and     *)
(* __do_fork gives the child its parent's fd_idx with its descriptors: in  *)
(* no process is anything ever open above it.                              *)
THEOREM NothingOpenAboveIdx == Spec => []NothingAboveIdx
<1>1. IdxInv => NothingAboveIdx
  BY DEF IdxInv
<1> QED BY <1>1, SemaInit, SemaStep, IdxInit, IdxStep, PTL DEF Spec

-----------------------------------------------------------------------------
(* The table of open inodes. *)

Table == [Sector -> {None} \cup Inode]
Refs(t, s) == IF t[s] = None THEN 0 ELSE t[s].open_cnt
One(b) == IF b THEN 1 ELSE 0

LEMMA OneIsNat == ASSUME NEW b \in BOOLEAN PROVE One(b) \in {0, 1}
BY DEF One

(* A set of natural numbers has its Min in it. *)
LEMMA MinIsLeast ==
  ASSUME NEW A \in SUBSET Nat, A # {}
  PROVE  Min(A) \in A /\ \A n \in A : Min(A) <= n
<1> DEFINE R == {ss \in Nat \X Nat : ss[1] < ss[2]}
<1>1. IsWellFoundedOn(R, Nat)
  BY NatLessThanWellFounded DEF OpToRel
<1>2. \A x, y \in Nat : y < x => <<y, x>> \in R
  OBVIOUS
<1> HIDE DEF R
<1>3. PICK x \in A : \A y \in A : <<y, x>> \notin R
  BY <1>1, WFMin
<1>4. ASSUME NEW y \in A PROVE x <= y
  <2>1. x \in Nat /\ y \in Nat
    OBVIOUS
  <2>2. ~(y < x)
    BY <2>1, <1>2, <1>3
  <2> QED BY <2>1, <2>2
<1> QED BY <1>4 DEF Min

(* Changing whether x is in a set changes its cardinality by one. *)
LEMMA OneElement ==
  ASSUME NEW A, IsFiniteSet(A), NEW x, NEW B, \A y : y # x => (y \in B <=> y \in A)
  PROVE  /\ IsFiniteSet(B)
         /\ Cardinality(B) = Cardinality(A) - One(x \in A) + One(x \in B)
<1>1. Cardinality(A) \in Nat
  BY FS_CardinalityType
<1>2. CASE x \in B
  <2>1. B = A \cup {x}
    BY <1>2
  <2> QED BY <1>1, <1>2, <2>1, FS_AddElement DEF One
<1>3. CASE x \notin B
  <2>1. B = A \ {x}
    BY <1>3
  <2> QED BY <1>1, <1>3, <2>1, FS_RemoveElement DEF One
<1> QED BY <1>2, <1>3

LEMMA CloseTable ==
  ASSUME NEW t \in Table, NEW s \in Sector, t[s] # None
  PROVE  /\ inode_close(t, s) \in Table
         /\ \A r \in Sector : Refs(inode_close(t, s), r) = Refs(t, r) - One(r = s)
         /\ \A r \in Sector : inode_close(t, s)[r] # None =>
              t[r] # None /\ inode_close(t, s)[r].deny_write_cnt = t[r].deny_write_cnt
<1> DEFINE u == inode_close(t, s)
<1>1. t[s] \in Inode /\ t[s].open_cnt \in Nat \ {0}
  BY DEF Table, Inode
<1>2. \A r \in Sector : u[r] = IF r = s THEN (IF t[s].open_cnt = 1 THEN None
                                             ELSE [t[s] EXCEPT !.open_cnt = @ - 1])
                               ELSE t[r]
  BY DEF inode_close, LastOpener, Table
<1>3. [t[s] EXCEPT !.open_cnt = @ - 1].open_cnt = t[s].open_cnt - 1
  BY <1>1 DEF Inode
<1>4. [t[s] EXCEPT !.open_cnt = @ - 1].deny_write_cnt = t[s].deny_write_cnt
  BY <1>1 DEF Inode
<1>5. t[s].open_cnt # 1 => [t[s] EXCEPT !.open_cnt = @ - 1] \in Inode
  BY <1>1 DEF Inode
<1>6. u \in Table
  <2>1. u = [r \in Sector |-> u[r]]
    BY DEF inode_close, Table
  <2>2. \A r \in Sector : u[r] \in {None} \cup Inode
    BY <1>2, <1>5 DEF Table
  <2> HIDE DEF u
  <2> QED BY <2>1, <2>2 DEF Table
<1>7. ASSUME NEW r \in Sector PROVE Refs(u, r) = Refs(t, r) - One(r = s)
  <2>1. CASE r # s
    <3>1. u[r] = t[r] /\ One(r = s) = 0
      BY <1>2, <2>1 DEF One
    <3>2. Refs(t, r) \in Nat
      BY DEF Refs, Table, Inode
    <3> HIDE DEF u
    <3> QED BY <3>1, <3>2 DEF Refs
  <2>2. CASE r = s
    <3>1. One(r = s) = 1 /\ Refs(t, r) = t[s].open_cnt
      BY <2>2 DEF One, Refs
    <3>2. CASE t[s].open_cnt = 1
      <4>1. u[r] = None
        BY <1>2, <2>2, <3>2
      <4> HIDE DEF u
      <4> QED BY <3>1, <3>2, <4>1 DEF Refs
    <3>3. CASE t[s].open_cnt # 1
      <4>1. u[r] = [t[s] EXCEPT !.open_cnt = @ - 1]
        BY <1>2, <2>2, <3>3
      <4>2. u[r] # None
        BY <1>5, <3>3, <4>1, NoneAssumption
      <4>3. Refs(u, r) = t[s].open_cnt - 1
        BY <1>3, <4>1, <4>2 DEF Refs
      <4> QED BY <3>1, <4>3
    <3> QED BY <3>2, <3>3
  <2> QED BY <2>1, <2>2
<1>8. ASSUME NEW r \in Sector, u[r] # None
      PROVE  t[r] # None /\ u[r].deny_write_cnt = t[r].deny_write_cnt
  <2>1. CASE r # s
    BY <1>2, <1>8, <2>1
  <2>2. CASE r = s
    <3>1. u[r] = [t[s] EXCEPT !.open_cnt = @ - 1]
      BY <1>2, <1>8, <2>2
    <3> QED BY <1>4, <2>2, <3>1
  <2> QED BY <2>1, <2>2
<1> HIDE DEF u
<1>9. /\ u \in Table
      /\ \A r \in Sector : Refs(u, r) = Refs(t, r) - One(r = s)
      /\ \A r \in Sector : u[r] # None =>
              t[r] # None /\ u[r].deny_write_cnt = t[r].deny_write_cnt
  BY <1>6, <1>7, <1>8
<1> QED BY <1>9 DEF u

LEMMA ReopenTable ==
  ASSUME NEW t \in Table, NEW s \in Sector, t[s] # None, NEW k \in Nat
  PROVE  /\ inode_reopen(t, s, k) \in Table
         /\ inode_reopen(t, s, k)[s] # None
         /\ inode_reopen(t, s, k)[s].start = t[s].start
         /\ inode_reopen(t, s, k)[s].length = t[s].length
         /\ inode_reopen(t, s, k)[s].removed = t[s].removed
         /\ Refs(inode_reopen(t, s, k), s) = Refs(t, s) + k
         /\ inode_reopen(t, s, k)[s].deny_write_cnt = t[s].deny_write_cnt
         /\ \A r \in Sector : r # s => inode_reopen(t, s, k)[r] = t[r]
<1> DEFINE u == inode_reopen(t, s, k)
           i == [t[s] EXCEPT !.open_cnt = @ + k]
<1>1. t[s] \in Inode
  BY DEF Table
<1>2. u[s] = i /\ \A r \in Sector : r # s => u[r] = t[r]
  BY DEF inode_reopen, Table
<1>3. /\ i \in Inode /\ i.open_cnt = t[s].open_cnt + k /\ i.deny_write_cnt = t[s].deny_write_cnt
      /\ i.start = t[s].start /\ i.length = t[s].length /\ i.removed = t[s].removed
  BY <1>1 DEF Inode
<1>4. i # None
  BY <1>3, NoneAssumption
<1> HIDE DEF i
<1>5. u \in Table
  <2>1. u = [r \in Sector |-> u[r]]
    BY DEF inode_reopen, Table
  <2> HIDE DEF u
  <2> QED BY <1>2, <1>3, <2>1 DEF Table
<1> HIDE DEF u
<1>6. Refs(u, s) = Refs(t, s) + k
  BY <1>2, <1>3, <1>4 DEF Refs
<1>7. /\ u \in Table /\ u[s] # None /\ Refs(u, s) = Refs(t, s) + k
      /\ u[s].start = t[s].start /\ u[s].length = t[s].length /\ u[s].removed = t[s].removed
      /\ u[s].deny_write_cnt = t[s].deny_write_cnt
      /\ \A r \in Sector : r # s => u[r] = t[r]
  BY <1>2, <1>3, <1>4, <1>5, <1>6
<1> QED BY <1>7 DEF u

(* The counts are the same when the inode of s changes in another field. *)
LEMMA FieldTable ==
  ASSUME NEW t, NEW s \in Sector, t[s] # None, NEW u, u[s] \in Inode,
         \A r \in Sector : r # s => u[r] = t[r], u[s].open_cnt = t[s].open_cnt
  PROVE  u[s] # None /\ \A r \in Sector : Refs(u, r) = Refs(t, r)
<1>1. u[s] # None
  BY NoneAssumption
<1> QED BY <1>1 DEF Refs

-----------------------------------------------------------------------------
(* The files on an inode. *)

Starts == {0} \cup Sector
Finding == {"open_inode", "fill_inode"}
Counted == {"fill_inode", "load", "remove_erase"}
WithSector == Finding \cup Creating \cup Created \cup Counted
Nexts == {"user", "exit", "open", "exec", "remove", "remove_done"}

(* The locals of a call at a label. *)
CallOK(l, c) ==
  /\ l \in Labels /\ c \in CallType
  /\ l \in WithSector => c.sector \in Sector
  /\ l \in Finding => c.next \in {"open", "exec", "remove"}
  /\ l = "create_add" => c.fd \in Slot
  /\ l \in Creating \cup Created => c.name \in Name
  /\ l \in Created => c.start \in Starts

LocalsOK ==
  \A p \in Process :
    /\ CallOK(pc[p], call[p])
    /\ pc[p] = "none" => file_cur[p] = None /\ \A fd \in Fd : fd_table[p][fd] = None
    /\ \A fd \in Fd : fd_table[p][fd] # None => fd_table[p][fd].pos <= LastSector + MaxPos

FilesInv == FilesTypeOK /\ CountsMatch /\ LocalsOK

OnFile(f, s) == IF f = None THEN 0 ELSE One(f.inode = s)
OnCall(l, c, s) == One(l \in Counted /\ c.sector = s)

LEMMA NumbersKnown ==
  /\ LastSector \in Nat /\ LastFd \in Nat /\ MaxPos \in Nat /\ Slots \in Nat /\ MaxLost \in Nat
  /\ Fd \subseteq Nat /\ Sector \subseteq Nat \ {0, 1} /\ Slot \subseteq Nat
  /\ IsFiniteSet(Fd) /\ IsFiniteSet(Process)
<1>1. LastSector \in Nat /\ LastFd \in Nat /\ MaxPos \in Nat /\ Slots \in Nat /\ MaxLost \in Nat
  BY FilesysAssumption, FilesAssumption
<1>2. Fd \subseteq Nat /\ Sector \subseteq Nat \ {0, 1} /\ Slot \subseteq Nat
  BY <1>1 DEF Fd, Sector, Slot
<1>3. IsFiniteSet(Fd)
  BY <1>1, FS_Interval DEF Fd
<1> QED BY <1>1, <1>2, <1>3, FiniteProcesses

LEMMA FiniteCounts ==
  ASSUME NEW s
  PROVE  /\ IsFiniteSet(FilesOn(s)) /\ IsFiniteSet(CallsOn(s)) /\ IsFiniteSet(RunningOn(s))
         /\ IsFiniteSet(FilesOn(s))' /\ IsFiniteSet(CallsOn(s))' /\ IsFiniteSet(RunningOn(s))'
<1>1. IsFiniteSet(Process \X Fd)
  BY NumbersKnown, FS_Product
<1>2. FilesOn(s) \subseteq Process \X Fd /\ FilesOn(s)' \subseteq Process \X Fd
  BY DEF FilesOn
<1>3. CallsOn(s) \subseteq Process /\ CallsOn(s)' \subseteq Process
  BY DEF CallsOn
<1>4. RunningOn(s) \subseteq Process /\ RunningOn(s)' \subseteq Process
  BY DEF RunningOn
<1>5. \A A : A \subseteq Process => IsFiniteSet(A)
  BY NumbersKnown, FS_Subset
<1>6. \A A : A \subseteq Process \X Fd => IsFiniteSet(A)
  BY <1>1, FS_Subset
<1> QED BY <1>2, <1>3, <1>4, <1>5, <1>6

LEMMA CountsAreNat ==
  ASSUME NEW s, lost[s] \in [plain : Nat, denying : Nat], lost'[s] \in [plain : Nat, denying : Nat]
  PROVE  /\ Openers(s) \in Nat /\ Deniers(s) \in Nat /\ Openers(s)' \in Nat /\ Deniers(s)' \in Nat
         /\ Cardinality(FilesOn(s)) \in Nat /\ Cardinality(CallsOn(s)) \in Nat
         /\ Cardinality(RunningOn(s)) \in Nat
<1>1. /\ Cardinality(FilesOn(s)) \in Nat /\ Cardinality(CallsOn(s)) \in Nat
      /\ Cardinality(RunningOn(s)) \in Nat
      /\ Cardinality(FilesOn(s)') \in Nat /\ Cardinality(CallsOn(s)') \in Nat
      /\ Cardinality(RunningOn(s)') \in Nat
  BY FiniteCounts, FS_CardinalityType
<1> QED BY <1>1 DEF Openers, Deniers

(* One slot gets another file, or none. *)
LEMMA FilesSet ==
  ASSUME FilesTypeOK, NEW p \in Process, NEW fd \in Fd, NEW f, SetFile(p, fd, f), NEW s
  PROVE  Cardinality(FilesOn(s)') = Cardinality(FilesOn(s)) - OnFile(fd_table[p][fd], s) + OnFile(f, s)
<1>1. \A q \in Process, g \in Fd :
        fd_table'[q][g] = IF q = p /\ g = fd THEN f ELSE fd_table[q][g]
  BY DEF SetFile, FilesTypeOK
<1>2. ASSUME NEW y, y # <<p, fd>> PROVE y \in FilesOn(s)' <=> y \in FilesOn(s)
  <2>1. CASE y \in Process \X Fd
    <3>1. PICK q \in Process, g \in Fd : y = <<q, g>>
      BY <2>1
    <3>2. fd_table'[q][g] = fd_table[q][g]
      BY <1>1, <1>2, <3>1
    <3> QED BY <3>1, <3>2 DEF FilesOn
  <2>2. CASE y \notin Process \X Fd
    BY <2>2 DEF FilesOn
  <2> QED BY <2>1, <2>2
<1>3. One(<<p, fd>> \in FilesOn(s)) = OnFile(fd_table[p][fd], s)
  BY DEF FilesOn, OnFile, One
<1>4. One(<<p, fd>> \in FilesOn(s)') = OnFile(f, s)
  <2>1. fd_table'[p][fd] = f
    BY <1>1
  <2> QED BY <2>1 DEF FilesOn, OnFile, One
<1> QED BY <1>2, <1>3, <1>4, FiniteCounts, OneElement

(* The files are the same when none changes its inode. *)
LEMMA FilesSame ==
  ASSUME NEW s, \A p \in Process, fd \in Fd :
           /\ fd_table'[p][fd] = None <=> fd_table[p][fd] = None
           /\ fd_table[p][fd] # None => fd_table'[p][fd].inode = fd_table[p][fd].inode
  PROVE  FilesOn(s)' = FilesOn(s)
BY DEF FilesOn

LEMMA CallsGo ==
  ASSUME FilesTypeOK, NEW p \in Process, NEW l, NEW c, Go(p, l, c), NEW s
  PROVE  Cardinality(CallsOn(s)') = Cardinality(CallsOn(s)) - OnCall(pc[p], call[p], s) + OnCall(l, c, s)
<1>1. /\ pc'[p] = l /\ call'[p] = c
      /\ \A q \in Process : q # p => pc'[q] = pc[q] /\ call'[q] = call[q]
  BY DEF Go, FilesTypeOK
<1>2. \A q : q # p => (q \in CallsOn(s)' <=> q \in CallsOn(s))
  BY <1>1 DEF CallsOn
<1>3. One(p \in CallsOn(s)) = OnCall(pc[p], call[p], s)
  BY DEF CallsOn, OnCall, Counted, One
<1>4. One(p \in CallsOn(s)') = OnCall(l, c, s)
  BY <1>1 DEF CallsOn, OnCall, Counted, One
<1> QED BY <1>2, <1>3, <1>4, FiniteCounts, OneElement

LEMMA CallsStay ==
  ASSUME Stay, NEW s PROVE CallsOn(s)' = CallsOn(s)
BY DEF Stay, CallsOn

SetCur(p, f) == file_cur' = [file_cur EXCEPT ![p] = f]

LEMMA RunningSet ==
  ASSUME FilesTypeOK, NEW p \in Process, NEW f, SetCur(p, f), NEW s
  PROVE  Cardinality(RunningOn(s)') = Cardinality(RunningOn(s)) - One(file_cur[p] = s) + One(f = s)
<1>1. file_cur'[p] = f /\ \A q \in Process : q # p => file_cur'[q] = file_cur[q]
  BY DEF FilesTypeOK, SetCur
<1>2. \A q : q # p => (q \in RunningOn(s)' <=> q \in RunningOn(s))
  BY <1>1 DEF RunningOn
<1>3. One(p \in RunningOn(s)) = One(file_cur[p] = s) /\ One(p \in RunningOn(s)') = One(f = s)
  BY <1>1 DEF RunningOn, One
<1> QED BY <1>2, <1>3, FiniteCounts, OneElement

LEMMA RunningSame ==
  ASSUME UNCHANGED file_cur, NEW s PROVE RunningOn(s)' = RunningOn(s)
BY DEF RunningOn

(* CountsMatch, with an inode that is not open counted as zero. *)
LEMMA CountsRead ==
  ASSUME FilesInv, NEW s \in Sector
  PROVE  /\ inodes \in Table
         /\ lost[s] \in [plain : Nat, denying : Nat]
         /\ Refs(inodes, s) = Openers(s) + Deniers(s)
         /\ inodes[s] # None => inodes[s].deny_write_cnt = Deniers(s)
<1>1. inodes \in Table
  BY DEF FilesInv, FilesTypeOK, FsTypeOK, Table
<1>2. lost[s] \in [plain : Nat, denying : Nat]
  BY NumbersKnown DEF FilesInv, FilesTypeOK
<1> QED BY <1>1, <1>2 DEF FilesInv, CountsMatch, Refs

LEMMA CountsShow ==
  ASSUME inodes' \in Table,
         \A s \in Sector : /\ Openers(s)' \in Nat /\ Deniers(s)' \in Nat
                           /\ Refs(inodes', s) = Openers(s)' + Deniers(s)'
                           /\ inodes'[s] # None => inodes'[s].deny_write_cnt = Deniers(s)'
  PROVE  CountsMatch'
BY DEF CountsMatch, Refs

(* What is pointed to is open. *)
LEMMA PointedAtOpen ==
  ASSUME FilesInv, NEW p \in Process
  PROVE  /\ \A fd \in Fd : fd_table[p][fd] # None =>
              fd_table[p][fd].inode \in Sector /\ inodes[fd_table[p][fd].inode] # None
         /\ pc[p] \in Counted => call[p].sector \in Sector /\ inodes[call[p].sector] # None
         /\ file_cur[p] # None =>
              /\ file_cur[p] \in Sector /\ inodes[file_cur[p]] # None
              /\ inodes[file_cur[p]].deny_write_cnt > 0
<1>0. \A A, x : IsFiniteSet(A) /\ x \in A => Cardinality(A) \in Nat \ {0}
  BY FS_EmptySet, FS_CardinalityType
<1>1. ASSUME NEW fd \in Fd, fd_table[p][fd] # None
      PROVE  fd_table[p][fd].inode \in Sector /\ inodes[fd_table[p][fd].inode] # None
  <2> DEFINE s == fd_table[p][fd].inode
  <2>1. s \in Sector
    BY <1>1 DEF FilesInv, FilesTypeOK, FileType
  <2>2. <<p, fd>> \in FilesOn(s)
    BY <1>1 DEF FilesOn
  <2> HIDE DEF s
  <2>3. Cardinality(FilesOn(s)) \in Nat \ {0}
    BY <1>0, <2>2, FiniteCounts
  <2>4. Refs(inodes, s) = Openers(s) + Deniers(s) /\ lost[s].plain \in Nat /\ lost[s].denying \in Nat
    BY <2>1, CountsRead
  <2>5. Cardinality(CallsOn(s)) \in Nat /\ Cardinality(RunningOn(s)) \in Nat
    BY FiniteCounts, FS_CardinalityType
  <2>6. Refs(inodes, s) # 0
    <3>1. Refs(inodes, s) = Cardinality(FilesOn(s)) + Cardinality(CallsOn(s)) + lost[s].plain
                            + (Cardinality(RunningOn(s)) + lost[s].denying)
      BY <2>4 DEF Openers, Deniers
    <3> QED BY <2>3, <2>4, <2>5, <3>1
  <2>7. inodes[s] # None
    BY <2>6 DEF Refs
  <2> QED BY <2>1, <2>7 DEF s
<1>2. ASSUME pc[p] \in Counted PROVE call[p].sector \in Sector /\ inodes[call[p].sector] # None
  <2> DEFINE s == call[p].sector
  <2>1. s \in Sector
    BY <1>2 DEF FilesInv, LocalsOK, CallOK, WithSector
  <2>2. p \in CallsOn(s)
    BY <1>2 DEF CallsOn, Counted
  <2> HIDE DEF s
  <2>3. Cardinality(CallsOn(s)) \in Nat \ {0}
    BY <1>0, <2>2, FiniteCounts
  <2>4. Refs(inodes, s) = Openers(s) + Deniers(s) /\ lost[s].plain \in Nat /\ lost[s].denying \in Nat
    BY <2>1, CountsRead
  <2>5. Cardinality(FilesOn(s)) \in Nat /\ Cardinality(RunningOn(s)) \in Nat
    BY FiniteCounts, FS_CardinalityType
  <2>6. Refs(inodes, s) # 0
    <3>1. Refs(inodes, s) = Cardinality(FilesOn(s)) + Cardinality(CallsOn(s)) + lost[s].plain
                            + (Cardinality(RunningOn(s)) + lost[s].denying)
      BY <2>4 DEF Openers, Deniers
    <3> QED BY <2>3, <2>4, <2>5, <3>1
  <2>7. inodes[s] # None
    BY <2>6 DEF Refs
  <2> QED BY <2>1, <2>7 DEF s
<1>3. ASSUME file_cur[p] # None
      PROVE  /\ file_cur[p] \in Sector /\ inodes[file_cur[p]] # None
             /\ inodes[file_cur[p]].deny_write_cnt > 0
  <2> DEFINE s == file_cur[p]
  <2>1. s \in Sector
    BY <1>3 DEF FilesInv, FilesTypeOK
  <2>2. p \in RunningOn(s)
    BY <1>3 DEF RunningOn
  <2> HIDE DEF s
  <2>3. Cardinality(RunningOn(s)) \in Nat \ {0}
    BY <1>0, <2>2, FiniteCounts
  <2>4. /\ Refs(inodes, s) = Openers(s) + Deniers(s) /\ lost[s].plain \in Nat /\ lost[s].denying \in Nat
        /\ inodes[s] # None => inodes[s].deny_write_cnt = Deniers(s)
    BY <2>1, CountsRead
  <2>5. Cardinality(FilesOn(s)) \in Nat /\ Cardinality(CallsOn(s)) \in Nat
    BY FiniteCounts, FS_CardinalityType
  <2>6. Refs(inodes, s) # 0 /\ Deniers(s) > 0
    BY <2>3, <2>4, <2>5 DEF Openers, Deniers
  <2>7. inodes[s] # None
    BY <2>6 DEF Refs
  <2> QED BY <2>1, <2>4, <2>6, <2>7 DEF s
<1> QED BY <1>1, <1>2, <1>3

-----------------------------------------------------------------------------
(* FilesInv in parts. *)

CallsTyped == /\ pc = [p \in Process |-> pc[p]] /\ call = [p \in Process |-> call[p]]
              /\ \A p \in Process : CallOK(pc[p], call[p])

RowOK(row) == /\ row \in [Fd -> {None} \cup FileType]
              /\ \A fd \in Fd : row[fd] # None => row[fd].pos <= LastSector + MaxPos

TablesTyped ==
  /\ fd_table = [p \in Process |-> fd_table[p]] /\ \A p \in Process : RowOK(fd_table[p])
  /\ fd_idx \in [Process -> 2 .. LastFd + 1]
  /\ file_cur \in [Process -> {None} \cup Sector]
  /\ \A p \in Process :
       pc[p] = "none" => file_cur[p] = None /\ \A fd \in Fd : fd_table[p][fd] = None

ImageTyped == image \in [Process -> {None} \cup Sector]
StoreTyped == disk \in [Sector -> DiskInode \cup Cell] /\ entry \in [Slot -> {None} \cup (Name \X Sector)]
              /\ free_map \subseteq Sector
LostTyped == lost \in [Sector -> [plain : 0 .. MaxLost, denying : 0 .. MaxLost]]

LEMMA FilesParts ==
  FilesInv => /\ CallsTyped /\ TablesTyped /\ ImageTyped /\ StoreTyped /\ LostTyped
              /\ inodes \in Table
<1> SUFFICES ASSUME FilesInv
             PROVE  /\ CallsTyped /\ TablesTyped /\ ImageTyped /\ StoreTyped /\ LostTyped
                    /\ inodes \in Table
  OBVIOUS
<1>1. CallsTyped
  BY DEF FilesInv, FilesTypeOK, LocalsOK, CallsTyped
<1>2. TablesTyped
  BY DEF FilesInv, FilesTypeOK, LocalsOK, TablesTyped, RowOK
<1>3. ImageTyped /\ StoreTyped /\ LostTyped /\ inodes \in Table
  BY DEF FilesInv, FilesTypeOK, FsTypeOK, ImageTyped, StoreTyped, LostTyped, Table
<1> QED BY <1>1, <1>2, <1>3

LEMMA FilesWhole ==
  ASSUME CallsTyped', TablesTyped', ImageTyped', StoreTyped', LostTyped', inodes' \in Table,
         CountsMatch', SemaInv'
  PROVE  FilesInv'
<1>1. pc' \in [Process -> Labels] /\ call' \in [Process -> CallType]
  BY DEF CallsTyped, CallOK
<1>2. fd_table' \in [Process -> [Fd -> {None} \cup FileType]]
  BY DEF TablesTyped, RowOK
<1>3. syn_sema' \in {0, 1} /\ abandoned' \in BOOLEAN
  BY DEF SemaInv
<1>4. FsTypeOK'
  BY DEF StoreTyped, Table, FsTypeOK
<1>5. FilesTypeOK'
  BY <1>1, <1>2, <1>3, <1>4 DEF FilesTypeOK, TablesTyped, ImageTyped, LostTyped
<1>6. LocalsOK'
  BY DEF LocalsOK, CallsTyped, TablesTyped, RowOK
<1> QED BY <1>5, <1>6 DEF FilesInv

LEMMA CallsTypedGo ==
  ASSUME CallsTyped, NEW p \in Process, NEW l, NEW c, Go(p, l, c), CallOK(l, c)
  PROVE  CallsTyped' /\ pc'[p] = l /\ \A q \in Process : q # p => pc'[q] = pc[q]
<1>1. /\ pc'[p] = l /\ call'[p] = c
      /\ \A q \in Process : q # p => pc'[q] = pc[q] /\ call'[q] = call[q]
  BY DEF CallsTyped, Go
<1>2. pc' = [q \in Process |-> pc'[q]] /\ call' = [q \in Process |-> call'[q]]
  BY DEF CallsTyped, Go
<1>3. \A q \in Process : CallOK(pc'[q], call'[q])
  BY <1>1 DEF CallsTyped
<1>4. CallsTyped'
  BY <1>2, <1>3 DEF CallsTyped, CallOK
<1> QED BY <1>1, <1>4

LEMMA CallsTypedStay == ASSUME CallsTyped, Stay PROVE CallsTyped'
BY DEF CallsTyped, Stay, CallOK

(* A step that opens and closes nothing. *)
LEMMA QuietInv ==
  ASSUME FilesInv, SemaInv', NEW p \in Process, NEW l, NEW c, Go(p, l, c), CallOK(l, c),
         pc[p] \notin Counted, l \notin Counted, l = "none" => pc[p] = "none",
         UNCHANGED <<inodes, lost, fd_table, fd_idx, file_cur>>, StoreTyped', ImageTyped'
  PROVE  FilesInv'
<1>1. CallsTyped' /\ pc'[p] = l /\ \A q \in Process : q # p => pc'[q] = pc[q]
  BY FilesParts, CallsTypedGo
<1>2. TablesTyped'
  BY <1>1, FilesParts DEF TablesTyped, RowOK
<1>3. LostTyped' /\ inodes' \in Table
  BY FilesParts DEF LostTyped
<1>4. ASSUME NEW s \in Sector PROVE Openers(s)' = Openers(s) /\ Deniers(s)' = Deniers(s)
  <2>1. OnCall(pc[p], call[p], s) = 0 /\ OnCall(l, c, s) = 0
    BY DEF OnCall, One
  <2>2. Cardinality(CallsOn(s)) \in Nat
    BY FiniteCounts, FS_CardinalityType
  <2>3. Cardinality(CallsOn(s)') = Cardinality(CallsOn(s))
    BY <2>1, <2>2, CallsGo DEF FilesInv
  <2>4. FilesOn(s)' = FilesOn(s) /\ RunningOn(s)' = RunningOn(s)
    BY DEF FilesOn, RunningOn
  <2> QED BY <2>3, <2>4 DEF Openers, Deniers
<1>5. CountsMatch'
  BY <1>4 DEF FilesInv, CountsMatch
<1> QED BY <1>1, <1>2, <1>3, <1>5, FilesParts, FilesWhole

(* A step that at most moves the position of a file. *)
LEMMA MoveInv ==
  ASSUME FilesInv, SemaInv', NEW p \in Process, CallsTyped', pc'[p] # "none",
         \A q \in Process : q # p => pc'[q] = pc[q],
         \A s \in Sector : CallsOn(s)' = CallsOn(s),
         NEW fd \in Fd, fd_table[p][fd] # None,
         NEW pos \in 0 .. LastSector + MaxPos,
         SetFile(p, fd, [fd_table[p][fd] EXCEPT !.pos = pos]),
         UNCHANGED <<inodes, lost, fd_idx, file_cur, image, disk, entry, free_map>>
  PROVE  FilesInv'
<1> DEFINE f == [fd_table[p][fd] EXCEPT !.pos = pos]
<1>1. fd_table[p][fd] \in FileType
  BY DEF FilesInv, FilesTypeOK
<1>2. f \in FileType /\ f.inode = fd_table[p][fd].inode /\ f.pos = pos
  BY <1>1, NumbersKnown DEF FileType
<1>3. f # None
  BY <1>2, NoFile
<1> HIDE DEF f
<1>4. /\ fd_table' = [q \in Process |-> fd_table'[q]]
      /\ \A q \in Process : q # p => fd_table'[q] = fd_table[q]
      /\ fd_table'[p] = [fd_table[p] EXCEPT ![fd] = f]
  BY DEF SetFile, FilesInv, FilesTypeOK, f
<1>5. /\ fd_table'[p][fd] = f /\ \A g \in Fd : g # fd => fd_table'[p][g] = fd_table[p][g]
      /\ fd_table'[p] \in [Fd -> {None} \cup FileType]
  BY <1>2, <1>4 DEF FilesInv, FilesTypeOK
<1>6. RowOK(fd_table'[p])
  <2>1. \A g \in Fd : fd_table[p][g] # None => fd_table[p][g].pos <= LastSector + MaxPos
    BY FilesParts DEF TablesTyped, RowOK
  <2>2. f.pos <= LastSector + MaxPos
    BY <1>2, NumbersKnown
  <2> QED BY <1>5, <2>1, <2>2 DEF RowOK
<1>7. TablesTyped'
  <2>1. \A q \in Process : RowOK(fd_table'[q])
    BY <1>4, <1>6, FilesParts DEF TablesTyped
  <2>2. \A q \in Process : RowOK(fd_table[q])'
    BY <2>1 DEF RowOK
  <2>3. \A q \in Process : pc'[q] = "none" =>
          file_cur'[q] = None /\ \A g \in Fd : fd_table'[q][g] = None
    BY <1>4, FilesParts DEF TablesTyped
  <2> QED BY <1>4, <2>2, <2>3, FilesParts DEF TablesTyped
<1>8. ASSUME NEW s \in Sector PROVE FilesOn(s)' = FilesOn(s)
  BY <1>2, <1>3, <1>4, <1>5, FilesSame
<1>9. CountsMatch'
  BY <1>8 DEF FilesInv, CountsMatch, Openers, Deniers, RunningOn
<1>10. LostTyped' /\ ImageTyped' /\ StoreTyped' /\ inodes' \in Table
  BY FilesParts DEF LostTyped, ImageTyped, StoreTyped
<1> QED BY <1>7, <1>9, <1>10, FilesWhole

-----------------------------------------------------------------------------
(* What closing an inode does to the counts.                               *)

(* The counts after a step of p, if the table is then t and p is at l with *)
(* the locals c.                                                           *)
Balanced(t, p, l, c) ==
  \A r \in Sector :
    /\ Refs(t, r) = Cardinality(FilesOn(r)') + Cardinality(CallsOn(r)) - OnCall(pc[p], call[p], r)
                    + OnCall(l, c, r) + Cardinality(RunningOn(r)') + lost'[r].plain + lost'[r].denying
    /\ t[r] # None => t[r].deny_write_cnt = Cardinality(RunningOn(r)') + lost'[r].denying

LEMMA OnCallIsOne == ASSUME NEW l, NEW c, NEW r PROVE OnCall(l, c, r) \in {0, 1}
BY DEF OnCall, One

LEMMA GoInv ==
  ASSUME FilesInv, SemaInv', NEW p \in Process, NEW l, NEW c, Go(p, l, c), CallOK(l, c),
         TablesTyped', ImageTyped', StoreTyped', LostTyped',
         inodes' \in Table, Balanced(inodes', p, l, c)
  PROVE  FilesInv'
<1>1. CallsTyped'
  BY FilesParts, CallsTypedGo
<1>2. ASSUME NEW r \in Sector
      PROVE  /\ Openers(r)' \in Nat /\ Deniers(r)' \in Nat
             /\ Refs(inodes', r) = Openers(r)' + Deniers(r)'
             /\ inodes'[r] # None => inodes'[r].deny_write_cnt = Deniers(r)'
  <2>1. Cardinality(CallsOn(r)') = Cardinality(CallsOn(r)) - OnCall(pc[p], call[p], r) + OnCall(l, c, r)
    BY CallsGo DEF FilesInv
  <2>2. lost'[r].plain \in Nat /\ lost'[r].denying \in Nat
    BY NumbersKnown DEF LostTyped
  <2>3. /\ Cardinality(FilesOn(r)') \in Nat /\ Cardinality(CallsOn(r)') \in Nat
        /\ Cardinality(RunningOn(r)') \in Nat /\ Cardinality(CallsOn(r)) \in Nat
    BY FiniteCounts, FS_CardinalityType
  <2>4. OnCall(pc[p], call[p], r) \in {0, 1} /\ OnCall(l, c, r) \in {0, 1}
    BY OnCallIsOne
  <2>5. Openers(r)' = Cardinality(FilesOn(r)') + Cardinality(CallsOn(r)') + lost'[r].plain
    BY DEF Openers
  <2>6. Deniers(r)' = Cardinality(RunningOn(r)') + lost'[r].denying
    BY DEF Deniers
  <2>7. /\ Refs(inodes', r) = Cardinality(FilesOn(r)') + Cardinality(CallsOn(r)) - OnCall(pc[p], call[p], r)
             + OnCall(l, c, r) + Cardinality(RunningOn(r)') + lost'[r].plain + lost'[r].denying
        /\ inodes'[r] # None => inodes'[r].deny_write_cnt = Cardinality(RunningOn(r)') + lost'[r].denying
    BY DEF Balanced
  <2> QED BY <2>1, <2>2, <2>3, <2>4, <2>5, <2>6, <2>7
<1>3. CountsMatch'
  BY <1>2, CountsShow
<1> QED BY <1>1, <1>3, FilesWhole

LEMMA NoCallOK ==
  ASSUME NEW l \in Labels, l \notin WithSector PROVE CallOK(l, NoCall) /\ NoCall \in CallType
<1>1. NoCall \in CallType
  BY NumbersKnown DEF NoCall, CallType
<1> QED BY <1>1 DEF CallOK, WithSector, Created

(* Where inode_close goes on. *)
LEMMA CloseGoes ==
  ASSUME NEW p, NEW t \in Table, NEW s \in Sector, t[s] # None,
         NEW next \in {"user", "exit", "remove_done"}, CloseInode(p, t, s, next)
  PROVE  \E l \in {"release_inode", next}, c \in CallType : Go(p, l, c) /\ CallOK(l, c)
<1> DEFINE c == [NoCall EXCEPT !.sector = s, !.start = t[s].start,
                               !.length = t[s].length, !.next = next]
<1>1. CASE Go(p, "release_inode", c)
  <2>1. t[s].start \in Starts /\ t[s].length \in 0 .. LastSector
    BY DEF Table, Inode, Starts
  <2>2. t[s].start \in 0 .. LastSector + MaxPos
    BY <2>1, NumbersKnown DEF Starts, Sector
  <2>3. c \in CallType
    BY <2>1, <2>2, NumbersKnown DEF NoCall, CallType
  <2> HIDE DEF c
  <2>4. CallOK("release_inode", c)
    BY <2>3 DEF CallOK, Labels, WithSector, Finding, Creating, Created, Counted
  <2> QED BY <1>1, <2>3, <2>4
<1>2. CASE Go(p, next, NoCall)
  <2>1. CallOK(next, NoCall) /\ NoCall \in CallType
    BY NoCallOK DEF Labels, WithSector, Finding, Creating, Created, Counted
  <2> QED BY <1>2, <2>1
<1> QED BY <1>1, <1>2 DEF CloseInode

(* The counts when p closes s in the table t. *)
Closing(t, p, s) ==
  \A r \in Sector :
    /\ Refs(t, r) - One(r = s) =
         Cardinality(FilesOn(r)') + Cardinality(CallsOn(r)) - OnCall(pc[p], call[p], r)
         + Cardinality(RunningOn(r)') + lost'[r].plain + lost'[r].denying
    /\ t[r] # None => t[r].deny_write_cnt = Cardinality(RunningOn(r)') + lost'[r].denying

(* fd_table and file_cur in the state after, whatever the label of p. *)
RowsTyped ==
  /\ fd_table = [p \in Process |-> fd_table[p]] /\ \A p \in Process : RowOK(fd_table[p])
  /\ fd_idx \in [Process -> 2 .. LastFd + 1]
  /\ file_cur \in [Process -> {None} \cup Sector]
EmptyAt(p) == pc[p] = "none" => file_cur[p] = None /\ \A fd \in Fd : fd_table[p][fd] = None

LEMMA RowsTables ==
  ASSUME RowsTyped', \A p \in Process : EmptyAt(p)' PROVE TablesTyped'
BY DEF RowsTyped, EmptyAt, TablesTyped

LEMMA TablesRows == TablesTyped => RowsTyped /\ \A p \in Process : EmptyAt(p)
BY DEF RowsTyped, EmptyAt, TablesTyped

LEMMA CloseInv ==
  ASSUME FilesInv, SemaInv', NEW p \in Process, NEW t \in Table, NEW s \in Sector, t[s] # None,
         NEW next \in {"user", "exit", "remove_done"}, CloseInode(p, t, s, next),
         RowsTyped', \A q \in Process : q # p => fd_table'[q] = fd_table[q] /\ file_cur'[q] = file_cur[q],
         ImageTyped', StoreTyped', LostTyped', Closing(t, p, s)
  PROVE  FilesInv'
<1>1. PICK l \in {"release_inode", next}, c \in CallType : Go(p, l, c) /\ CallOK(l, c)
  BY CloseGoes
<1>2. l \notin Counted /\ l # "none"
  BY DEF Counted
<1>3. inodes' = inode_close(t, s)
  BY DEF CloseInode
<1>4. inodes' \in Table
  BY <1>3, CloseTable
<1>5. Balanced(inodes', p, l, c)
  <2>1. ASSUME NEW r \in Sector
        PROVE  /\ Refs(inodes', r) = Refs(t, r) - One(r = s)
               /\ inodes'[r] # None => t[r] # None /\ inodes'[r].deny_write_cnt = t[r].deny_write_cnt
    BY <1>3, CloseTable
  <2>2. ASSUME NEW r \in Sector
        PROVE  /\ Cardinality(FilesOn(r)') \in Nat /\ Cardinality(CallsOn(r)) \in Nat
               /\ Cardinality(RunningOn(r)') \in Nat /\ OnCall(pc[p], call[p], r) \in {0, 1}
               /\ lost'[r].plain \in Nat /\ lost'[r].denying \in Nat
    <3>1. /\ Cardinality(FilesOn(r)') \in Nat /\ Cardinality(CallsOn(r)) \in Nat
          /\ Cardinality(RunningOn(r)') \in Nat
      <4>1. IsFiniteSet(FilesOn(r)') /\ IsFiniteSet(CallsOn(r)) /\ IsFiniteSet(RunningOn(r)')
        BY FiniteCounts
      <4> QED BY <4>1, FS_CardinalityType
    <3>2. OnCall(pc[p], call[p], r) \in {0, 1}
      BY OnCallIsOne
    <3>3. lost'[r].plain \in Nat /\ lost'[r].denying \in Nat
      BY NumbersKnown DEF LostTyped
    <3> QED BY <3>1, <3>2, <3>3
  <2>3. ASSUME NEW r PROVE OnCall(l, c, r) = 0
    BY <1>2 DEF OnCall, One
  <2> QED BY <2>1, <2>2, <2>3 DEF Closing, Balanced
<1>6. TablesTyped'
  <2>1. pc'[p] = l /\ \A q \in Process : q # p => pc'[q] = pc[q]
    BY <1>1, FilesParts, CallsTypedGo
  <2>2. \A q \in Process : EmptyAt(q)
    BY FilesParts, TablesRows
  <2>3. \A q \in Process : EmptyAt(q)'
    BY <1>2, <2>1, <2>2 DEF EmptyAt
  <2> QED BY <2>3, RowsTables
<1> QED BY <1>1, <1>4, <1>5, <1>6, GoInv

(* The table t of a call that has got the inode of s, and has not yet done *)
(* anything with it.                                                       *)
HasOpened(t, p, s) ==
  /\ t \in Table /\ s \in Sector /\ t[s] # None
  /\ \A r \in Sector :
       /\ Refs(t, r) = Cardinality(FilesOn(r)) + Cardinality(CallsOn(r)) - OnCall(pc[p], call[p], r)
                       + One(r = s) + Cardinality(RunningOn(r)) + lost[r].plain + lost[r].denying
       /\ t[r] # None => t[r].deny_write_cnt = Cardinality(RunningOn(r)) + lost[r].denying

(* What CountsMatch says of r, part by part. *)
CountsAt(r) ==
  /\ Refs(inodes, r) = Cardinality(FilesOn(r)) + Cardinality(CallsOn(r))
                       + Cardinality(RunningOn(r)) + lost[r].plain + lost[r].denying
  /\ inodes[r] # None => inodes[r].deny_write_cnt = Cardinality(RunningOn(r)) + lost[r].denying
  /\ Cardinality(FilesOn(r)) \in Nat /\ Cardinality(CallsOn(r)) \in Nat
  /\ Cardinality(RunningOn(r)) \in Nat /\ lost[r].plain \in Nat /\ lost[r].denying \in Nat
  /\ Refs(inodes, r) \in Nat

LEMMA CountsWritten == ASSUME FilesInv, NEW r \in Sector PROVE CountsAt(r)
<1>1. /\ Cardinality(FilesOn(r)) \in Nat /\ Cardinality(CallsOn(r)) \in Nat
      /\ Cardinality(RunningOn(r)) \in Nat
  BY FiniteCounts, FS_CardinalityType
<1>2. /\ lost[r].plain \in Nat /\ lost[r].denying \in Nat
      /\ Refs(inodes, r) = Openers(r) + Deniers(r)
      /\ inodes[r] # None => inodes[r].deny_write_cnt = Deniers(r)
  BY CountsRead
<1> QED BY <1>1, <1>2 DEF CountsAt, Openers, Deniers

-----------------------------------------------------------------------------
(* The inode of a call becomes a file of the caller, or is closed.         *)

FileOK(f) == f = None \/ (f \in FileType /\ f.pos <= LastSector + MaxPos)

LEMMA RowsSet ==
  ASSUME RowsTyped, NEW p \in Process, NEW fd \in Fd, NEW f, FileOK(f), SetFile(p, fd, f),
         fd_idx' \in [Process -> 2 .. LastFd + 1], file_cur' \in [Process -> {None} \cup Sector]
  PROVE  /\ RowsTyped'
         /\ \A q \in Process : q # p => fd_table'[q] = fd_table[q]
         /\ fd_table'[p][fd] = f /\ \A g \in Fd : g # fd => fd_table'[p][g] = fd_table[p][g]
<1>1. /\ fd_table' = [q \in Process |-> fd_table'[q]]
      /\ \A q \in Process : q # p => fd_table'[q] = fd_table[q]
      /\ fd_table'[p] = [fd_table[p] EXCEPT ![fd] = f]
  BY DEF SetFile, RowsTyped
<1>2. fd_table[p] \in [Fd -> {None} \cup FileType]
  BY DEF RowsTyped, RowOK
<1>3. /\ fd_table'[p] \in [Fd -> {None} \cup FileType]
      /\ fd_table'[p][fd] = f /\ \A g \in Fd : g # fd => fd_table'[p][g] = fd_table[p][g]
  BY <1>1, <1>2 DEF FileOK
<1>4. \A g \in Fd : fd_table'[p][g] # None => fd_table'[p][g].pos <= LastSector + MaxPos
  BY <1>3 DEF FileOK, RowsTyped, RowOK
<1>5. RowOK(fd_table[p])'
  BY <1>3, <1>4 DEF RowOK
<1>6. ASSUME NEW q \in Process PROVE RowOK(fd_table[q])'
  <2>1. CASE q = p
    BY <1>5, <2>1
  <2>2. CASE q # p
    BY <1>1, <2>2 DEF RowsTyped, RowOK
  <2> QED BY <2>1, <2>2
<1>7. RowsTyped'
  BY <1>1, <1>6 DEF RowsTyped
<1> QED BY <1>1, <1>3, <1>7

LEMMA RowsSame ==
  ASSUME RowsTyped, UNCHANGED fd_table,
         fd_idx' \in [Process -> 2 .. LastFd + 1], file_cur' \in [Process -> {None} \cup Sector]
  PROVE  RowsTyped' /\ \A q \in Process : fd_table'[q] = fd_table[q]
BY DEF RowsTyped, RowOK

(* A step of a process that does not end leaves the places for others empty. *)
LEMMA EmptyKept ==
  ASSUME FilesInv, NEW p \in Process, NEW l, NEW c, Go(p, l, c), l # "none",
         \A q \in Process : q # p => fd_table'[q] = fd_table[q] /\ file_cur'[q] = file_cur[q]
  PROVE  \A q \in Process : EmptyAt(q)'
<1>1. pc'[p] = l /\ \A q \in Process : q # p => pc'[q] = pc[q]
  BY DEF Go, FilesInv, FilesTypeOK
<1>2. \A q \in Process : EmptyAt(q)
  BY FilesParts, TablesRows
<1> QED BY <1>1, <1>2 DEF EmptyAt

(* The call has its inode and keeps it as an open call. *)
LEMMA OpenedStays ==
  ASSUME FilesInv, SemaInv', NEW p \in Process, NEW t, HasOpened(t, p, call[p].sector),
         NEW l \in {"load", "remove_erase"}, pc[p] \in Finding, Go(p, l, call[p]), inodes' = t,
         UNCHANGED <<lost, fd_table, fd_idx, file_cur, image, disk, entry, free_map>>
  PROVE  FilesInv'
<1> DEFINE s == call[p].sector
<1>1. CallOK(l, call[p])
  BY FilesParts DEF CallsTyped, CallOK, Labels, Finding, WithSector, Creating, Created
<1>2. TablesTyped'
  <2>1. \A q \in Process : EmptyAt(q)'
    BY EmptyKept
  <2> QED BY <2>1, FilesParts, TablesRows, RowsSame, RowsTables DEF RowsTyped
<1>3. ImageTyped' /\ StoreTyped' /\ LostTyped'
  BY FilesParts DEF ImageTyped, StoreTyped, LostTyped
<1>4. Balanced(inodes', p, l, call[p])
  <2>1. ASSUME NEW r \in Sector
        PROVE  OnCall(l, call[p], r) = One(r = s)
    BY DEF OnCall, Counted, One
  <2>2. ASSUME NEW r PROVE FilesOn(r)' = FilesOn(r) /\ RunningOn(r)' = RunningOn(r)
    BY DEF FilesOn, RunningOn
  <2>3. ASSUME NEW r \in Sector PROVE One(r = s) \in {0, 1}
    BY OneIsNat
  <2> HIDE DEF s
  <2>4. ASSUME NEW r \in Sector
        PROVE  /\ Cardinality(FilesOn(r)) \in Nat /\ Cardinality(CallsOn(r)) \in Nat
               /\ Cardinality(RunningOn(r)) \in Nat /\ lost[r].plain \in Nat /\ lost[r].denying \in Nat
               /\ OnCall(pc[p], call[p], r) \in {0, 1}
    BY CountsWritten, OnCallIsOne DEF CountsAt
  <2> QED BY <2>1, <2>2, <2>3, <2>4 DEF Balanced, HasOpened, s
<1>5. inodes' \in Table
  BY DEF HasOpened
<1> QED BY <1>1, <1>2, <1>3, <1>4, <1>5, GoInv

(* The call has its inode and closes it again. *)
LEMMA OpenedCloses ==
  ASSUME FilesInv, SemaInv', NEW p \in Process, NEW t, NEW s, HasOpened(t, p, s),
         NEW next \in {"user", "exit"}, CloseInode(p, t, s, next),
         fd_idx' \in [Process -> 2 .. LastFd + 1],
         UNCHANGED <<lost, fd_table, file_cur, image, disk, entry, free_map>>
  PROVE  FilesInv'
<1>1. t \in Table /\ s \in Sector /\ t[s] # None
  BY DEF HasOpened
<1>2. RowsTyped' /\ \A q \in Process : fd_table'[q] = fd_table[q]
  BY FilesParts, TablesRows, RowsSame DEF RowsTyped
<1>3. ImageTyped' /\ StoreTyped' /\ LostTyped'
  BY FilesParts DEF ImageTyped, StoreTyped, LostTyped
<1>4. Closing(t, p, s)
  <2>1. ASSUME NEW r PROVE FilesOn(r)' = FilesOn(r) /\ RunningOn(r)' = RunningOn(r)
    BY DEF FilesOn, RunningOn
  <2>2. ASSUME NEW r \in Sector PROVE One(r = s) \in {0, 1}
    BY OneIsNat
  <2>3. ASSUME NEW r \in Sector
        PROVE  /\ Cardinality(FilesOn(r)) \in Nat /\ Cardinality(CallsOn(r)) \in Nat
               /\ Cardinality(RunningOn(r)) \in Nat /\ lost[r].plain \in Nat /\ lost[r].denying \in Nat
               /\ OnCall(pc[p], call[p], r) \in {0, 1}
    BY CountsWritten, OnCallIsOne DEF CountsAt
  <2> QED BY <2>1, <2>2, <2>3 DEF Closing, HasOpened
<1> QED BY <1>1, <1>2, <1>3, <1>4, CloseInv

(* The call has its inode and puts a file on it into a slot. *)
LEMMA OpenedFile ==
  ASSUME FilesInv, SemaInv', NEW p \in Process, NEW t, NEW s, HasOpened(t, p, s),
         NEW fd \in Fd, fd_table[p][fd] = None, SetFile(p, fd, File(s, 0)),
         fd_idx' = [fd_idx EXCEPT ![p] = fd], inodes' = t, Return(p),
         UNCHANGED <<lost, file_cur, image, disk, entry, free_map>>
  PROVE  FilesInv'
<1>1. t \in Table /\ s \in Sector
  BY DEF HasOpened
<1>2. FileOK(File(s, 0)) /\ File(s, 0) # None /\ File(s, 0).inode = s
  <2>1. File(s, 0) \in FileType /\ File(s, 0).inode = s /\ File(s, 0).pos = 0
    BY <1>1 DEF File, FileType
  <2> QED BY <2>1, NoFile, NumbersKnown DEF FileOK
<1>3. fd_idx' \in [Process -> 2 .. LastFd + 1]
  BY FilesParts, NumbersKnown DEF TablesTyped, Fd
<1>4. RowsTyped' /\ \A q \in Process : q # p => fd_table'[q] = fd_table[q]
  BY <1>2, <1>3, FilesParts, TablesRows, RowsSet DEF RowsTyped
<1>5. TablesTyped'
  BY <1>4, EmptyKept, RowsTables DEF Return
<1>6. ImageTyped' /\ StoreTyped' /\ LostTyped'
  BY FilesParts DEF ImageTyped, StoreTyped, LostTyped
<1>7. CallOK("user", NoCall)
  BY NoCallOK DEF Labels, WithSector, Finding, Creating, Created, Counted
<1>8. Balanced(inodes', p, "user", NoCall)
  <2>1. ASSUME NEW r \in Sector
        PROVE  Cardinality(FilesOn(r)') = Cardinality(FilesOn(r)) + One(r = s)
    <3>1. Cardinality(FilesOn(r)') = Cardinality(FilesOn(r)) - OnFile(None, r) + OnFile(File(s, 0), r)
      BY FilesSet DEF FilesInv
    <3>2. OnFile(None, r) = 0 /\ OnFile(File(s, 0), r) = One(r = s)
      BY <1>2 DEF OnFile, One
    <3> QED BY <3>1, <3>2, CountsWritten, OneIsNat DEF CountsAt
  <2>2. ASSUME NEW r PROVE RunningOn(r)' = RunningOn(r) /\ OnCall("user", NoCall, r) = 0
    BY DEF RunningOn, OnCall, Counted, One
  <2>3. ASSUME NEW r \in Sector
        PROVE  /\ Cardinality(FilesOn(r)) \in Nat /\ Cardinality(CallsOn(r)) \in Nat
               /\ Cardinality(RunningOn(r)) \in Nat /\ lost[r].plain \in Nat /\ lost[r].denying \in Nat
               /\ OnCall(pc[p], call[p], r) \in {0, 1} /\ One(r = s) \in {0, 1}
    BY CountsWritten, OnCallIsOne, OneIsNat DEF CountsAt
  <2> QED BY <2>1, <2>2, <2>3 DEF Balanced, HasOpened
<1> QED BY <1>1, <1>5, <1>6, <1>7, <1>8, GoInv DEF Return

LEMMA OpenedInv ==
  ASSUME FilesInv, SemaInv', NEW p \in Process, NEW t, HasOpened(t, p, call[p].sector),
         pc[p] \in Finding, Opened(p, t, call[p].sector),
         UNCHANGED <<lost, file_cur, image, disk, entry, free_map>>
  PROVE  FilesInv'
<1> DEFINE s == call[p].sector
<1>1. CASE OpenFile(p, t, s)
  <2>1. CASE \E fd \in FreeFds(p) : inodes' = t /\ SetFile(p, fd, File(s, 0))
                                    /\ fd_idx' = [fd_idx EXCEPT ![p] = fd] /\ Return(p)
    <3>1. PICK fd \in FreeFds(p) : inodes' = t /\ SetFile(p, fd, File(s, 0))
                                   /\ fd_idx' = [fd_idx EXCEPT ![p] = fd] /\ Return(p)
      BY <2>1
    <3>2. fd \in Fd /\ fd_table[p][fd] = None
      BY DEF FreeFds
    <3> QED BY <3>1, <3>2, OpenedFile
  <2>2. CASE /\ fd_idx' = [fd_idx EXCEPT ![p] = LastFd + 1]
             /\ CloseInode(p, t, s, "user") /\ UNCHANGED fd_table
    <3>1. fd_idx' \in [Process -> 2 .. LastFd + 1]
      <4>1. LastFd + 1 \in 2 .. LastFd + 1 \/ LastFd = 0
        BY NumbersKnown
      <4>2. LastFd # 0
        BY <2>2, FilesParts, NumbersKnown DEF TablesTyped
      <4> QED BY <2>2, <4>1, <4>2, FilesParts DEF TablesTyped
    <3> QED BY <2>2, <3>1, OpenedCloses
  <2>3. CASE CloseInode(p, t, s, "user") /\ UNCHANGED <<fd_table, fd_idx>>
    <3>1. fd_idx' \in [Process -> 2 .. LastFd + 1]
      BY <2>3, FilesParts DEF TablesTyped
    <3> QED BY <2>3, <3>1, OpenedCloses
  <2> QED BY <1>1, <2>1, <2>2, <2>3 DEF OpenFile
<1>2. CASE /\ call[p].next = "exec" /\ UNCHANGED <<fd_table, fd_idx>>
           /\ \/ inodes' = t /\ Go(p, "load", call[p])
              \/ CloseInode(p, t, s, "exit")
  <2>1. fd_idx' \in [Process -> 2 .. LastFd + 1]
    BY <1>2, FilesParts DEF TablesTyped
  <2> QED BY <1>2, <2>1, OpenedStays, OpenedCloses
<1>3. CASE /\ call[p].next = "remove" /\ UNCHANGED <<fd_table, fd_idx>>
           /\ inodes' = t /\ Go(p, "remove_erase", call[p])
  BY <1>3, OpenedStays
<1> QED BY <1>1, <1>2, <1>3 DEF Opened

-----------------------------------------------------------------------------
(* inode_open: a new inode, or another opener of one that is open.         *)

LEMMA OnDiskTyped ==
  ASSUME StoreTyped, NEW s \in Sector PROVE OnDisk(s) \in DiskInode
<1>1. disk[s] \in DiskInode \cup Cell
  BY DEF StoreTyped
<1>2. \A x \in Cell : "length" \notin DOMAIN x
  BY DEF Cell, Data
<1>3. [start |-> 0, length |-> 0] \in DiskInode
  BY NumbersKnown DEF DiskInode
<1> QED BY <1>1, <1>2, <1>3 DEF OnDisk

LEMMA FillTable ==
  ASSUME StoreTyped, NEW t \in Table, NEW s \in Sector, t[s] # None
  PROVE  /\ inode_fill(t, s) \in Table /\ inode_fill(t, s)[s] # None
         /\ inode_fill(t, s)[s].start = OnDisk(s).start
         /\ inode_fill(t, s)[s].length = OnDisk(s).length
         /\ inode_fill(t, s)[s].open_cnt = t[s].open_cnt
         /\ inode_fill(t, s)[s].removed = t[s].removed
         /\ inode_fill(t, s)[s].deny_write_cnt = t[s].deny_write_cnt
         /\ \A r \in Sector : r # s => inode_fill(t, s)[r] = t[r]
         /\ \A r \in Sector : Refs(inode_fill(t, s), r) = Refs(t, r)
<1> DEFINE i == [t[s] EXCEPT !.start = OnDisk(s).start, !.length = OnDisk(s).length]
           u == inode_fill(t, s)
<1>1. t[s] \in Inode
  BY DEF Table
<1>2. OnDisk(s).start \in {0} \cup Sector /\ OnDisk(s).length \in 0 .. LastSector
  BY OnDiskTyped DEF DiskInode
<1>3. /\ i \in Inode /\ i.start = OnDisk(s).start /\ i.length = OnDisk(s).length
      /\ i.open_cnt = t[s].open_cnt /\ i.removed = t[s].removed
      /\ i.deny_write_cnt = t[s].deny_write_cnt
  BY <1>1, <1>2 DEF Inode
<1>4. u = [t EXCEPT ![s] = i]
  BY <1>1 DEF inode_fill, Table, Inode
<1> HIDE DEF i, u
<1>5. u \in Table /\ u[s] = i /\ \A r \in Sector : r # s => u[r] = t[r]
  BY <1>3, <1>4 DEF Table
<1>6. u[s] # None /\ \A r \in Sector : Refs(u, r) = Refs(t, r)
  BY <1>3, <1>5, FieldTable
<1> QED BY <1>3, <1>5, <1>6 DEF u

(* The inode of s has been entered. *)
Entered(u, t, s) ==
  /\ u \in Table /\ u[s] # None
  /\ u[s].open_cnt = 1 /\ u[s].removed = FALSE /\ u[s].deny_write_cnt = 0
  /\ \A r \in Sector : r # s => u[r] = t[r]
  /\ \A r \in Sector : Refs(u, r) = Refs(t, r) + One(r = s)

LEMMA EnterTable ==
  ASSUME NEW t \in Table, NEW s \in Sector, t[s] = None, NEW g \in Garbage
  PROVE  Entered(inode_enter(t, s, g), t, s)
<1> DEFINE i == [start |-> g.start, length |-> g.length,
                 open_cnt |-> 1, removed |-> FALSE, deny_write_cnt |-> 0]
           u == inode_enter(t, s, g)
<1>1. g.start \in {0} \cup Sector /\ g.length \in 0 .. LastSector
  BY FilesysAssumption
<1>2. i \in Inode /\ i.open_cnt = 1 /\ i.removed = FALSE /\ i.deny_write_cnt = 0
  BY <1>1 DEF Inode
<1>3. i # None
  BY <1>2, NoneAssumption
<1>4. u = [t EXCEPT ![s] = i]
  BY DEF inode_enter
<1> HIDE DEF i, u
<1>5. u \in Table /\ u[s] = i /\ \A r \in Sector : r # s => u[r] = t[r]
  BY <1>2, <1>4 DEF Table
<1>6. ASSUME NEW r \in Sector PROVE Refs(u, r) = Refs(t, r) + One(r = s)
  <2>1. CASE r = s
    <3>1. Refs(t, r) = 0 /\ Refs(u, r) = 1 /\ One(r = s) = 1
      BY <1>2, <1>3, <1>5, <2>1 DEF Refs, One
    <3> QED BY <3>1
  <2>2. CASE r # s
    <3>1. Refs(t, r) \in Nat
      BY DEF Refs, Table, Inode
    <3>2. Refs(u, r) = Refs(t, r) /\ One(r = s) = 0
      BY <1>5, <2>2 DEF Refs, One
    <3> QED BY <3>1, <3>2
  <2> QED BY <2>1, <2>2
<1>7. Entered(u, t, s)
  BY <1>2, <1>3, <1>5, <1>6 DEF Entered
<1> QED BY <1>7 DEF u

LEMMA OneEq == ASSUME NEW r, NEW s PROVE One(r = s) \in {0, 1}
BY DEF One

(* An inode that is not open is denied to nobody. *)
LEMMA NothingOn ==
  ASSUME NEW r, CountsAt(r), Refs(inodes, r) = 0
  PROVE  Cardinality(RunningOn(r)) + lost[r].denying = 0
<1> DEFINE a == Cardinality(FilesOn(r))
           b == Cardinality(CallsOn(r))
           c == Cardinality(RunningOn(r))
           d == lost[r].plain
           e == lost[r].denying
<1>1. a \in Nat /\ b \in Nat /\ c \in Nat /\ d \in Nat /\ e \in Nat /\ 0 = a + b + c + d + e
  BY DEF CountsAt
<1> HIDE DEF a, b, c, d, e
<1>2. c + e = 0
  BY <1>1
<1> QED BY <1>2 DEF c, e

LEMMA OpenInodeInv ==
  ASSUME FilesInv, SemaInv', NEW p \in Process, OpenInode(p) PROVE FilesInv'
<1> DEFINE s == call[p].sector
<1>1. pc[p] = "open_inode"
  BY DEF OpenInode, At
<1>2. s \in Sector /\ call[p].next \in {"open", "exec", "remove"} /\ call[p] \in CallType
  BY <1>1, FilesParts DEF CallsTyped, CallOK, WithSector, Finding
<1>3. \A r : OnCall(pc[p], call[p], r) = 0
  BY <1>1 DEF OnCall, Counted, One
<1>4. inodes \in Table
  BY FilesParts
<1>5. UNCHANGED <<lost, file_cur, image, disk, entry, free_map>>
  BY DEF OpenInode
<1>6. CASE inodes[s] # None /\ Opened(p, inode_reopen(inodes, s, 1), s)
  <2> DEFINE t == inode_reopen(inodes, s, 1)
  <2> HIDE DEF s
  <2>1. HasOpened(t, p, s)
    <3>1. /\ t \in Table /\ t[s] # None /\ Refs(t, s) = Refs(inodes, s) + 1
          /\ t[s].deny_write_cnt = inodes[s].deny_write_cnt
          /\ \A r \in Sector : r # s => t[r] = inodes[r]
      BY <1>2, <1>4, <1>6, ReopenTable
    <3> HIDE DEF t
    <3>2. ASSUME NEW r \in Sector
          PROVE  /\ Refs(t, r) = Cardinality(FilesOn(r)) + Cardinality(CallsOn(r)) - OnCall(pc[p], call[p], r)
                       + One(r = s) + Cardinality(RunningOn(r)) + lost[r].plain + lost[r].denying
                 /\ t[r] # None => t[r].deny_write_cnt = Cardinality(RunningOn(r)) + lost[r].denying
      <4>1. Refs(t, r) = Refs(inodes, r) + One(r = s)
        <5>1. Refs(inodes, r) \in Nat
          BY CountsWritten DEF CountsAt
        <5>2. CASE r = s
          BY <3>1, <5>2 DEF One
        <5>3. CASE r # s
          <6>1. Refs(t, r) = Refs(inodes, r) /\ One(r = s) = 0
            BY <3>1, <5>3 DEF Refs, One
          <6> QED BY <5>1, <6>1
        <5> QED BY <5>2, <5>3
      <4>2. t[r] # None => inodes[r] # None /\ t[r].deny_write_cnt = inodes[r].deny_write_cnt
        BY <1>6, <3>1
      <4>3. OnCall(pc[p], call[p], r) = 0 /\ One(r = s) \in {0, 1}
        BY <1>3, OneEq
      <4>4. CountsAt(r)
        BY CountsWritten
      <4> QED BY <4>1, <4>2, <4>3, <4>4 DEF CountsAt
    <3> QED BY <1>2, <3>1, <3>2 DEF HasOpened
  <2> QED BY <1>1, <1>5, <1>6, <2>1, OpenedInv DEF Finding, s
<1>7. CASE /\ inodes[s] = None /\ UNCHANGED <<fd_table, fd_idx>>
           /\ \E g \in Garbage : inodes' = inode_enter(inodes, s, g)
           /\ Go(p, "fill_inode", call[p])
  <2>1. PICK g \in Garbage : inodes' = inode_enter(inodes, s, g)
    BY <1>7
  <2>2. Entered(inodes', inodes, s)
    <3> HIDE DEF s
    <3>1. inodes[s] = None
      BY <1>7
    <3>2. Entered(inode_enter(inodes, s, g), inodes, s)
      BY <1>2, <1>4, <3>1, EnterTable
    <3> QED BY <2>1, <3>2
  <2>3. CallOK("fill_inode", call[p])
    BY <1>1, FilesParts DEF CallsTyped, CallOK, Labels, Finding, WithSector, Creating, Created
  <2>4. TablesTyped'
    <3>1. \A q \in Process : EmptyAt(q)'
      BY <1>5, <1>7, EmptyKept
    <3> QED BY <1>5, <1>7, <3>1, FilesParts, TablesRows, RowsSame, RowsTables DEF RowsTyped
  <2>5. ImageTyped' /\ StoreTyped' /\ LostTyped'
    BY <1>5, FilesParts DEF ImageTyped, StoreTyped, LostTyped
  <2>6. Balanced(inodes', p, "fill_inode", call[p])
    <3>1. ASSUME NEW r PROVE FilesOn(r)' = FilesOn(r) /\ RunningOn(r)' = RunningOn(r)
      BY <1>5, <1>7 DEF FilesOn, RunningOn
    <3>2. ASSUME NEW r PROVE OnCall("fill_inode", call[p], r) = One(r = s)
      BY DEF OnCall, Counted, One
    <3> HIDE DEF s
    <3>3. ASSUME NEW r \in Sector
          PROVE  /\ inodes'[r] # None => inodes'[r].deny_write_cnt = Cardinality(RunningOn(r)) + lost[r].denying
                 /\ Refs(inodes', r) = Cardinality(FilesOn(r)) + Cardinality(CallsOn(r)) - OnCall(pc[p], call[p], r)
                       + One(r = s) + Cardinality(RunningOn(r)) + lost[r].plain + lost[r].denying
      <4>1. inodes'[r] # None => inodes'[r].deny_write_cnt = Cardinality(RunningOn(r)) + lost[r].denying
        <5>1. CASE r # s
          <6>1. inodes'[r] = inodes[r]
            BY <2>2, <5>1 DEF Entered
          <6> QED BY <6>1, CountsWritten DEF CountsAt
        <5>2. CASE r = s
          <6>1. Refs(inodes, r) = 0
            BY <1>7, <5>2 DEF Refs
          <6>2. inodes'[r].deny_write_cnt = 0
            BY <2>2, <5>2 DEF Entered
          <6>3. CountsAt(r)
            BY CountsWritten
          <6> QED BY <6>1, <6>2, <6>3, NothingOn
        <5> QED BY <5>1, <5>2
      <4>2. OnCall(pc[p], call[p], r) = 0 /\ One(r = s) \in {0, 1}
        BY <1>3, OneEq
      <4>3. CountsAt(r)
        BY CountsWritten
      <4> QED BY <2>2, <4>1, <4>2, <4>3 DEF CountsAt, Entered
    <3> QED BY <1>5, <3>1, <3>2, <3>3 DEF Balanced
  <2>7. inodes' \in Table
    BY <2>2 DEF Entered
  <2> QED BY <1>7, <2>3, <2>4, <2>5, <2>6, <2>7, GoInv
<1>8. CASE Go(p, Without(call[p].next), NoCall) /\ UNCHANGED <<inodes, fd_table, fd_idx>>
  <2> DEFINE l == Without(call[p].next)
  <2>1. l \in {"remove_done", "exit", "user"}
    BY DEF Without
  <2> HIDE DEF l
  <2>2. CallOK(l, NoCall) /\ l \notin Counted /\ l # "none"
    BY <2>1, NoCallOK DEF Labels, WithSector, Finding, Creating, Created, Counted
  <2>3. StoreTyped' /\ ImageTyped'
    BY <1>5, FilesParts DEF StoreTyped, ImageTyped
  <2>4. pc[p] \notin Counted
    BY <1>1 DEF Counted
  <2> QED BY <1>5, <1>8, <2>2, <2>3, <2>4, QuietInv DEF l
<1> QED BY <1>6, <1>7, <1>8 DEF OpenInode

LEMMA FillInodeInv ==
  ASSUME FilesInv, SemaInv', NEW p \in Process, FillInode(p) PROVE FilesInv'
<1> DEFINE s == call[p].sector
           t == inode_fill(inodes, s)
<1>1. pc[p] = "fill_inode" /\ Opened(p, t, s)
      /\ UNCHANGED <<lost, file_cur, image, disk, entry, free_map>>
  BY DEF FillInode, At
<1>2. s \in Sector /\ inodes[s] # None
  BY <1>1, PointedAtOpen DEF Counted
<1>3. \A r : OnCall(pc[p], call[p], r) = One(r = s)
  BY <1>1 DEF OnCall, Counted, One
<1>4. HasOpened(t, p, s)
  <2> HIDE DEF s
  <2>1. /\ t \in Table /\ t[s] # None /\ t[s].deny_write_cnt = inodes[s].deny_write_cnt
        /\ \A r \in Sector : r # s => t[r] = inodes[r]
        /\ \A r \in Sector : Refs(t, r) = Refs(inodes, r)
    BY <1>2, FilesParts, FillTable
  <2> HIDE DEF t
  <2>2. ASSUME NEW r \in Sector
        PROVE  /\ Refs(t, r) = Cardinality(FilesOn(r)) + Cardinality(CallsOn(r)) - OnCall(pc[p], call[p], r)
                     + One(r = s) + Cardinality(RunningOn(r)) + lost[r].plain + lost[r].denying
               /\ t[r] # None => t[r].deny_write_cnt = Cardinality(RunningOn(r)) + lost[r].denying
    <3>1. t[r] # None => inodes[r] # None /\ t[r].deny_write_cnt = inodes[r].deny_write_cnt
      BY <1>2, <2>1
    <3>2. OnCall(pc[p], call[p], r) = One(r = s) /\ One(r = s) \in {0, 1}
      BY <1>3, OneEq
    <3>3. CountsAt(r)
      BY CountsWritten
    <3> QED BY <2>1, <3>1, <3>2, <3>3 DEF CountsAt
  <2> QED BY <1>2, <2>1, <2>2 DEF HasOpened
<1> HIDE DEF t
<1> QED BY <1>1, <1>4, OpenedInv DEF Finding

-----------------------------------------------------------------------------
(* Closing a descriptor, removing a file, and the end of a process.        *)

(* A file is taken from its slot and closed. *)
LEMMA SlotCloses ==
  ASSUME FilesInv, SemaInv', NEW p \in Process, NEW fd \in Fd, fd_table[p][fd] # None,
         pc[p] \notin Counted, SetFile(p, fd, None), NEW next \in {"user", "exit"},
         CloseInode(p, inodes, fd_table[p][fd].inode, next),
         UNCHANGED <<disk, entry, free_map, lost, fd_idx, file_cur, image>>
  PROVE  FilesInv'
<1> DEFINE s == fd_table[p][fd].inode
<1>1. s \in Sector /\ inodes[s] # None /\ inodes \in Table
  BY PointedAtOpen, FilesParts
<1>2. RowsTyped' /\ \A q \in Process : q # p => fd_table'[q] = fd_table[q]
  <2>1. FileOK(None)
    BY DEF FileOK
  <2>2. fd_idx' \in [Process -> 2 .. LastFd + 1] /\ file_cur' \in [Process -> {None} \cup Sector]
    BY FilesParts DEF TablesTyped
  <2> QED BY <2>1, <2>2, FilesParts, TablesRows, RowsSet
<1>3. ImageTyped' /\ StoreTyped' /\ LostTyped'
  BY FilesParts DEF ImageTyped, StoreTyped, LostTyped
<1>4. Closing(inodes, p, s)
  <2>1. ASSUME NEW r \in Sector
        PROVE  Cardinality(FilesOn(r)') = Cardinality(FilesOn(r)) - One(r = s)
    <3>1. Cardinality(FilesOn(r)') = Cardinality(FilesOn(r)) - OnFile(fd_table[p][fd], r) + OnFile(None, r)
      BY FilesSet DEF FilesInv
    <3>2. OnFile(None, r) = 0 /\ OnFile(fd_table[p][fd], r) = One(r = s)
      BY DEF OnFile, One
    <3>3. CountsAt(r) /\ One(r = s) \in {0, 1}
      BY CountsWritten, OneEq
    <3> QED BY <3>1, <3>2, <3>3 DEF CountsAt
  <2>2. ASSUME NEW r PROVE RunningOn(r)' = RunningOn(r) /\ OnCall(pc[p], call[p], r) = 0
    BY DEF RunningOn, OnCall, One
  <2>3. ASSUME NEW r \in Sector PROVE CountsAt(r) /\ One(r = s) \in {0, 1}
    BY CountsWritten, OneEq
  <2> HIDE DEF s
  <2> QED BY <2>1, <2>2, <2>3 DEF Closing, CountsAt
<1> HIDE DEF s
<1>5. CloseInode(p, inodes, s, next) /\ UNCHANGED file_cur
  BY DEF s
<1> QED BY <1>1, <1>2, <1>3, <1>4, <1>5, CloseInv

LEMMA CloseFdInv ==
  ASSUME FilesInv, SemaInv', NEW p \in Process, NEW fd \in Fd, Close(p, fd) PROVE FilesInv'
<1>1. pc[p] \notin Counted /\ fd_table[p][fd] # None
  BY DEF Close, At, Counted
<1> QED BY <1>1, SlotCloses DEF Close

LEMMA RemoveTable ==
  ASSUME NEW t \in Table, NEW s \in Sector, t[s] # None
  PROVE  /\ inode_remove(t, s) \in Table /\ inode_remove(t, s)[s] # None
         /\ inode_remove(t, s)[s].deny_write_cnt = t[s].deny_write_cnt
         /\ \A r \in Sector : r # s => inode_remove(t, s)[r] = t[r]
         /\ \A r \in Sector : Refs(inode_remove(t, s), r) = Refs(t, r)
<1> DEFINE i == [t[s] EXCEPT !.removed = TRUE]
           u == inode_remove(t, s)
<1>1. t[s] \in Inode
  BY DEF Table
<1>2. i \in Inode /\ i.open_cnt = t[s].open_cnt /\ i.deny_write_cnt = t[s].deny_write_cnt
  BY <1>1 DEF Inode
<1>3. u = [t EXCEPT ![s] = i]
  BY DEF inode_remove
<1> HIDE DEF i, u
<1>4. u \in Table /\ u[s] = i /\ \A r \in Sector : r # s => u[r] = t[r]
  BY <1>2, <1>3 DEF Table
<1>5. u[s] # None /\ \A r \in Sector : Refs(u, r) = Refs(t, r)
  BY <1>2, <1>4, FieldTable
<1> QED BY <1>2, <1>4, <1>5 DEF u

LEMMA DenyTable ==
  ASSUME NEW t \in Table, NEW s \in Sector, t[s] # None
  PROVE  /\ inode_deny_write(t, s) \in Table /\ inode_deny_write(t, s)[s] # None
         /\ inode_deny_write(t, s)[s].deny_write_cnt = t[s].deny_write_cnt + 1
         /\ \A r \in Sector : r # s => inode_deny_write(t, s)[r] = t[r]
         /\ \A r \in Sector : Refs(inode_deny_write(t, s), r) = Refs(t, r)
<1> DEFINE i == [t[s] EXCEPT !.deny_write_cnt = @ + 1]
           u == inode_deny_write(t, s)
<1>1. t[s] \in Inode
  BY DEF Table
<1>2. i \in Inode /\ i.open_cnt = t[s].open_cnt /\ i.deny_write_cnt = t[s].deny_write_cnt + 1
  BY <1>1 DEF Inode
<1>3. u = [t EXCEPT ![s] = i]
  BY DEF inode_deny_write
<1> HIDE DEF i, u
<1>4. u \in Table /\ u[s] = i /\ \A r \in Sector : r # s => u[r] = t[r]
  BY <1>2, <1>3 DEF Table
<1>5. u[s] # None /\ \A r \in Sector : Refs(u, r) = Refs(t, r)
  BY <1>2, <1>4, FieldTable
<1> QED BY <1>2, <1>4, <1>5 DEF u

LEMMA AllowTable ==
  ASSUME NEW t \in Table, NEW s \in Sector, t[s] # None, t[s].deny_write_cnt > 0
  PROVE  /\ inode_allow_write(t, s) \in Table /\ inode_allow_write(t, s)[s] # None
         /\ inode_allow_write(t, s)[s].deny_write_cnt = t[s].deny_write_cnt - 1
         /\ \A r \in Sector : r # s => inode_allow_write(t, s)[r] = t[r]
         /\ \A r \in Sector : Refs(inode_allow_write(t, s), r) = Refs(t, r)
<1> DEFINE i == [t[s] EXCEPT !.deny_write_cnt = @ - 1]
           u == inode_allow_write(t, s)
<1>1. t[s] \in Inode /\ t[s].deny_write_cnt \in Nat
  BY DEF Table, Inode
<1>2. i \in Inode /\ i.open_cnt = t[s].open_cnt /\ i.deny_write_cnt = t[s].deny_write_cnt - 1
  BY <1>1 DEF Inode
<1>3. u = [t EXCEPT ![s] = i]
  BY DEF inode_allow_write
<1> HIDE DEF i, u
<1>4. u \in Table /\ u[s] = i /\ \A r \in Sector : r # s => u[r] = t[r]
  BY <1>2, <1>3 DEF Table
<1>5. u[s] # None /\ \A r \in Sector : Refs(u, r) = Refs(t, r)
  BY <1>2, <1>4, FieldTable
<1> QED BY <1>2, <1>4, <1>5 DEF u

LEMMA RemoveEraseInv ==
  ASSUME FilesInv, SemaInv', NEW p \in Process, RemoveErase(p) PROVE FilesInv'
<1> DEFINE s == call[p].sector
<1>1. pc[p] = "remove_erase" /\ UNCHANGED <<disk, free_map, lost, fd_table, fd_idx, file_cur, image>>
  BY DEF RemoveErase, At, procVars
<1>2. s \in Sector /\ inodes[s] # None /\ inodes \in Table
  BY <1>1, PointedAtOpen, FilesParts DEF Counted
<1>3. PICK t \in {inodes, inode_remove(inodes, s)} : CloseInode(p, t, s, "remove_done")
  BY DEF RemoveErase
<1> HIDE DEF s
<1>4. /\ t \in Table /\ t[s] # None
      /\ \A r \in Sector : Refs(t, r) = Refs(inodes, r)
      /\ \A r \in Sector : t[r] # None => inodes[r] # None /\ t[r].deny_write_cnt = inodes[r].deny_write_cnt
  <2>1. CASE t = inodes
    BY <1>2, <2>1
  <2>2. CASE t = inode_remove(inodes, s)
    BY <1>2, <2>2, RemoveTable
  <2> QED BY <1>3, <2>1, <2>2
<1>5. RowsTyped' /\ \A q \in Process : fd_table'[q] = fd_table[q]
  BY <1>1, FilesParts, TablesRows, RowsSame DEF RowsTyped
<1>6. entry' = entry \/ entry' = [entry EXCEPT ![call[p].fd] = None]
  BY DEF RemoveErase
<1>7. ImageTyped' /\ StoreTyped' /\ LostTyped'
  <2>1. entry' \in [Slot -> {None} \cup (Name \X Sector)]
    BY <1>6, FilesParts DEF StoreTyped
  <2> QED BY <1>1, <2>1, FilesParts DEF ImageTyped, StoreTyped, LostTyped
<1>8. Closing(t, p, s)
  <2>1. ASSUME NEW r PROVE /\ FilesOn(r)' = FilesOn(r) /\ RunningOn(r)' = RunningOn(r)
                           /\ OnCall(pc[p], call[p], r) = One(r = s)
    BY <1>1 DEF FilesOn, RunningOn, OnCall, Counted, One, s
  <2>2. ASSUME NEW r \in Sector PROVE CountsAt(r) /\ One(r = s) \in {0, 1}
    BY CountsWritten, OneEq
  <2> QED BY <1>1, <1>4, <2>1, <2>2 DEF Closing, CountsAt
<1> QED BY <1>1, <1>2, <1>3, <1>4, <1>5, <1>7, <1>8, CloseInv

LEMMA ExitFileInv ==
  ASSUME FilesInv, SemaInv', NEW p \in Process, ExitFile(p) PROVE FilesInv'
<1> DEFINE open == {fd \in Fd : fd_table[p][fd] # None}
           s == file_cur[p]
           t == inode_allow_write(inodes, s)
<1>1. pc[p] = "exit" /\ UNCHANGED <<disk, entry, free_map, lost, fd_idx, image>>
  BY DEF ExitFile, At
<1>2. CASE /\ s # None /\ CloseInode(p, t, s, "exit")
           /\ file_cur' = [file_cur EXCEPT ![p] = None] /\ UNCHANGED fd_table
  <2>1. s \in Sector /\ inodes[s] # None /\ inodes[s].deny_write_cnt > 0 /\ inodes \in Table
    BY <1>2, PointedAtOpen, FilesParts
  <2>2. /\ t \in Table /\ t[s] # None
        /\ t[s].deny_write_cnt = inodes[s].deny_write_cnt - 1
        /\ \A r \in Sector : r # s => t[r] = inodes[r]
        /\ \A r \in Sector : Refs(t, r) = Refs(inodes, r)
    <3> HIDE DEF s
    <3> QED BY <2>1, AllowTable
  <2>3. RowsTyped' /\ \A q \in Process : fd_table'[q] = fd_table[q]
    <3>1. file_cur' \in [Process -> {None} \cup Sector]
      BY <1>2, FilesParts DEF TablesTyped
    <3> QED BY <1>1, <1>2, <3>1, FilesParts, TablesRows, RowsSame DEF RowsTyped
  <2>4. ImageTyped' /\ StoreTyped' /\ LostTyped'
    BY <1>1, FilesParts DEF ImageTyped, StoreTyped, LostTyped
  <2>5. Closing(t, p, s)
    <3>1. ASSUME NEW r \in Sector
          PROVE  Cardinality(RunningOn(r)') = Cardinality(RunningOn(r)) - One(r = s)
      <4>1. Cardinality(RunningOn(r)') = Cardinality(RunningOn(r)) - One(file_cur[p] = r) + One(None = r)
        <5>1. SetCur(p, None)
          BY <1>2 DEF SetCur
        <5> QED BY <5>1, RunningSet DEF FilesInv
      <4>2. One(None = r) = 0 /\ One(file_cur[p] = r) = One(r = s)
        <5>1. None # r
          BY NoneAssumption
        <5>2. (file_cur[p] = r) <=> (r = s)
          OBVIOUS
        <5> QED BY <5>1, <5>2 DEF One
      <4>3. CountsAt(r) /\ One(r = s) \in {0, 1}
        BY CountsWritten, OneEq
      <4> QED BY <4>1, <4>2, <4>3 DEF CountsAt
    <3>2. ASSUME NEW r PROVE FilesOn(r)' = FilesOn(r) /\ OnCall(pc[p], call[p], r) = 0
      BY <1>1, <1>2 DEF FilesOn, OnCall, Counted, One
    <3>3. ASSUME NEW r \in Sector PROVE CountsAt(r) /\ One(r = s) \in {0, 1}
      BY CountsWritten, OneEq
    <3> HIDE DEF s, t
    <3>4. ASSUME NEW r \in Sector
          PROVE  Refs(t, r) - One(r = s) =
                   Cardinality(FilesOn(r)') + Cardinality(CallsOn(r)) - OnCall(pc[p], call[p], r)
                   + Cardinality(RunningOn(r)') + lost'[r].plain + lost'[r].denying
      BY <1>1, <2>2, <3>1, <3>2, <3>3 DEF CountsAt
    <3>5. ASSUME NEW r \in Sector, t[r] # None
          PROVE  t[r].deny_write_cnt = Cardinality(RunningOn(r)') + lost'[r].denying
      <4>1. CASE r = s
        <5>1. One(r = s) = 1
          BY <4>1 DEF One
        <5>2. t[r].deny_write_cnt = inodes[r].deny_write_cnt - 1 /\ inodes[r] # None
          BY <2>1, <2>2, <4>1
        <5>3. inodes[r].deny_write_cnt = Cardinality(RunningOn(r)) + lost[r].denying
          BY <3>3, <5>2 DEF CountsAt
        <5>4. Cardinality(RunningOn(r)) \in Nat /\ lost[r].denying \in Nat
          BY <3>3 DEF CountsAt
        <5>5. lost'[r].denying = lost[r].denying
          BY <1>1
        <5> QED BY <3>1, <5>1, <5>2, <5>3, <5>4, <5>5
      <4>2. CASE r # s
        <5>1. One(r = s) = 0
          BY <4>2 DEF One
        <5>2. t[r] = inodes[r]
          BY <2>2, <4>2
        <5> QED BY <1>1, <3>1, <3>3, <3>5, <5>1, <5>2 DEF CountsAt
      <4> QED BY <4>1, <4>2
    <3> QED BY <3>4, <3>5 DEF Closing
  <2>6. \A q \in Process : q # p => file_cur'[q] = file_cur[q]
    BY <1>2, FilesParts DEF TablesTyped
  <2>7. CloseInode(p, t, s, "exit")
    BY <1>2
  <2> HIDE DEF s, t
  <2> QED BY <2>1, <2>2, <2>3, <2>4, <2>5, <2>6, <2>7, CloseInv
<1>3. CASE /\ open # {} /\ CloseInode(p, inodes, fd_table[p][Min(open)].inode, "exit")
           /\ SetFile(p, Min(open), None) /\ UNCHANGED file_cur
  <2> DEFINE fd == Min(open)
  <2>1. fd \in open
    <3>1. open \in SUBSET Nat
      BY NumbersKnown
    <3> HIDE DEF open
    <3> QED BY <1>3, <3>1, MinIsLeast
  <2>2. fd \in Fd /\ fd_table[p][fd] # None /\ pc[p] \notin Counted
    BY <1>1, <2>1 DEF Counted
  <2> HIDE DEF fd
  <2>3. SetFile(p, fd, None) /\ CloseInode(p, inodes, fd_table[p][fd].inode, "exit") /\ UNCHANGED file_cur
    BY <1>3 DEF fd
  <2> QED BY <1>1, <2>2, <2>3, SlotCloses
<1> QED BY <1>2, <1>3 DEF ExitFile

-----------------------------------------------------------------------------
(* load: the counts move to the program that now runs.                     *)

LEMMA LosePlain ==
  ASSUME LostTyped, NEW s \in Sector, Lose("plain", s)
  PROVE  /\ LostTyped'
         /\ \A r \in Sector : lost'[r].plain = lost[r].plain + One(r = s) /\ lost'[r].denying = lost[r].denying
<1>1. /\ lost[s].plain \in Nat /\ lost[s].denying \in Nat
      /\ lost[s].plain <= MaxLost /\ lost[s].denying <= MaxLost
      /\ lost[s].plain + lost[s].denying < MaxLost
  BY NumbersKnown DEF LostTyped, Lose
<1>2. /\ \A r \in Sector : r # s => lost'[r] = lost[r]
      /\ lost'[s].plain = lost[s].plain + 1 /\ lost'[s].denying = lost[s].denying
      /\ lost' = [r \in Sector |-> lost'[r]] /\ lost'[s] = [plain |-> lost'[s].plain, denying |-> lost'[s].denying]
  BY DEF LostTyped, Lose
<1>3. lost'[s].plain \in 0 .. MaxLost /\ lost'[s].denying \in 0 .. MaxLost
  BY <1>1, <1>2, NumbersKnown
<1>4. LostTyped'
  BY <1>2, <1>3 DEF LostTyped
<1>5. ASSUME NEW r \in Sector
      PROVE  lost'[r].plain = lost[r].plain + One(r = s) /\ lost'[r].denying = lost[r].denying
  <2>1. lost[r].plain \in Nat
    BY NumbersKnown DEF LostTyped
  <2> QED BY <1>2, <2>1 DEF One
<1> QED BY <1>4, <1>5

LEMMA LoseDenying ==
  ASSUME LostTyped, NEW s \in Sector, Lose("denying", s)
  PROVE  /\ LostTyped'
         /\ \A r \in Sector : lost'[r].denying = lost[r].denying + One(r = s) /\ lost'[r].plain = lost[r].plain
<1>1. /\ lost[s].plain \in Nat /\ lost[s].denying \in Nat
      /\ lost[s].plain <= MaxLost /\ lost[s].denying <= MaxLost
      /\ lost[s].plain + lost[s].denying < MaxLost
  BY NumbersKnown DEF LostTyped, Lose
<1>2. /\ \A r \in Sector : r # s => lost'[r] = lost[r]
      /\ lost'[s].denying = lost[s].denying + 1 /\ lost'[s].plain = lost[s].plain
      /\ lost' = [r \in Sector |-> lost'[r]] /\ lost'[s] = [plain |-> lost'[s].plain, denying |-> lost'[s].denying]
  BY DEF LostTyped, Lose
<1>3. lost'[s].plain \in 0 .. MaxLost /\ lost'[s].denying \in 0 .. MaxLost
  BY <1>1, <1>2, NumbersKnown
<1>4. LostTyped'
  BY <1>2, <1>3 DEF LostTyped
<1>5. ASSUME NEW r \in Sector
      PROVE  lost'[r].denying = lost[r].denying + One(r = s) /\ lost'[r].plain = lost[r].plain
  <2>1. lost[r].denying \in Nat
    BY NumbersKnown DEF LostTyped
  <2> QED BY <1>2, <2>1 DEF One
<1> QED BY <1>4, <1>5

(* The file load has open becomes the program's, and the old one is lost. *)
LEMMA LoadDone ==
  ASSUME FilesInv, SemaInv', NEW p \in Process, pc[p] = "load", NEW s, s = call[p].sector,
         inodes' = inode_deny_write(inodes, s), SetCur(p, s), image' = [image EXCEPT ![p] = s],
         IF file_cur[p] = None THEN UNCHANGED lost ELSE Lose("denying", file_cur[p]),
         Return(p), UNCHANGED <<disk, entry, free_map, fd_table, fd_idx>>
  PROVE  FilesInv'
<1> DEFINE old == file_cur[p]
<1>1. s \in Sector /\ inodes[s] # None /\ inodes \in Table
  BY PointedAtOpen, FilesParts DEF Counted
<1>2. /\ inodes' \in Table
      /\ inodes'[s].deny_write_cnt = inodes[s].deny_write_cnt + 1
      /\ \A r \in Sector : r # s => inodes'[r] = inodes[r]
      /\ \A r \in Sector : Refs(inodes', r) = Refs(inodes, r)
  BY <1>1, DenyTable
<1>3. /\ LostTyped'
      /\ \A r \in Sector : lost'[r].denying = lost[r].denying + One(old = r) /\ lost'[r].plain = lost[r].plain
  <2>1. CASE old = None
    <3>1. ASSUME NEW r \in Sector PROVE One(old = r) = 0 /\ lost[r].denying \in Nat
      BY <2>1, NoneAssumption, FilesParts, NumbersKnown DEF One, LostTyped
    <3> QED BY <2>1, <3>1, FilesParts DEF LostTyped
  <2>2. CASE old # None
    <3>1. old \in Sector
      BY <2>2, FilesParts DEF TablesTyped
    <3> HIDE DEF old
    <3>2. Lose("denying", old)
      BY <2>2 DEF old
    <3>3. ASSUME NEW r PROVE One(r = old) = One(old = r)
      BY DEF One
    <3> QED BY <3>1, <3>2, <3>3, LoseDenying, FilesParts
  <2> QED BY <2>1, <2>2
<1>4. TablesTyped'
  <2>1. file_cur' \in [Process -> {None} \cup Sector] /\ \A q \in Process : q # p => file_cur'[q] = file_cur[q]
    BY <1>1, FilesParts DEF TablesTyped, SetCur
  <2>2. RowsTyped' /\ \A q \in Process : fd_table'[q] = fd_table[q]
    BY <2>1, FilesParts, TablesRows, RowsSame DEF RowsTyped
  <2> QED BY <2>1, <2>2, EmptyKept, RowsTables DEF Return
<1>5. ImageTyped' /\ StoreTyped'
  BY <1>1, FilesParts DEF ImageTyped, StoreTyped
<1>6. CallOK("user", NoCall)
  BY NoCallOK DEF Labels, WithSector, Finding, Creating, Created, Counted
<1>7. Balanced(inodes', p, "user", NoCall)
  <2>1. ASSUME NEW r
        PROVE  /\ FilesOn(r)' = FilesOn(r) /\ OnCall("user", NoCall, r) = 0
               /\ OnCall(pc[p], call[p], r) = One(s = r)
    BY DEF FilesOn, OnCall, Counted, One
  <2>2. ASSUME NEW r \in Sector
        PROVE  Cardinality(RunningOn(r)') = Cardinality(RunningOn(r)) - One(old = r) + One(s = r)
    BY RunningSet DEF FilesInv
  <2>3. ASSUME NEW r \in Sector PROVE CountsAt(r) /\ One(old = r) \in {0, 1} /\ One(s = r) \in {0, 1}
    BY CountsWritten, OneEq
  <2> HIDE DEF old
  <2>4. ASSUME NEW r \in Sector
        PROVE  Refs(inodes', r) = Cardinality(FilesOn(r)') + Cardinality(CallsOn(r)) - OnCall(pc[p], call[p], r)
                 + OnCall("user", NoCall, r) + Cardinality(RunningOn(r)') + lost'[r].plain + lost'[r].denying
    <3>1. lost'[r].plain = lost[r].plain /\ lost[r].denying \in Nat /\ Cardinality(RunningOn(r)) \in Nat
      BY <1>3, <2>3 DEF CountsAt
    <3>2. /\ One(old = r) \in {0, 1} /\ One(s = r) \in {0, 1}
          /\ Cardinality(RunningOn(r)') = Cardinality(RunningOn(r)) - One(old = r) + One(s = r)
          /\ lost'[r].denying = lost[r].denying + One(old = r)
      BY <1>3, <2>2, <2>3
    <3>3. Refs(inodes', r) = Cardinality(FilesOn(r)) + Cardinality(CallsOn(r))
                             + Cardinality(RunningOn(r)) + lost[r].plain + lost[r].denying
      BY <1>2, <2>3 DEF CountsAt
    <3>4. Cardinality(FilesOn(r)) \in Nat /\ Cardinality(CallsOn(r)) \in Nat /\ lost[r].plain \in Nat
      BY <2>3 DEF CountsAt
    <3> QED BY <2>1, <3>1, <3>2, <3>3, <3>4
  <2>5. ASSUME NEW r \in Sector, inodes'[r] # None
        PROVE  inodes'[r].deny_write_cnt = Cardinality(RunningOn(r)') + lost'[r].denying
    <3>1. inodes[r] # None /\ inodes'[r].deny_write_cnt = inodes[r].deny_write_cnt + One(s = r)
      <4>1. inodes[r] # None
        BY <1>1, <1>2, <2>5
      <4>2. inodes[r].deny_write_cnt \in Nat
        BY <1>1, <4>1 DEF Table, Inode
      <4> QED BY <1>2, <4>1, <4>2 DEF One
    <3>2. inodes[r].deny_write_cnt = Cardinality(RunningOn(r)) + lost[r].denying
      BY <2>3, <3>1 DEF CountsAt
    <3>3. Cardinality(RunningOn(r)) \in Nat /\ lost[r].denying \in Nat
      BY <2>3 DEF CountsAt
    <3>4. One(old = r) \in {0, 1} /\ One(s = r) \in {0, 1}
      BY <2>3
    <3>5. /\ Cardinality(RunningOn(r)') = Cardinality(RunningOn(r)) - One(old = r) + One(s = r)
          /\ lost'[r].denying = lost[r].denying + One(old = r)
      BY <1>3, <2>2
    <3> QED BY <3>1, <3>2, <3>3, <3>4, <3>5
  <2> QED BY <2>4, <2>5 DEF Balanced
<1> QED BY <1>2, <1>3, <1>4, <1>5, <1>6, <1>7, GoInv DEF Return

LEMMA LoadFails ==
  ASSUME FilesInv, SemaInv', NEW p \in Process, pc[p] = "load", Lose("plain", call[p].sector),
         call_exit(p), UNCHANGED <<inodes, file_cur, image, disk, entry, free_map, fd_table, fd_idx>>
  PROVE  FilesInv'
<1> DEFINE s == call[p].sector
<1>1. s \in Sector /\ inodes \in Table
  BY PointedAtOpen, FilesParts DEF Counted
<1>2. /\ LostTyped'
      /\ \A r \in Sector : lost'[r].plain = lost[r].plain + One(r = s) /\ lost'[r].denying = lost[r].denying
  <2> HIDE DEF s
  <2>1. Lose("plain", s)
    BY DEF s
  <2> QED BY <1>1, <2>1, LosePlain, FilesParts
<1>3. TablesTyped'
  <2>1. RowsTyped' /\ \A q \in Process : fd_table'[q] = fd_table[q]
    BY FilesParts, TablesRows, RowsSame DEF RowsTyped
  <2> QED BY <2>1, EmptyKept, RowsTables DEF call_exit
<1>4. ImageTyped' /\ StoreTyped' /\ inodes' \in Table
  BY <1>1, FilesParts DEF ImageTyped, StoreTyped
<1>5. CallOK("exit", NoCall)
  BY NoCallOK DEF Labels, WithSector, Finding, Creating, Created, Counted
<1>6. Balanced(inodes', p, "exit", NoCall)
  <2>1. ASSUME NEW r
        PROVE  /\ FilesOn(r)' = FilesOn(r) /\ RunningOn(r)' = RunningOn(r) /\ OnCall("exit", NoCall, r) = 0
               /\ OnCall(pc[p], call[p], r) = One(r = s)
    BY DEF FilesOn, RunningOn, OnCall, Counted, One
  <2>2. ASSUME NEW r \in Sector PROVE CountsAt(r) /\ One(r = s) \in {0, 1}
    BY CountsWritten, OneEq
  <2> HIDE DEF s
  <2>3. ASSUME NEW r \in Sector
        PROVE  Refs(inodes', r) = Cardinality(FilesOn(r)') + Cardinality(CallsOn(r)) - OnCall(pc[p], call[p], r)
                 + OnCall("exit", NoCall, r) + Cardinality(RunningOn(r)') + lost'[r].plain + lost'[r].denying
    BY <1>2, <2>1, <2>2 DEF CountsAt
  <2>4. ASSUME NEW r \in Sector, inodes'[r] # None
        PROVE  inodes'[r].deny_write_cnt = Cardinality(RunningOn(r)') + lost'[r].denying
    BY <1>2, <2>1, <2>2, <2>4 DEF CountsAt
  <2> QED BY <2>3, <2>4 DEF Balanced
<1> QED BY <1>2, <1>3, <1>4, <1>5, <1>6, GoInv DEF call_exit

LEMMA LoadInv ==
  ASSUME FilesInv, SemaInv', NEW p \in Process, Load(p) PROVE FilesInv'
<1>1. pc[p] = "load" /\ UNCHANGED <<disk, entry, free_map, fd_table, fd_idx>>
  BY DEF Load, At
<1>2. CASE UNCHANGED <<inodes, file_cur, image>> /\ Lose("plain", call[p].sector) /\ call_exit(p)
  BY <1>1, <1>2, LoadFails
<1>3. CASE ~(UNCHANGED <<inodes, file_cur, image>> /\ Lose("plain", call[p].sector) /\ call_exit(p))
  <2> DEFINE s == call[p].sector
  <2>1. /\ inodes' = inode_deny_write(inodes, s) /\ SetCur(p, s) /\ image' = [image EXCEPT ![p] = s]
        /\ IF file_cur[p] = None THEN UNCHANGED lost ELSE Lose("denying", file_cur[p])
        /\ Return(p)
    BY <1>3 DEF Load, SetCur
  <2> QED BY <1>1, <2>1, LoadDone
<1> QED BY <1>2, <1>3

-----------------------------------------------------------------------------
(* fork, the end of exit, and the machine: start and power off.            *)

(* The descriptors among fds that the parent p has on r. *)
Dup(p, fds, r) == {fd \in fds : fd_table[p][fd].inode = r}
ChildTable(p, c, fds) ==
  fd_table' = [fd_table EXCEPT ![c] = [fd \in Fd |-> IF fd \in fds THEN fd_table[p][fd] ELSE None]]

LEMMA DupCount ==
  ASSUME NEW p, NEW fds \in SUBSET Fd, NEW r
  PROVE  IsFiniteSet(Dup(p, fds, r)) /\ Cardinality(Dup(p, fds, r)) \in Nat
<1>1. Dup(p, fds, r) \subseteq Fd
  BY DEF Dup
<1> QED BY <1>1, NumbersKnown, FS_Subset, FS_CardinalityType

LEMMA ForkFiles ==
  ASSUME FilesInv, NEW p \in Process, NEW c \in Process, pc[c] = "none",
         NEW fds \in SUBSET {fd \in Fd : fd_table[p][fd] # None}, ChildTable(p, c, fds), NEW r
  PROVE  Cardinality(FilesOn(r)') = Cardinality(FilesOn(r)) + Cardinality(Dup(p, fds, r))
<1> DEFINE new == {c} \X Dup(p, fds, r)
<1>1. \A fd \in Fd : fd_table[c][fd] = None
  BY FilesParts DEF TablesTyped
<1>2. \A q \in Process, fd \in Fd :
        fd_table'[q][fd] = IF q = c THEN (IF fd \in fds THEN fd_table[p][fd] ELSE None) ELSE fd_table[q][fd]
  BY FilesParts DEF TablesTyped, ChildTable
<1>3. FilesOn(r)' = FilesOn(r) \cup new
  <2>1. ASSUME NEW q \in Process, NEW fd \in Fd
        PROVE  <<q, fd>> \in FilesOn(r)' <=> <<q, fd>> \in FilesOn(r) \cup new
    <3>1. <<q, fd>> \in FilesOn(r)' <=> fd_table'[q][fd] # None /\ fd_table'[q][fd].inode = r
      BY DEF FilesOn
    <3>2. <<q, fd>> \in FilesOn(r) <=> fd_table[q][fd] # None /\ fd_table[q][fd].inode = r
      BY DEF FilesOn
    <3>3. <<q, fd>> \in new <=> q = c /\ fd \in fds /\ fd_table[p][fd].inode = r
      BY DEF Dup
    <3>4. fd \in fds => fd_table[p][fd] # None
      OBVIOUS
    <3> HIDE DEF new
    <3> QED BY <1>1, <1>2, <3>1, <3>2, <3>3, <3>4
  <2>2. FilesOn(r)' \subseteq Process \X Fd /\ FilesOn(r) \cup new \subseteq Process \X Fd
    BY DEF FilesOn, Dup
  <2> HIDE DEF new
  <2> QED BY <2>1, <2>2
<1>4. FilesOn(r) \cap new = {}
  BY <1>1 DEF FilesOn
<1>5. IsFiniteSet(new) /\ Cardinality(new) = Cardinality(Dup(p, fds, r))
  <2>1. IsFiniteSet(Dup(p, fds, r)) /\ Cardinality(Dup(p, fds, r)) \in Nat
    BY DupCount
  <2>2. IsFiniteSet({c}) /\ Cardinality({c}) = 1
    BY FS_Singleton
  <2>3. IsFiniteSet(new) /\ Cardinality(new) = 1 * Cardinality(Dup(p, fds, r))
    BY <2>1, <2>2, FS_Product
  <2> HIDE DEF new
  <2> QED BY <2>1, <2>3
<1> HIDE DEF new
<1>6. Cardinality(FilesOn(r) \cup new) = Cardinality(FilesOn(r)) + Cardinality(new) - Cardinality({})
  BY <1>4, <1>5, FiniteCounts, FS_Union
<1>7. Cardinality(FilesOn(r)) \in Nat /\ Cardinality(new) \in Nat
  BY <1>5, FiniteCounts, FS_CardinalityType
<1>8. Cardinality({}) = 0
  BY FS_EmptySet
<1> QED BY <1>3, <1>5, <1>6, <1>7, <1>8

LEMMA ForkInv ==
  ASSUME FilesInv, SemaInv', NEW p \in Process, NEW c \in Process, Fork(p, c) PROVE FilesInv'
<1>1. /\ pc[p] = "user" /\ pc[c] = "none" /\ Go(c, "user", NoCall)
      /\ UNCHANGED <<disk, entry, free_map, lost, file_cur>>
      /\ image' = [image EXCEPT ![c] = image[p]] /\ fd_idx' = [fd_idx EXCEPT ![c] = fd_idx[p]]
  BY DEF Fork, At, InheritIdx
<1>2. PICK fds \in SUBSET {fd \in Fd : fd_table[p][fd] # None} :
        /\ ChildTable(p, c, fds)
        /\ inodes' = [s \in Sector |-> inode_reopen(inodes, s, Cardinality(Dup(p, fds, s)))[s]]
  BY DEF Fork, ChildTable, Dup
<1>3. fds \subseteq Fd
  OBVIOUS
<1>4. inodes \in Table
  BY FilesParts
<1>5. ASSUME NEW s \in Sector, inodes[s] = None
      PROVE  inodes'[s] = None /\ Dup(p, fds, s) = {}
  <2>1. inodes'[s] = None
    BY <1>2, <1>5 DEF inode_reopen
  <2>2. \A fd \in fds : fd_table[p][fd].inode # s
    BY <1>5, PointedAtOpen
  <2> QED BY <2>1, <2>2 DEF Dup
<1>6. ASSUME NEW s \in Sector, inodes[s] # None
      PROVE  /\ inodes'[s] \in Inode /\ inodes'[s] # None
             /\ Refs(inodes', s) = Refs(inodes, s) + Cardinality(Dup(p, fds, s))
             /\ inodes'[s].deny_write_cnt = inodes[s].deny_write_cnt
  <2> DEFINE u == inode_reopen(inodes, s, Cardinality(Dup(p, fds, s)))
  <2>1. /\ u \in Table /\ u[s] # None /\ Refs(u, s) = Refs(inodes, s) + Cardinality(Dup(p, fds, s))
        /\ u[s].deny_write_cnt = inodes[s].deny_write_cnt
    BY <1>3, <1>4, <1>6, DupCount, ReopenTable
  <2>2. inodes'[s] = u[s]
    BY <1>2
  <2> HIDE DEF u
  <2> QED BY <2>1, <2>2 DEF Table, Refs
<1>7. inodes' \in Table
  <2>1. \A s \in Sector : inodes'[s] \in {None} \cup Inode
    BY <1>5, <1>6
  <2>2. inodes' = [s \in Sector |-> inodes'[s]]
    BY <1>2
  <2> QED BY <2>1, <2>2 DEF Table
<1>8. RowsTyped' /\ \A q \in Process : q # c => fd_table'[q] = fd_table[q]
  <2>1. RowOK([fd \in Fd |-> IF fd \in fds THEN fd_table[p][fd] ELSE None])
    BY FilesParts DEF TablesTyped, RowOK
  <2>2. /\ fd_table' = [q \in Process |-> fd_table'[q]]
        /\ fd_table'[c] = [fd \in Fd |-> IF fd \in fds THEN fd_table[p][fd] ELSE None]
        /\ \A q \in Process : q # c => fd_table'[q] = fd_table[q]
    BY <1>2, FilesParts DEF ChildTable, TablesTyped
  <2>3. ASSUME NEW q \in Process PROVE RowOK(fd_table'[q])
    BY <2>1, <2>2, FilesParts DEF TablesTyped
  <2>4. \A q \in Process : RowOK(fd_table[q])'
    BY <2>3 DEF RowOK
  <2>5. fd_idx' \in [Process -> 2 .. LastFd + 1] /\ file_cur' \in [Process -> {None} \cup Sector]
    BY <1>1, FilesParts DEF TablesTyped
  <2> QED BY <2>2, <2>4, <2>5 DEF RowsTyped
<1>9. TablesTyped'
  <2>1. \A q \in Process : EmptyAt(q)'
    BY <1>1, <1>8, EmptyKept
  <2> QED BY <1>8, <2>1, RowsTables
<1>10. ImageTyped' /\ StoreTyped' /\ LostTyped'
  BY <1>1, FilesParts DEF ImageTyped, StoreTyped, LostTyped
<1>11. CallOK("user", NoCall)
  BY NoCallOK DEF Labels, WithSector, Finding, Creating, Created, Counted
<1>12. Balanced(inodes', c, "user", NoCall)
  <2>1. ASSUME NEW r PROVE /\ RunningOn(r)' = RunningOn(r)
                           /\ OnCall("user", NoCall, r) = 0 /\ OnCall(pc[c], call[c], r) = 0
    BY <1>1 DEF RunningOn, OnCall, Counted, One
  <2>2. ASSUME NEW r \in Sector
        PROVE  /\ Cardinality(FilesOn(r)') = Cardinality(FilesOn(r)) + Cardinality(Dup(p, fds, r))
               /\ CountsAt(r) /\ Cardinality(Dup(p, fds, r)) \in Nat
    BY <1>1, <1>2, <1>3, ForkFiles, CountsWritten, DupCount
  <2>3. ASSUME NEW r \in Sector
        PROVE  Refs(inodes', r) = Refs(inodes, r) + Cardinality(Dup(p, fds, r))
    <3>1. CASE inodes[r] = None
      <4>1. Refs(inodes', r) = 0 /\ Refs(inodes, r) = 0 /\ Cardinality(Dup(p, fds, r)) = 0
        BY <1>5, <3>1, FS_EmptySet DEF Refs
      <4> QED BY <4>1
    <3> QED BY <1>6, <3>1
  <2>4. ASSUME NEW r \in Sector
        PROVE  Refs(inodes', r) = Cardinality(FilesOn(r)') + Cardinality(CallsOn(r)) - OnCall(pc[c], call[c], r)
                 + OnCall("user", NoCall, r) + Cardinality(RunningOn(r)') + lost'[r].plain + lost'[r].denying
    BY <1>1, <2>1, <2>2, <2>3 DEF CountsAt
  <2>5. ASSUME NEW r \in Sector, inodes'[r] # None
        PROVE  inodes'[r].deny_write_cnt = Cardinality(RunningOn(r)') + lost'[r].denying
    <3>1. inodes[r] # None /\ inodes'[r].deny_write_cnt = inodes[r].deny_write_cnt
      BY <1>5, <1>6, <2>5
    <3> QED BY <1>1, <2>1, <2>2, <3>1 DEF CountsAt
  <2> QED BY <2>4, <2>5 DEF Balanced
<1> QED BY <1>1, <1>7, <1>9, <1>10, <1>11, <1>12, GoInv

LEMMA ExitDoneInv ==
  ASSUME FilesInv, SemaInv', NEW p \in Process, ExitDone(p) PROVE FilesInv'
<1>1. /\ pc[p] = "exit" /\ file_cur[p] = None /\ \A fd \in Fd : fd_table[p][fd] = None
      /\ Go(p, "none", NoCall) /\ fd_idx' = [fd_idx EXCEPT ![p] = 2]
      /\ image' = [image EXCEPT ![p] = None]
      /\ UNCHANGED <<disk, entry, free_map, inodes, lost, fd_table, file_cur>>
  BY DEF ExitDone, At, fsVars
<1>2. TablesTyped'
  <2>1. fd_idx' \in [Process -> 2 .. LastFd + 1]
    <3>1. 2 \in 2 .. LastFd + 1
      BY FilesParts, NumbersKnown DEF TablesTyped
    <3> QED BY <1>1, <3>1, FilesParts DEF TablesTyped
  <2>2. RowsTyped'
    BY <1>1, <2>1, FilesParts, TablesRows, RowsSame DEF RowsTyped
  <2>3. \A q \in Process : q # p => pc'[q] = pc[q]
    BY <1>1 DEF Go, FilesInv, FilesTypeOK
  <2>4. \A q \in Process : EmptyAt(q)'
    BY <1>1, <2>3, FilesParts, TablesRows DEF EmptyAt
  <2> QED BY <2>2, <2>4, RowsTables
<1>3. ImageTyped' /\ StoreTyped' /\ LostTyped' /\ inodes' \in Table
  BY <1>1, FilesParts DEF ImageTyped, StoreTyped, LostTyped
<1>4. CallOK("none", NoCall)
  BY NoCallOK DEF Labels, WithSector, Finding, Creating, Created, Counted
<1>5. Balanced(inodes', p, "none", NoCall)
  <2>1. ASSUME NEW r PROVE /\ FilesOn(r)' = FilesOn(r) /\ RunningOn(r)' = RunningOn(r)
                           /\ OnCall("none", NoCall, r) = 0 /\ OnCall(pc[p], call[p], r) = 0
    BY <1>1 DEF FilesOn, RunningOn, OnCall, Counted, One
  <2>2. \A r \in Sector : CountsAt(r)
    BY CountsWritten
  <2> QED BY <1>1, <2>1, <2>2 DEF Balanced, CountsAt
<1> QED BY <1>1, <1>2, <1>3, <1>4, <1>5, GoInv

(* Nothing is open on a machine that has just been started. *)
Blank ==
  /\ inodes = [s \in Sector |-> None]
  /\ pc = [p \in Process |-> "none"]
  /\ call = [p \in Process |-> NoCall]
  /\ fd_table = [p \in Process |-> [fd \in Fd |-> None]]
  /\ fd_idx = [p \in Process |-> 2]
  /\ file_cur = [p \in Process |-> None]
  /\ image = [p \in Process |-> None]
  /\ lost = [s \in Sector |-> [plain |-> 0, denying |-> 0]]

Started == /\ CallsTyped /\ TablesTyped /\ ImageTyped /\ LostTyped
           /\ inodes \in Table /\ CountsMatch

LEMMA BlankInv == Blank => Started
<1> SUFFICES ASSUME Blank PROVE Started
  OBVIOUS
<1>1. CallOK("none", NoCall)
  BY NoCallOK DEF Labels, WithSector, Finding, Creating, Created, Counted
<1>2. CallsTyped
  BY <1>1 DEF Blank, CallsTyped
<1>3. TablesTyped
  <2>1. 2 \in 2 .. LastFd + 1
    BY FilesAssumption
  <2> QED BY <2>1 DEF Blank, TablesTyped, RowOK
<1>4. ImageTyped /\ LostTyped /\ inodes \in Table
  <2>1. 0 \in 0 .. MaxLost
    BY NumbersKnown
  <2> QED BY <2>1 DEF Blank, ImageTyped, LostTyped, Table
<1>5. CountsMatch
  <2>1. ASSUME NEW s \in Sector
        PROVE  inodes[s] = None /\ Openers(s) = 0 /\ Deniers(s) = 0
    <3>1. FilesOn(s) = {} /\ CallsOn(s) = {}
      BY DEF Blank, FilesOn, CallsOn
    <3>2. RunningOn(s) = {}
      BY NoneAssumption DEF Blank, RunningOn
    <3>3. lost[s].plain = 0 /\ lost[s].denying = 0 /\ inodes[s] = None
      BY DEF Blank
    <3> QED BY <3>1, <3>2, <3>3, FS_EmptySet DEF Openers, Deniers
  <2> QED BY <2>1 DEF CountsMatch
<1> QED BY <1>2, <1>3, <1>4, <1>5 DEF Started

LEMMA InitInv == Init => FilesInv
<1> SUFFICES ASSUME Init PROVE FilesInv
  OBVIOUS
<1>1. Started
  <2>1. Blank
    BY DEF Init, Blank
  <2> QED BY <2>1, BlankInv
<1>2. disk \in [Sector -> DiskInode \cup Cell]
  <2>1. [start |-> IF ProgramLength = 0 THEN 0 ELSE 3, length |-> ProgramLength] \in DiskInode
    BY NumbersKnown, FilesAssumption DEF DiskInode, Sector
  <2>2. Data(0) \in Cell
    BY FilesysAssumption DEF Cell
  <2> QED BY <2>1, <2>2 DEF Init
<1>3. entry \in [Slot -> {None} \cup (Name \X Sector)]
  <2>1. <<Program, 2>> \in Name \X Sector
    BY FilesAssumption, NumbersKnown DEF Sector
  <2> QED BY <2>1 DEF Init
<1>4. free_map \subseteq Sector
  <2>1. free_map = 2 .. 2 + ProgramLength
    BY DEF Init
  <2>2. ProgramLength \in Nat /\ 2 + ProgramLength <= LastSector /\ LastSector \in Nat
    BY FilesAssumption, NumbersKnown
  <2>3. ASSUME NEW x \in free_map PROVE x \in Sector
    <3>1. x \in Int /\ 2 <= x /\ x <= 2 + ProgramLength
      BY <2>1, <2>2
    <3> QED BY <2>2, <3>1 DEF Sector
  <2> QED BY <2>3
<1>5. FilesTypeOK
  <2>1. pc \in [Process -> Labels] /\ call \in [Process -> CallType]
    BY <1>1 DEF Started, CallsTyped, CallOK
  <2>2. fd_table \in [Process -> [Fd -> {None} \cup FileType]]
    BY <1>1 DEF Started, TablesTyped, RowOK
  <2>3. syn_sema \in {0, 1} /\ abandoned \in BOOLEAN
    BY DEF Init
  <2>4. FsTypeOK
    BY <1>1, <1>2, <1>3, <1>4 DEF Started, FsTypeOK, Table
  <2> QED BY <1>1, <2>1, <2>2, <2>3, <2>4 DEF Started, FilesTypeOK, TablesTyped, ImageTyped, LostTyped
<1>6. LocalsOK
  BY <1>1 DEF Started, LocalsOK, CallsTyped, TablesTyped, RowOK
<1> QED BY <1>1, <1>5, <1>6 DEF Started, FilesInv

LEMMA PowerOffInv ==
  ASSUME FilesInv, SemaInv', PowerOff PROVE FilesInv'
<1>1. Blank'
  BY DEF PowerOff, Blank
<1>2. Blank' => Started'
  BY BlankInv, PTL
<1>3. StoreTyped'
  BY FilesParts DEF PowerOff, StoreTyped
<1> QED BY <1>1, <1>2, <1>3, FilesWhole DEF Started

-----------------------------------------------------------------------------
(* The other steps. *)

(* A first fit is a run of sectors that are not in use. *)
FitOK(cnt) ==
  /\ FirstFit(cnt) \in Starts
  /\ cnt > 0 => FirstFit(cnt) \in Sector
  /\ FirstFit(cnt) .. FirstFit(cnt) + cnt - 1 \subseteq Sector
  /\ (FirstFit(cnt) .. FirstFit(cnt) + cnt - 1) \cap free_map = {}

LEMMA FitTyped == ASSUME NEW cnt \in Nat, CanAllocate(cnt) PROVE FitOK(cnt)
<1>1. CASE cnt = 0
  BY <1>1 DEF FirstFit, Starts, FitOK
<1>2. CASE cnt # 0
  <2>1. FreeRuns(cnt) # {} /\ FreeRuns(cnt) \in SUBSET Nat
    BY <1>2, NumbersKnown DEF CanAllocate, FreeRuns
  <2>2. FirstFit(cnt) \in FreeRuns(cnt)
    BY <1>2, <2>1, MinIsLeast DEF FirstFit
  <2> DEFINE i == FirstFit(cnt)
  <2>3. i \in Sector /\ i + cnt - 1 \in Sector /\ (i .. i + cnt - 1) \cap free_map = {}
    BY <2>2 DEF FreeRuns
  <2> HIDE DEF i
  <2>4. i .. i + cnt - 1 \subseteq Sector
    BY <2>3, NumbersKnown DEF Sector
  <2> QED BY <2>3, <2>4 DEF Starts, i, FitOK
<1> QED BY <1>1, <1>2

LEMMA FindGoes ==
  ASSUME FilesInv, NEW p, NEW n, NEW next \in {"open", "exec", "remove"},
         NEW otherwise \in {"user", "exit", "none", "remove_done"}, Find(p, n, next, otherwise)
  PROVE  \E l \in {otherwise, "open_inode"}, c \in CallType : Go(p, l, c) /\ CallOK(l, c)
<1> DEFINE m == Min(lookup(n))
           s == entry[m][2]
           c == [NoCall EXCEPT !.sector = s, !.fd = m, !.next = next]
<1>1. CASE lookup(n) = {} /\ Go(p, otherwise, NoCall)
  <2>1. CallOK(otherwise, NoCall) /\ NoCall \in CallType
    BY NoCallOK DEF Labels, WithSector, Finding, Creating, Created, Counted
  <2> QED BY <1>1, <2>1
<1>2. CASE lookup(n) # {} /\ Go(p, "open_inode", c)
  <2>1. lookup(n) \in SUBSET Nat
    BY NumbersKnown DEF lookup
  <2>2. m \in lookup(n)
    BY <1>2, <2>1, MinIsLeast
  <2> HIDE DEF m
  <2>3. m \in Slot /\ entry[m] \in Name \X Sector
    BY <2>2, FilesParts DEF lookup, StoreTyped
  <2>4. s \in Sector
    BY <2>3
  <2> HIDE DEF s
  <2>5. c \in CallType /\ c.sector = s /\ c.next = next
    <3>1. m \in {0} \cup Fd \cup Slot /\ 0 \in 0 .. LastSector + MaxPos /\ 0 \in 0 .. LastSector
      BY <2>3, NumbersKnown
    <3> QED BY <2>4, <3>1 DEF NoCall, CallType
  <2> HIDE DEF c
  <2>6. CallOK("open_inode", c)
    BY <2>4, <2>5 DEF CallOK, Labels, WithSector, Finding, Creating, Created, Counted
  <2> QED BY <1>2, <2>5, <2>6
<1> QED BY <1>1, <1>2 DEF Find

-----------------------------------------------------------------------------
(* The calls that count nothing: create.                                   *)

LEMMA SameInv ==
  ASSUME FilesInv, SemaInv', Stay, UNCHANGED fsVars, UNCHANGED lost, UNCHANGED procVars PROVE FilesInv'
<1>1. CallsTyped'
  BY FilesParts, CallsTypedStay
<1>2. TablesTyped' /\ ImageTyped' /\ StoreTyped' /\ LostTyped' /\ inodes' \in Table
  BY FilesParts DEF TablesTyped, RowOK, ImageTyped, StoreTyped, LostTyped, Stay, fsVars, procVars
<1>3. CountsMatch'
  BY DEF FilesInv, CountsMatch, Openers, Deniers, FilesOn, CallsOn, RunningOn, Stay, fsVars, procVars
<1> QED BY <1>1, <1>2, <1>3, FilesWhole

LEMMA PlainLabels ==
  /\ {"none", "user", "exit", "remove_done", "write_sector", "release_inode", "release_data"} \subseteq Labels
  /\ {"none", "user", "exit", "remove_done", "write_sector", "release_inode", "release_data"} \cap WithSector = {}
  /\ {"none", "user", "exit", "remove_done", "write_sector", "release_inode", "release_data",
      "create_data", "create_inode", "create_lookup", "create_slot", "create_add", "create_undo",
      "open_inode"} \cap Counted = {}
BY DEF Labels, WithSector, Finding, Creating, Created, Counted

(* A call goes on with its locals. *)
LEMMA CallGoes ==
  ASSUME FilesInv, NEW p \in Process
  PROVE  /\ call[p] \in CallType /\ CallOK(pc[p], call[p])
         /\ CallOK("release_data", call[p])
         /\ pc[p] \in Creating \cup Created =>
              CallOK("create_undo", call[p]) /\ call[p].sector \in Sector /\ call[p].name \in Name
         /\ pc[p] \in Created =>
              /\ CallOK("create_lookup", call[p]) /\ CallOK("create_slot", call[p])
              /\ call[p].start \in Starts
<1>1. call[p] \in CallType /\ CallOK(pc[p], call[p])
  BY FilesParts DEF CallsTyped, CallOK
<1>2. CallOK("release_data", call[p])
  BY <1>1 DEF CallOK, Labels, WithSector, Finding, Creating, Created, Counted
<1>3. pc[p] \in Creating \cup Created =>
        CallOK("create_undo", call[p]) /\ call[p].sector \in Sector /\ call[p].name \in Name
  BY <1>1 DEF CallOK, Labels, WithSector, Finding, Creating, Created, Counted
<1>4. pc[p] \in Created =>
        /\ CallOK("create_lookup", call[p]) /\ CallOK("create_slot", call[p])
        /\ call[p].start \in Starts
  BY <1>1 DEF CallOK, Labels, WithSector, Finding, Creating, Created, Counted
<1> QED BY <1>1, <1>2, <1>3, <1>4

LEMMA CreateInv ==
  ASSUME FilesInv, SemaInv', NEW p \in Process, NEW n \in Name, NEW len \in Length, Create(p, n, len)
  PROVE  FilesInv'
<1> DEFINE c == [NoCall EXCEPT !.name = n, !.sector = FirstFit(1), !.length = len]
<1>1. CASE CanAllocate(1) /\ free_map_allocate(FirstFit(1), 1) /\ Go(p, "create_data", c)
  <2>1. FirstFit(1) \in Sector /\ FirstFit(1) .. FirstFit(1) + 1 - 1 \subseteq Sector
    <3>1. FitOK(1)
      BY <1>1, FitTyped
    <3> QED BY <3>1 DEF FitOK
  <2>2. CallOK("create_data", c)
    <3>1. len \in 0 .. LastSector /\ 0 \in 0 .. LastSector + MaxPos
      BY FilesAssumption, NumbersKnown
    <3> DEFINE f == FirstFit(1)
    <3> HIDE DEF f
    <3>2. f \in Sector
      BY <2>1 DEF f
    <3>3. [NoCall EXCEPT !.name = n, !.sector = f, !.length = len] \in CallType
      BY <3>1, <3>2 DEF NoCall, CallType
    <3>4. c \in CallType
      BY <3>3 DEF f
    <3>5. c.sector \in Sector /\ c.name \in Name
      BY <2>1 DEF NoCall
    <3> HIDE DEF c
    <3> QED BY <3>4, <3>5 DEF CallOK, Labels, WithSector, Finding, Creating, Created, Counted
  <2> HIDE DEF c
  <2>3. /\ pc[p] = "user"
        /\ UNCHANGED <<disk, entry, inodes, lost, fd_table, fd_idx, file_cur, image>>
    BY DEF Create, At, procVars
  <2>4. StoreTyped' /\ ImageTyped'
    BY <1>1, <2>1, <2>3, FilesParts DEF StoreTyped, ImageTyped, free_map_allocate
  <2> QED BY <1>1, <2>2, <2>3, <2>4, PlainLabels, QuietInv
<1>2. CASE ~(CanAllocate(1) /\ free_map_allocate(FirstFit(1), 1) /\ Go(p, "create_data", c))
  BY <1>2, SameInv DEF Create, fsVars
<1> QED BY <1>1, <1>2

LEMMA CreateDataInv ==
  ASSUME FilesInv, SemaInv', NEW p \in Process, CreateData(p) PROVE FilesInv'
<1> DEFINE len == call[p].length
           f == FirstFit(len)
           c == [call[p] EXCEPT !.start = f]
<1>1. /\ pc[p] = "create_data"
      /\ UNCHANGED <<disk, entry, inodes, lost, fd_table, fd_idx, file_cur, image>>
  BY DEF CreateData, At, procVars
<1>2. /\ call[p] \in CallType /\ CallOK("create_undo", call[p])
      /\ call[p].sector \in Sector /\ call[p].name \in Name /\ len \in Nat
  BY <1>1, CallGoes, NumbersKnown DEF CallType, Creating
<1>3. CASE CanAllocate(len) /\ free_map_allocate(f, len) /\ Go(p, "create_inode", c)
  <2>1. f \in Starts /\ f .. f + len - 1 \subseteq Sector
    <3> HIDE DEF len
    <3>1. FitOK(len)
      BY <1>2, <1>3, FitTyped
    <3> QED BY <3>1 DEF FitOK
  <2> HIDE DEF f
  <2>2. c \in CallType /\ c.sector = call[p].sector /\ c.name = call[p].name /\ c.start = f
    <3>1. f \in 0 .. LastSector + MaxPos
      BY <2>1, NumbersKnown DEF Starts, Sector
    <3> QED BY <1>2, <3>1 DEF CallType
  <2> HIDE DEF c, len
  <2>3. CallOK("create_inode", c)
    BY <1>2, <2>1, <2>2 DEF CallOK, Labels, WithSector, Finding, Creating, Created, Counted
  <2>4. StoreTyped' /\ ImageTyped'
    BY <1>1, <1>3, <2>1, FilesParts DEF StoreTyped, ImageTyped, free_map_allocate
  <2> QED BY <1>1, <1>3, <2>3, <2>4, PlainLabels, QuietInv
<1>4. CASE UNCHANGED free_map /\ Go(p, "create_undo", call[p])
  <2>1. StoreTyped' /\ ImageTyped'
    BY <1>1, <1>4, FilesParts DEF StoreTyped, ImageTyped
  <2> QED BY <1>1, <1>2, <1>4, <2>1, PlainLabels, QuietInv
<1> QED BY <1>3, <1>4 DEF CreateData

LEMMA CreateInodeInv ==
  ASSUME FilesInv, SemaInv', NEW p \in Process, CreateInode(p) PROVE FilesInv'
<1> DEFINE i == [start |-> call[p].start, length |-> call[p].length]
<1>1. /\ pc[p] = "create_inode" /\ Go(p, "create_lookup", call[p])
      /\ disk' = [s \in Sector |-> IF s = call[p].sector THEN i
                                   ELSE IF s \in DataSectors(i) THEN Data(0) ELSE disk[s]]
      /\ UNCHANGED <<entry, free_map, inodes, lost, fd_table, fd_idx, file_cur, image>>
  BY DEF CreateInode, At, procVars
<1>2. CallOK("create_lookup", call[p]) /\ call[p].start \in Starts /\ call[p] \in CallType
  BY <1>1, CallGoes DEF Created
<1>3. i \in DiskInode /\ Data(0) \in Cell
  BY <1>2, FilesysAssumption DEF DiskInode, Starts, CallType, Cell
<1> HIDE DEF i
<1>4. StoreTyped' /\ ImageTyped'
  BY <1>1, <1>3, FilesParts DEF StoreTyped, ImageTyped
<1> QED BY <1>1, <1>2, <1>4, PlainLabels, QuietInv

LEMMA CreateNameInv ==
  ASSUME FilesInv, SemaInv', NEW p \in Process,
         CreateLookup(p) \/ CreateSlot(p) \/ CreateAdd(p) \/ CreateUndo(p)
  PROVE  FilesInv'
<1>1. /\ pc[p] \in Creating \cup Created /\ pc[p] \notin Counted
      /\ UNCHANGED <<disk, inodes, lost, fd_table, fd_idx, file_cur, image>>
  BY PlainLabels DEF CreateLookup, CreateSlot, CreateAdd, CreateUndo, At, procVars, fsVars, Creating, Created
<1>2. ImageTyped' /\ disk' \in [Sector -> DiskInode \cup Cell]
  BY <1>1, FilesParts DEF ImageTyped, StoreTyped
<1>3. /\ CallOK("create_undo", call[p]) /\ CallOK("user", NoCall)
      /\ call[p] \in CallType /\ NoCall \in CallType
  BY <1>1, CallGoes, NoCallOK, PlainLabels
<1>4. CASE CreateLookup(p)
  <2>1. PICK l \in {"create_slot", "create_undo"} : Go(p, l, call[p])
    BY <1>4 DEF CreateLookup
  <2>2. CallOK("create_slot", call[p])
    BY <1>4, CallGoes DEF CreateLookup, At, Created
  <2>3. StoreTyped'
    BY <1>2, <1>4, FilesParts DEF CreateLookup, StoreTyped, fsVars
  <2> QED BY <1>1, <1>2, <1>3, <2>1, <2>2, <2>3, PlainLabels, QuietInv
<1>5. CASE CreateSlot(p)
  <2> DEFINE m == Min(EmptySlots)
             c == [call[p] EXCEPT !.fd = m]
  <2>1. StoreTyped'
    BY <1>2, <1>5, FilesParts DEF CreateSlot, StoreTyped, fsVars
  <2>2. CASE Go(p, "create_undo", call[p])
    BY <1>1, <1>2, <1>3, <2>1, <2>2, PlainLabels, QuietInv
  <2>3. CASE EmptySlots # {} /\ Go(p, "create_add", c)
    <3>1. m \in Slot
      <4>1. EmptySlots \in SUBSET Nat /\ EmptySlots \subseteq Slot
        BY NumbersKnown DEF EmptySlots
      <4> QED BY <2>3, <4>1, MinIsLeast
    <3>2. /\ pc[p] \in Created /\ call[p] \in CallType /\ call[p].sector \in Sector
          /\ call[p].name \in Name /\ call[p].start \in Starts
      BY <1>1, <1>5, CallGoes DEF CreateSlot, At, Created
    <3> HIDE DEF m
    <3>3. /\ c \in CallType /\ c.fd = m /\ c.sector = call[p].sector
          /\ c.name = call[p].name /\ c.start = call[p].start
      BY <3>1, <3>2 DEF CallType
    <3> HIDE DEF c
    <3>4. CallOK("create_add", c)
      BY <3>1, <3>2, <3>3 DEF CallOK, Labels, WithSector, Finding, Creating, Created, Counted
    <3> QED BY <1>1, <1>2, <2>1, <2>3, <3>4, PlainLabels, QuietInv
  <2> QED BY <1>5, <2>2, <2>3 DEF CreateSlot
<1>6. CASE CreateAdd(p)
  <2>1. PICK l \in {"user", "create_undo"}, c \in CallType : Go(p, l, c) /\ CallOK(l, c)
    BY <1>3, <1>6 DEF CreateAdd, Return
  <2>2. <<call[p].name, call[p].sector>> \in Name \X Sector
    BY <1>1, CallGoes
  <2>3. entry' = entry \/ entry' = [entry EXCEPT ![call[p].fd] = <<call[p].name, call[p].sector>>]
    BY <1>6 DEF CreateAdd
  <2>4. entry' \in [Slot -> {None} \cup (Name \X Sector)]
    BY <2>2, <2>3, FilesParts DEF StoreTyped
  <2>5. StoreTyped'
    BY <1>2, <1>6, <2>4, FilesParts DEF CreateAdd, StoreTyped
  <2> QED BY <1>1, <1>2, <2>1, <2>5, PlainLabels, QuietInv
<1>7. CASE CreateUndo(p)
  <2>1. StoreTyped'
    BY <1>2, <1>7, FilesParts DEF CreateUndo, StoreTyped, free_map_release
  <2>2. Go(p, "user", NoCall)
    BY <1>7 DEF CreateUndo, Return
  <2> QED BY <1>1, <1>2, <1>3, <2>1, <2>2, PlainLabels, QuietInv
<1> QED BY <1>4, <1>5, <1>6, <1>7

-----------------------------------------------------------------------------
(* The calls that count nothing: finding, reading, writing; and the theorems. *)

LEMMA FindInv ==
  ASSUME FilesInv, SemaInv', NEW p \in Process, NEW n \in Name,
         Open(p, n) \/ Remove(p, n) \/ Exec(p, n) \/ Boot(p, n)
  PROVE  FilesInv'
<1>1. /\ pc[p] \in {"user", "none"}
      /\ UNCHANGED <<disk, entry, free_map, inodes, lost, fd_table, fd_idx, file_cur>>
  BY DEF Open, Remove, Exec, Boot, Idle, At, fsVars, procVars
<1>2. PICK next \in {"open", "exec", "remove"}, otherwise \in {"user", "exit", "none", "remove_done"} :
        Find(p, n, next, otherwise) /\ (otherwise = "none" => pc[p] = "none")
  BY DEF Open, Remove, Exec, Boot, Idle, At
<1>3. PICK l \in {otherwise, "open_inode"}, c \in CallType : Go(p, l, c) /\ CallOK(l, c)
  BY <1>2, FindGoes
<1>4. image' = image \/ image' = [image EXCEPT ![p] = None]
  BY DEF Open, Remove, Exec, Boot, procVars
<1>5. StoreTyped' /\ ImageTyped'
  BY <1>1, <1>4, FilesParts DEF StoreTyped, ImageTyped
<1>6. pc[p] \notin Counted /\ l \notin Counted /\ (l = "none" => pc[p] = "none")
  BY <1>1, <1>2, <1>3, PlainLabels
<1> QED BY <1>1, <1>3, <1>5, <1>6, QuietInv

(* Steps that go on without an inode. *)
LEMMA PlainInv ==
  ASSUME FilesInv, SemaInv, SemaInv', NEW p \in Process,
         RemoveDone(p) \/ Exit(p) \/ WriteFault(p) \/ ReleaseInode(p) \/ ReleaseData(p)
  PROVE  FilesInv'
<1> USE DEF At
<1>1. /\ pc[p] \notin Counted
      /\ UNCHANGED <<disk, entry, inodes, lost, fd_table, fd_idx, file_cur, image>>
  BY PlainLabels DEF RemoveDone, Exit, WriteFault, ReleaseInode, ReleaseData, fsVars, procVars
<1>2. free_map' \subseteq free_map
  BY DEF RemoveDone, Exit, WriteFault, ReleaseInode, ReleaseData, fsVars, free_map_release
<1>3. StoreTyped' /\ ImageTyped'
  BY <1>1, <1>2, FilesParts DEF StoreTyped, ImageTyped
<1>4. PICK l \in {"user", "exit", "remove_done", "release_data"}, c \in CallType : Go(p, l, c) /\ CallOK(l, c)
  <2>1. \A l \in {"user", "exit", "remove_done"} : CallOK(l, NoCall) /\ NoCall \in CallType
    BY PlainLabels, NoCallOK
  <2>2. CallOK("release_data", call[p]) /\ call[p] \in CallType
    BY CallGoes
  <2>3. CASE ReleaseData(p)
    <3>1. call[p].next \in {"user", "exit", "remove_done"}
      BY <2>3 DEF ReleaseData, SemaInv, ControlOK, Resumes
    <3>2. Go(p, call[p].next, NoCall)
      BY <2>3 DEF ReleaseData
    <3> QED BY <2>1, <3>1, <3>2
  <2>4. CASE ReleaseInode(p)
    BY <2>2, <2>4 DEF ReleaseInode
  <2>5. CASE RemoveDone(p) \/ Exit(p) \/ WriteFault(p)
    BY <2>1, <2>5 DEF RemoveDone, Exit, WriteFault, Return, call_exit
  <2> QED BY <2>3, <2>4, <2>5
<1>5. l \notin Counted /\ l # "none"
  BY <1>4, PlainLabels
<1> QED BY <1>1, <1>3, <1>4, <1>5, QuietInv

(* A step of p leaves the places of p and of the others as they are. *)
LEMMA GoOthers ==
  ASSUME FilesInv, NEW p \in Process, NEW l, NEW c, Go(p, l, c), CallOK(l, c),
         pc[p] \notin Counted, l \notin Counted
  PROVE  /\ CallsTyped' /\ pc'[p] = l /\ \A q \in Process : q # p => pc'[q] = pc[q]
         /\ \A s \in Sector : CallsOn(s)' = CallsOn(s)
<1>1. CallsTyped' /\ pc'[p] = l /\ \A q \in Process : q # p => pc'[q] = pc[q]
  BY FilesParts, CallsTypedGo
<1>2. \A q \in Process : q # p => call'[q] = call[q]
  BY FilesParts DEF CallsTyped, Go
<1>3. ASSUME NEW s \in Sector PROVE CallsOn(s)' = CallsOn(s)
  <2>1. ASSUME NEW q \in Process PROVE q \in CallsOn(s)' <=> q \in CallsOn(s)
    <3>1. CASE q # p
      BY <1>1, <1>2, <3>1 DEF CallsOn
    <3>2. CASE q = p
      BY <1>1, <3>2 DEF CallsOn, Counted
    <3> QED BY <3>1, <3>2
  <2>2. CallsOn(s)' \subseteq Process /\ CallsOn(s) \subseteq Process
    BY DEF CallsOn
  <2> QED BY <2>1, <2>2
<1> QED BY <1>1, <1>3

LEMMA ReadInv ==
  ASSUME FilesInv, SemaInv', NEW p \in Process, NEW fd \in Fd, Read(p, fd) PROVE FilesInv'
<1>1. /\ pc[p] = "user"
      /\ UNCHANGED <<inodes, lost, fd_idx, file_cur, image, disk, entry, free_map>>
  BY DEF Read, At, fsVars
<1>2. CASE call_exit(p) /\ UNCHANGED fd_table
  <2>1. StoreTyped' /\ ImageTyped'
    BY <1>1, FilesParts DEF StoreTyped, ImageTyped
  <2>2. CallOK("exit", NoCall)
    BY PlainLabels, NoCallOK
  <2> QED BY <1>1, <1>2, <2>1, <2>2, PlainLabels, QuietInv DEF call_exit
<1>3. CASE /\ ~BadFd(p, fd) /\ Stay
           /\ LET f == fd_table[p][fd] IN
                \E pos \in {f.pos} \cup f.pos .. inodes[f.inode].length : SetFile(p, fd, [f EXCEPT !.pos = pos])
  <2> DEFINE f == fd_table[p][fd]
  <2>1. f # None /\ f \in FileType /\ f.pos \in Nat /\ f.pos <= LastSector + MaxPos
    BY <1>3, FilesParts DEF BadFd, TablesTyped, RowOK, FileType
  <2>2. inodes[f.inode] \in Inode /\ inodes[f.inode].length \in 0 .. LastSector
    BY <2>1, PointedAtOpen, FilesParts DEF Table, Inode
  <2>3. PICK pos \in {f.pos} \cup f.pos .. inodes[f.inode].length : SetFile(p, fd, [f EXCEPT !.pos = pos])
    BY <1>3
  <2>4. pos \in 0 .. LastSector + MaxPos
    BY <2>1, <2>2, NumbersKnown
  <2>5. CallsTyped' /\ pc'[p] # "none" /\ \A q \in Process : q # p => pc'[q] = pc[q]
    BY <1>1, <1>3, FilesParts, CallsTypedStay DEF Stay
  <2>6. \A s \in Sector : CallsOn(s)' = CallsOn(s)
    BY <1>3, CallsStay
  <2> QED BY <1>1, <2>1, <2>3, <2>4, <2>5, <2>6, MoveInv
<1>4. ~BadFd(p, fd) =>
        \/ call_exit(p) /\ UNCHANGED fd_table
        \/ /\ Stay
           /\ LET f == fd_table[p][fd] IN
                \E pos \in {f.pos} \cup f.pos .. inodes[f.inode].length : SetFile(p, fd, [f EXCEPT !.pos = pos])
  BY DEF Read
<1> QED BY <1>2, <1>3, <1>4 DEF Read

LEMMA SeekInv ==
  ASSUME FilesInv, SemaInv', NEW p \in Process, NEW fd \in Fd, NEW pos \in Pos, Seek(p, fd, pos)
  PROVE  FilesInv'
<1>1. /\ pc[p] = "user" /\ fd_table[p][fd] # None /\ Stay
      /\ UNCHANGED <<inodes, lost, fd_idx, file_cur, image, disk, entry, free_map>>
  BY DEF Seek, At, fsVars
<1>2. SetFile(p, fd, [fd_table[p][fd] EXCEPT !.pos = pos])
  BY FilesParts DEF Seek, SetFile, TablesTyped
<1>3. pos \in 0 .. LastSector + MaxPos
  BY NumbersKnown DEF Pos
<1>4. CallsTyped' /\ pc'[p] # "none" /\ \A q \in Process : q # p => pc'[q] = pc[q]
  BY <1>1, FilesParts, CallsTypedStay DEF Stay
<1>5. \A s \in Sector : CallsOn(s)' = CallsOn(s)
  BY <1>1, CallsStay
<1> QED BY <1>1, <1>2, <1>3, <1>4, <1>5, MoveInv

LEMMA WriteDoneInv ==
  ASSUME FilesInv, IdxInv, SemaInv', NEW p \in Process, WriteDone(p) PROVE FilesInv'
<1> DEFINE fd == call[p].fd
           pos == call[p].start
<1>1. /\ pc[p] = "write_sector" /\ Go(p, "user", NoCall)
      /\ UNCHANGED <<inodes, lost, fd_idx, file_cur, image, disk, entry, free_map>>
  BY DEF WriteDone, At, Return, fsVars
<1>2. fd \in Fd /\ fd_table[p][fd] # None
  BY <1>1 DEF IdxInv, Writes
<1>3. pos \in 0 .. LastSector + MaxPos
  BY CallGoes DEF CallType
<1>4. SetFile(p, fd, [fd_table[p][fd] EXCEPT !.pos = pos])
  BY <1>2, FilesParts DEF WriteDone, SetFile, TablesTyped
<1>5. CallOK("user", NoCall)
  BY NoCallOK, PlainLabels
<1>6. /\ CallsTyped' /\ pc'[p] # "none" /\ \A q \in Process : q # p => pc'[q] = pc[q]
      /\ \A s \in Sector : CallsOn(s)' = CallsOn(s)
  BY <1>1, <1>5, GoOthers, PlainLabels
<1> HIDE DEF fd, pos
<1> QED BY <1>1, <1>2, <1>3, <1>4, <1>6, MoveInv

LEMMA WriteInv ==
  ASSUME FilesInv, IdxInv, SemaInv', NEW p \in Process,
         (\E fd \in Fd : WriteStart(p, fd)) \/ (\E v \in Value : WriteSector(p, v))
  PROVE  FilesInv'
<1>1. CASE \E fd \in Fd : WriteStart(p, fd)
  <2>1. PICK fd \in Fd : WriteStart(p, fd)
    BY <1>1
  <2> DEFINE pos == fd_table[p][fd].pos
             c == [NoCall EXCEPT !.fd = fd, !.start = pos]
  <2>2. /\ pc[p] = "user" /\ UNCHANGED fsVars /\ UNCHANGED lost /\ UNCHANGED procVars
        /\ UNCHANGED <<disk, entry, free_map, inodes, lost, fd_table, fd_idx, file_cur, image>>
    BY <2>1 DEF WriteStart, At, fsVars, procVars
  <2>3. StoreTyped' /\ ImageTyped'
    BY <2>2, FilesParts DEF StoreTyped, ImageTyped
  <2>4. CASE Stay
    BY <2>2, <2>4, SameInv
  <2>5. CASE call_exit(p)
    <3>1. CallOK("exit", NoCall)
      BY NoCallOK, PlainLabels
    <3> QED BY <2>2, <2>3, <2>5, <3>1, PlainLabels, QuietInv DEF call_exit
  <2>6. CASE ~BadFd(p, fd) /\ Go(p, "write_sector", c)
    <3>1. pos \in 0 .. LastSector + MaxPos
      BY <2>6, FilesParts, NumbersKnown DEF BadFd, TablesTyped, RowOK, FileType
    <3> HIDE DEF pos
    <3>2. fd \in {0} \cup Fd \cup Slot /\ 0 \in 0 .. LastSector /\ 0 \in {0} \cup Sector
      BY NumbersKnown
    <3>4. c \in CallType
      BY <3>1, <3>2 DEF NoCall, CallType
    <3> HIDE DEF c
    <3>3. CallOK("write_sector", c)
      BY <3>4, PlainLabels DEF CallOK, WithSector, Created
    <3> QED BY <2>2, <2>3, <2>6, <3>3, PlainLabels, QuietInv
  <2> QED BY <2>1, <2>4, <2>5, <2>6 DEF WriteStart
<1>2. CASE \E v \in Value : WriteSector(p, v)
  <2>1. PICK v \in Value : WriteSector(p, v)
    BY <1>2
  <2> DEFINE i == inodes[fd_table[p][call[p].fd].inode]
             c == [call[p] EXCEPT !.start = @ + 1]
  <2>2. /\ pc[p] = "write_sector" /\ call[p].start < i.length
        /\ disk' = [disk EXCEPT ![i.start + call[p].start] = Data(v)]
        /\ Go(p, "write_sector", c)
        /\ UNCHANGED <<entry, free_map, inodes, lost, fd_table, fd_idx, file_cur, image>>
    BY <2>1 DEF WriteSector, At, procVars
  <2>3. i \in Inode
    <3>1. call[p].fd \in Fd /\ fd_table[p][call[p].fd] # None
      BY <2>2 DEF IdxInv, Writes
    <3> QED BY <3>1, PointedAtOpen, FilesParts DEF Table
  <2>4. i.length \in 0 .. LastSector
    BY <2>3 DEF Inode
  <2> HIDE DEF i
  <2>5. call[p] \in CallType
    BY CallGoes
  <2>6. call[p].start + 1 \in 0 .. LastSector + MaxPos
    BY <2>2, <2>4, <2>5, NumbersKnown DEF CallType
  <2>7. c \in CallType
    BY <2>5, <2>6 DEF CallType
  <2> HIDE DEF c
  <2>8. CallOK("write_sector", c)
    BY <2>7, PlainLabels DEF CallOK, WithSector, Created
  <2>9. StoreTyped' /\ ImageTyped'
    <3>1. Data(v) \in Cell
      BY DEF Cell
    <3>2. disk' \in [Sector -> DiskInode \cup Cell]
      BY <2>2, <3>1, FilesParts DEF StoreTyped
    <3> QED BY <2>2, <3>2, FilesParts DEF StoreTyped, ImageTyped
  <2> QED BY <2>2, <2>8, <2>9, PlainLabels, QuietInv
<1> QED BY <1>1, <1>2

LEMMA FilesStep == SemaInv /\ IdxInv /\ FilesInv /\ [Next]_vars => FilesInv'
<1> SUFFICES ASSUME SemaInv, IdxInv, FilesInv, [Next]_vars PROVE FilesInv'
  OBVIOUS
<1>1. SemaInv'
  BY SemaStep
<1>2. CASE \E p \in Process : ProcessStep(p)
  <2>1. PICK p \in Process : ProcessStep(p)
    BY <1>2
  <2>2. CASE \E n \in Name, len \in Length : Create(p, n, len)
    BY <1>1, <2>2, CreateInv
  <2>3. CASE CreateData(p) \/ CreateInode(p)
    BY <1>1, <2>3, CreateDataInv, CreateInodeInv
  <2>4. CASE CreateLookup(p) \/ CreateSlot(p) \/ CreateAdd(p) \/ CreateUndo(p)
    BY <1>1, <2>4, CreateNameInv
  <2>5. CASE \E n \in Name : Open(p, n) \/ Remove(p, n) \/ Exec(p, n) \/ Boot(p, n)
    BY <1>1, <2>5, FindInv
  <2>6. CASE OpenInode(p) \/ FillInode(p) \/ RemoveErase(p) \/ Load(p) \/ ExitFile(p) \/ ExitDone(p)
    BY <1>1, <2>6, OpenInodeInv, FillInodeInv, RemoveEraseInv, LoadInv, ExitFileInv, ExitDoneInv
  <2>7. CASE RemoveDone(p) \/ Exit(p) \/ WriteFault(p) \/ ReleaseInode(p) \/ ReleaseData(p)
    BY <1>1, <2>7, PlainInv
  <2>8. CASE \E fd \in Fd : Close(p, fd) \/ Read(p, fd) \/ \E pos \in Pos : Seek(p, fd, pos)
    BY <1>1, <2>8, CloseFdInv, ReadInv, SeekInv
  <2>9. CASE (\E fd \in Fd : WriteStart(p, fd)) \/ (\E v \in Value : WriteSector(p, v))
    BY <1>1, <2>9, WriteInv
  <2>10. CASE WriteDone(p)
    BY <1>1, <2>10, WriteDoneInv
  <2>11. CASE \E c \in Process : Fork(p, c)
    BY <1>1, <2>11, ForkInv
  <2> QED BY <2>1, <2>2, <2>3, <2>4, <2>5, <2>6, <2>7, <2>8, <2>9, <2>10, <2>11, Zenon DEF ProcessStep
<1>3. CASE PowerOff
  BY <1>1, <1>3, PowerOffInv
<1>4. CASE UNCHANGED vars
  BY <1>1, <1>4, SameInv DEF vars, Stay, fsVars, procVars
<1> QED BY <1>2, <1>3, <1>4 DEF Next

(* What every operation of the file calls takes for granted: the open      *)
(* inodes, descriptors, positions, entries and counters are what their     *)
(* types say, and nothing ever counts below zero.                          *)
THEOREM FilesTypeCorrect == Spec => []FilesTypeOK
<1>1. FilesInv => FilesTypeOK
  BY DEF FilesInv
<1> QED BY <1>1, SemaInit, SemaStep, IdxInit, IdxStep, InitInv, FilesStep, PTL DEF Spec

(* open_cnt is the number of open files on the inode and deny_write_cnt    *)
(* the number of them that deny writing, in every step of any number of    *)
(* processes, with open and fork that find no memory, load that fails and  *)
(* processes that end in the middle of a call: inode_close frees an inode  *)
(* with the last file on it and not before.                                *)
THEOREM OpenCountsMatch == Spec => []CountsMatch
<1>1. FilesInv => CountsMatch
  BY DEF FilesInv
<1> QED BY <1>1, SemaInit, SemaStep, IdxInit, IdxStep, InitInv, FilesStep, PTL DEF Spec
===============================================================================
