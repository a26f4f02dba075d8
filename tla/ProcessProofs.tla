---------------------------- MODULE ProcessProofs -----------------------------
(***************************************************************************)
(* Proofs about fork, wait and exit, for every number of processes: their  *)
(* types, that what is read of a child or a parent is there, and that they *)
(* implement Family.                                                       *)
(***************************************************************************)
EXTENDS Process, TLAPS

CopyLabel == {"copy", "copied", "not_copied"}
EndLabel == {"exit_down", "dying", "freed"}

(* The labels of fork and wait at which the child is still in child_list,  *)
(* and the first of them, at which its sema_wait has not been taken.       *)
BeforeWait == {"fork_down", "fork_read", "wait_down"}
WithChild == BeforeWait \cup {"wait_read", "wait_remove"}

(* Tids are given out in order, and the initial thread is nobody's child   *)
(* and in none of the states of a process.                                 *)
Numbered ==
  /\ \A p \in Tid : p >= next_tid => pc[p] = "none"
  /\ \A p \in Tid : pc[p] = "none" => parent_t[p] = None
  /\ parent_t[Main] = None
  /\ pc[Main] \in {"boot", "wait_down", "wait_read", "wait_remove", "wait_up", "finished"}

(* A child_list has children only. *)
ListsChildren ==
  \A p \in Tid : \A c \in child_list[p] : parent_t[c] = p /\ pc[c] # "none"

(* What child is at each label. *)
ChildKnown ==
  \A p \in Tid :
    /\ pc[p] \in WithChild => child[p] \in child_list[p]
    /\ pc[p] = "wait_up" => /\ child[p] \in Tid \ child_list[p]
                            /\ parent_t[child[p]] = p
    /\ pc[p] \notin WithChild \cup {"wait_up"} => child[p] = None

(* fork_sema is up from the end of the copy until the parent has seen it. *)
ForkProtocol ==
  /\ \A c \in Tid : pc[c] \in CopyLabel =>
       /\ parent_t[c] \in Tid
       /\ pc[parent_t[c]] = "fork_down"
       /\ child[parent_t[c]] = c
       /\ fork_sema[parent_t[c]] = 0
  /\ \A p \in Tid : fork_sema[p] = 1 => pc[p] = "fork_down"

(* sema_wait is up from the end of a process until its parent waits,       *)
(* sema_exit from the end of that wait until the process goes on; in       *)
(* between the parent is inside process_wait.                              *)
Uncollected(c) ==
  /\ sema_exit[c] = 0
  /\ c \in child_list[parent_t[c]]
  /\ child[parent_t[c]] = c => pc[parent_t[c]] \in BeforeWait

InWait(c) ==
  /\ sema_wait[c] = 0 /\ sema_exit[c] = 0
  /\ child[parent_t[c]] = c
  /\ pc[parent_t[c]] \in {"wait_read", "wait_remove", "wait_up"}

LetGo(c) ==
  /\ sema_wait[c] = 0
  /\ c \notin child_list[parent_t[c]]
  /\ child[parent_t[c]] # c

ExitProtocol ==
  \A c \in Tid :
    /\ pc[c] \notin EndLabel => sema_wait[c] = 0 /\ sema_exit[c] = 0
    /\ pc[c] # "none" /\ c # Main => parent_t[c] \in Tid
    /\ pc[c] \notin EndLabel \cup {"none"} /\ c # Main => Uncollected(c)
    /\ pc[c] = "exit_down" => \/ sema_wait[c] = 1 /\ Uncollected(c)
                              \/ InWait(c)
                              \/ sema_exit[c] = 1 /\ LetGo(c)
    /\ pc[c] \in {"dying", "freed"} => sema_exit[c] = 0 /\ LetGo(c)

(* process_wait has read what the child left. *)
StatusRead ==
  \A p \in Tid : pc[p] \in {"wait_remove", "wait_up"} => ret[p] = exit_status[child[p]]

IInv ==
  /\ ProcTypeOK /\ Numbered /\ ListsChildren /\ ChildKnown
  /\ ForkProtocol /\ ExitProtocol /\ StatusRead
-----------------------------------------------------------------------------
(* The invariant holds at the start and is kept by every step. *)

LEMMA TidFacts ==
  /\ Main \in Tid /\ Main + 1 \in Tid /\ Tid \subseteq Int
  /\ None \notin Tid /\ None \notin ExitCode
  /\ {0, -1} \cup Status = ExitCode /\ ExitCode \subseteq Int
<1>1. Main \in Tid /\ Main + 1 \in Tid /\ Tid \subseteq Int
  BY ProcessAssumption DEF Tid
<1>2. ExitCode \subseteq Int /\ {0, -1} \cup Status = ExitCode
  <2>1. {0, -1} \subseteq Int
    OBVIOUS
  <2> QED BY <2>1, ProcessAssumption DEF ExitCode
<1> QED BY <1>1, <1>2, ProcessAssumption

LEMMA InitIInv == Init => IInv
<1> SUFFICES ASSUME Init PROVE IInv
  OBVIOUS
<1> USE TidFacts DEF Init
<1>1. ProcTypeOK
  BY ProcessAssumption DEF ProcTypeOK, Label, Tid
<1>2. Numbered
  BY ProcessAssumption DEF Numbered, Tid
<1>3. ListsChildren /\ ChildKnown
  BY DEF ListsChildren, ChildKnown, WithChild, BeforeWait
<1>4. ForkProtocol /\ ExitProtocol
  BY DEF ForkProtocol, CopyLabel, ExitProtocol, EndLabel
<1>5. StatusRead
  BY DEF StatusRead
<1> QED BY <1>1, <1>2, <1>3, <1>4, <1>5 DEF IInv

(* What thread_create gives out is not in use. *)
LEMMA NewTid ==
  ASSUME IInv, NEW p \in Tid, pc[p] # "none", NEW c \in Tid, c = next_tid
  PROVE  /\ c # p /\ c # Main /\ pc[c] = "none"
         /\ child[c] = None /\ fork_sema[c] = 0 /\ sema_wait[c] = 0 /\ sema_exit[c] = 0
         /\ \A q \in Tid : c \notin child_list[q] /\ child[q] # c
         /\ next_tid + 1 \in (Main + 1)..(MaxTid + 1)
         /\ \A q \in Tid : q >= next_tid + 1 => q >= next_tid /\ q # c
<1> USE DEF IInv
<1>1. pc[c] = "none" /\ c # p /\ c # Main
  BY TidFacts DEF Numbered
<1>2. child[c] = None /\ sema_wait[c] = 0 /\ sema_exit[c] = 0
  BY <1>1 DEF ChildKnown, WithChild, BeforeWait, ExitProtocol, EndLabel
<1>3. fork_sema[c] = 0
  BY <1>1 DEF ProcTypeOK, ForkProtocol
<1>4. ASSUME NEW q \in Tid PROVE c \notin child_list[q] /\ child[q] # c
  <2>1. c \notin child_list[q]
    BY <1>1 DEF ListsChildren
  <2>2. ASSUME pc[q] = "wait_up", child[q] = c PROVE FALSE
    BY <1>1, <2>2, TidFacts DEF ChildKnown, Numbered
  <2>3. child[q] # c
    BY <2>1, <2>2, TidFacts DEF ChildKnown
  <2> QED BY <2>1, <2>3
<1>5. next_tid + 1 \in (Main + 1)..(MaxTid + 1)
  BY ProcessAssumption DEF ProcTypeOK, Tid
<1>6. \A q \in Tid : q >= next_tid + 1 => q >= next_tid /\ q # c
  BY TidFacts DEF ProcTypeOK
<1> QED BY <1>1, <1>2, <1>3, <1>4, <1>5, <1>6

LEMMA CopyStep ==
  ASSUME IInv, NEW p \in Tid, Copy(p)
  PROVE  IInv'
<1> USE DEF IInv, Copy, At, semaVars, callVars
<1>1. ProcTypeOK'
  BY DEF Goto, ProcTypeOK, Label, ExitCode
<1>2. Numbered'
  BY DEF Goto, Numbered, ProcTypeOK
<1>3. ListsChildren'
  BY DEF Goto, ListsChildren, ProcTypeOK
<1>4. ChildKnown'
  BY DEF Goto, ChildKnown, WithChild, BeforeWait, ProcTypeOK
<1>5. ForkProtocol'
  BY DEF Goto, ForkProtocol, CopyLabel, ProcTypeOK
<1>6. ExitProtocol'
  BY DEF Goto, ExitProtocol, EndLabel, Uncollected, InWait, LetGo, ProcTypeOK,
     BeforeWait
<1>7. StatusRead'
  BY DEF Goto, StatusRead, ProcTypeOK
<1> QED BY <1>1, <1>2, <1>3, <1>4, <1>5, <1>6, <1>7

LEMMA CopyUpStep ==
  ASSUME IInv, NEW p \in Tid, CopyUp(p)
  PROVE  IInv'
<1> USE DEF IInv, CopyUp, At, semaVars, callVars
<1>1. ProcTypeOK'
  BY DEF Goto, Up, ProcTypeOK, Label, ExitCode, ForkProtocol, CopyLabel
<1>2. Numbered'
  BY DEF Goto, Up, Numbered, ProcTypeOK
<1>3. ListsChildren'
  BY DEF Goto, Up, ListsChildren, ProcTypeOK
<1>4. ChildKnown'
  BY DEF Goto, Up, ChildKnown, WithChild, BeforeWait, ProcTypeOK
<1>5. ForkProtocol'
  BY DEF Goto, Up, ForkProtocol, CopyLabel, ProcTypeOK
<1>6. ExitProtocol'
  BY DEF Goto, Up, ExitProtocol, EndLabel, Uncollected, InWait, LetGo,
     ProcTypeOK, BeforeWait
<1>7. StatusRead'
  BY DEF Goto, Up, StatusRead, ProcTypeOK
<1> QED BY <1>1, <1>2, <1>3, <1>4, <1>5, <1>6, <1>7

LEMMA ForkDownStep ==
  ASSUME IInv, NEW p \in Tid, ForkDown(p)
  PROVE  IInv'
<1> USE DEF IInv, ForkDown, At, semaVars, callVars
<1>1. ProcTypeOK'
  BY DEF Goto, Down, ProcTypeOK, Label, ExitCode
<1>2. Numbered'
  BY DEF Goto, Down, Numbered, ProcTypeOK
<1>3. ListsChildren'
  BY DEF Goto, Down, ListsChildren, ProcTypeOK
<1>4. ChildKnown'
  BY DEF Goto, Down, ChildKnown, WithChild, BeforeWait, ProcTypeOK
<1>5. ForkProtocol'
  BY DEF Goto, Down, ForkProtocol, CopyLabel, ProcTypeOK
<1>6. ExitProtocol'
  BY DEF Goto, Down, ExitProtocol, EndLabel, Uncollected, InWait, LetGo,
     ProcTypeOK, BeforeWait
<1>7. StatusRead'
  BY DEF Goto, Down, StatusRead, ProcTypeOK
<1> QED BY <1>1, <1>2, <1>3, <1>4, <1>5, <1>6, <1>7

LEMMA ForkReturnStep ==
  ASSUME IInv, NEW p \in Tid, ForkReturn(p)
  PROVE  IInv'
<1> USE DEF IInv, ForkReturn, At, semaVars, callVars
<1>1. ProcTypeOK'
  BY DEF Goto, ProcTypeOK, Label, ExitCode, TID_ERROR
<1>2. Numbered'
  BY DEF Goto, Numbered, ProcTypeOK
<1>3. ListsChildren'
  BY DEF Goto, ListsChildren, ProcTypeOK
<1>4. ChildKnown'
  BY DEF Goto, ChildKnown, WithChild, BeforeWait, ProcTypeOK
<1>5. ForkProtocol'
  BY DEF Goto, ForkProtocol, CopyLabel, ProcTypeOK
<1>6. ExitProtocol'
  BY TidFacts DEF ProcTypeOK, ListsChildren, ChildKnown, WithChild,
     BeforeWait, ExitProtocol, EndLabel, Uncollected, InWait, LetGo, Goto
<1>7. StatusRead'
  BY DEF Goto, StatusRead, ProcTypeOK
<1> QED BY <1>1, <1>2, <1>3, <1>4, <1>5, <1>6, <1>7

LEMMA CallExitStep ==
  ASSUME IInv, NEW p \in Tid, NEW status \in Status, CallExit(p, status)
  PROVE  IInv'
<1> USE DEF IInv, CallExit, At, semaVars, callVars
<1>1. ProcTypeOK'
  BY DEF Goto, ProcTypeOK, Label, ExitCode
<1>2. Numbered'
  BY DEF Goto, Numbered, ProcTypeOK
<1>3. ListsChildren'
  BY DEF Goto, ListsChildren, ProcTypeOK
<1>4. ChildKnown'
  BY DEF Goto, ChildKnown, WithChild, BeforeWait, ProcTypeOK
<1>5. ForkProtocol'
  BY DEF Goto, ForkProtocol, CopyLabel, ProcTypeOK
<1>6. ExitProtocol'
  BY DEF Goto, ExitProtocol, EndLabel, Uncollected, InWait, LetGo, ProcTypeOK,
     BeforeWait
<1>7. StatusRead'
  BY DEF Goto, StatusRead, ProcTypeOK, Numbered, ListsChildren, ChildKnown,
     WithChild, BeforeWait, ExitProtocol, EndLabel, Uncollected, InWait, LetGo
<1> QED BY <1>1, <1>2, <1>3, <1>4, <1>5, <1>6, <1>7

LEMMA CopyFailedStep ==
  ASSUME IInv, NEW p \in Tid, CopyFailed(p)
  PROVE  IInv'
<1> USE DEF IInv, CopyFailed, At, semaVars, callVars
<1>1. ProcTypeOK'
  BY DEF Goto, ProcTypeOK, Label, ExitCode, TID_ERROR
<1>2. Numbered'
  BY DEF Goto, Numbered, ProcTypeOK
<1>3. ListsChildren'
  BY DEF Goto, ListsChildren, ProcTypeOK
<1>4. ChildKnown'
  BY DEF Goto, ChildKnown, WithChild, BeforeWait, ProcTypeOK
<1>5. ForkProtocol'
  BY DEF Goto, ForkProtocol, CopyLabel, ProcTypeOK
<1>6. ExitProtocol'
  BY DEF Goto, ExitProtocol, EndLabel, Uncollected, InWait, LetGo, ProcTypeOK,
     BeforeWait
<1>7. StatusRead'
  BY DEF Goto, StatusRead, ProcTypeOK, Numbered, ListsChildren, ChildKnown,
     WithChild, BeforeWait, ExitProtocol, EndLabel, Uncollected, InWait, LetGo
<1> QED BY <1>1, <1>2, <1>3, <1>4, <1>5, <1>6, <1>7

LEMMA KillStep ==
  ASSUME IInv, NEW p \in Tid, Kill(p)
  PROVE  IInv'
<1> USE DEF IInv, Kill, At, semaVars, callVars
<1>1. ProcTypeOK'
  BY DEF Goto, ProcTypeOK, Label, ExitCode
<1>2. Numbered'
  BY DEF Goto, Numbered, ProcTypeOK
<1>3. ListsChildren'
  BY DEF Goto, ListsChildren, ProcTypeOK
<1>4. ChildKnown'
  BY DEF Goto, ChildKnown, WithChild, BeforeWait, ProcTypeOK
<1>5. ForkProtocol'
  BY DEF Goto, ForkProtocol, CopyLabel, ProcTypeOK
<1>6. ExitProtocol'
  BY DEF Goto, ExitProtocol, EndLabel, Uncollected, InWait, LetGo, ProcTypeOK,
     BeforeWait
<1>7. StatusRead'
  BY DEF Goto, StatusRead, ProcTypeOK
<1> QED BY <1>1, <1>2, <1>3, <1>4, <1>5, <1>6, <1>7

LEMMA ExitUpStep ==
  ASSUME IInv, NEW p \in Tid, ExitUp(p)
  PROVE  IInv'
<1> USE DEF IInv, ExitUp, At, semaVars, callVars
<1>1. ProcTypeOK'
  BY DEF Goto, Up, ProcTypeOK, Label, ExitCode, ExitProtocol, EndLabel,
     Uncollected, InWait, LetGo
<1>2. Numbered'
  BY DEF Goto, Up, Numbered, ProcTypeOK
<1>3. ListsChildren'
  BY DEF Goto, Up, ListsChildren, ProcTypeOK
<1>4. ChildKnown'
  BY DEF Goto, Up, ChildKnown, WithChild, BeforeWait, ProcTypeOK
<1>5. ForkProtocol'
  BY DEF Goto, Up, ForkProtocol, CopyLabel, ProcTypeOK
<1>6. ExitProtocol'
  BY DEF Goto, Up, ExitProtocol, EndLabel, Uncollected, InWait, LetGo,
     ProcTypeOK, BeforeWait, Numbered
<1>7. StatusRead'
  BY DEF Goto, Up, StatusRead, ProcTypeOK
<1> QED BY <1>1, <1>2, <1>3, <1>4, <1>5, <1>6, <1>7

(* In do_schedule processes that have died lose their pages: nobody else   *)
(* moves on but the process that is dying now.                             *)
Reaping ==
  \A q \in Tid :
    \/ pc'[q] = pc[q]
    \/ pc[q] = "dying" /\ pc'[q] = "freed"
    \/ pc[q] = "exit_down" /\ pc'[q] = "dying"

LEMMA ReapingKeeps ==
  ASSUME IInv, Reaping, pc' \in [Tid -> Label],
         UNCHANGED <<next_tid, parent_t, child_list, exit_status, fork_sema, sema_wait,
                     child, ret, on>>
  PROVE  /\ Numbered' /\ ListsChildren' /\ ChildKnown' /\ ForkProtocol' /\ StatusRead'
         /\ \A c \in Tid : c # Main /\ pc[c] # "none" /\ sema_exit'[c] = sema_exit[c] =>
              /\ Uncollected(c) => Uncollected(c)'
              /\ InWait(c) => InWait(c)'
<1> USE DEF IInv, Reaping
<1>1. /\ \A q \in Tid : pc'[q] = "none" <=> pc[q] = "none"
      /\ \A q \in Tid : pc[q] \in EndLabel <=> pc'[q] \in EndLabel
      /\ \A q \in Tid : pc[q] \in EndLabel \/ pc'[q] = pc[q]
  BY DEF EndLabel
<1>2. Numbered'
  <2>1. Main \in Tid /\ pc'[Main] = pc[Main]
    BY TidFacts DEF Numbered
  <2> QED BY <1>1, <2>1 DEF Numbered
<1>3. ListsChildren'
  BY <1>1 DEF ListsChildren, ProcTypeOK
<1>4. ChildKnown' /\ StatusRead'
  BY DEF ChildKnown, WithChild, BeforeWait, StatusRead
<1>5. ForkProtocol'
  BY DEF ForkProtocol, CopyLabel
<1>6. ASSUME NEW c \in Tid, c # Main, pc[c] # "none", sema_exit'[c] = sema_exit[c]
      PROVE  (Uncollected(c) => Uncollected(c)') /\ (InWait(c) => InWait(c)')
  <2>1. parent_t[c] \in Tid
    BY <1>6 DEF ExitProtocol
  <2> QED BY <1>6, <2>1 DEF Uncollected, InWait, BeforeWait
<1> QED BY <1>2, <1>3, <1>4, <1>5, <1>6

LEMMA ExitDownStep ==
  ASSUME IInv, NEW p \in Tid, ExitDown(p)
  PROVE  IInv'
<1> USE DEF IInv, ExitDown, At, semaVars, callVars
<1>0. /\ pc[p] = "exit_down"
      /\ pc' = [q \in Tid |-> IF q = p THEN "dying" ELSE IF pc[q] = "dying" THEN "freed"
                              ELSE pc[q]]
  BY DEF LastDying, Reaped
<1>1. /\ pc[p] = "exit_down" /\ pc'[p] = "dying"
      /\ \A q \in Tid : q # p => pc'[q] = pc[q] \/ (pc[q] = "dying" /\ pc'[q] = "freed")
  BY <1>0
<1>2. pc' \in [Tid -> Label] /\ Reaping
  <2>1. pc' \in [Tid -> Label]
    BY <1>0 DEF ProcTypeOK, Label
  <2> QED BY <1>1, <2>1 DEF Reaping
<1>3. /\ sema_exit' \in [Tid -> {0, 1}]
      /\ sema_exit[p] = 1 /\ sema_exit'[p] = 0
      /\ \A c \in Tid : c # p => sema_exit'[c] = sema_exit[c]
  BY DEF ProcTypeOK, Down
<1>4. ProcTypeOK'
  BY <1>2, <1>3 DEF ProcTypeOK
<1>5. ExitProtocol'
  <2>1. LetGo(p) /\ p # Main
    BY <1>1, <1>3 DEF Numbered, ExitProtocol, Uncollected, InWait
  <2>2. \A c \in Tid : LetGo(c) => LetGo(c)'
    BY DEF LetGo
  <2>3. ASSUME NEW c \in Tid, c # p
        PROVE  /\ pc'[c] \notin EndLabel => sema_wait'[c] = 0 /\ sema_exit'[c] = 0
               /\ pc'[c] # "none" /\ c # Main => parent_t'[c] \in Tid
               /\ pc'[c] \notin EndLabel \cup {"none"} /\ c # Main => Uncollected(c)'
               /\ pc'[c] = "exit_down" => \/ sema_wait'[c] = 1 /\ Uncollected(c)'
                                          \/ InWait(c)'
                                          \/ sema_exit'[c] = 1 /\ LetGo(c)'
               /\ pc'[c] \in {"dying", "freed"} => sema_exit'[c] = 0 /\ LetGo(c)'
    <3>1. c # Main /\ pc[c] # "none" =>
            (Uncollected(c) => Uncollected(c)') /\ (InWait(c) => InWait(c)')
      BY <1>2, <1>3, <2>3, ReapingKeeps
    <3>2. pc[Main] # "exit_down" /\ "none" # "exit_down"
      BY DEF Numbered
    <3> QED BY <1>1, <1>3, <2>2, <2>3, <3>1, <3>2 DEF ExitProtocol, EndLabel
  <2>4. parent_t'[p] \in Tid
    BY <1>1, <2>1 DEF ExitProtocol
  <2> QED BY <1>1, <1>3, <2>1, <2>2, <2>3, <2>4 DEF ExitProtocol, EndLabel
<1> QED BY <1>2, <1>4, <1>5, ReapingKeeps

LEMMA YieldStep ==
  ASSUME IInv, NEW p \in Tid, Yield(p)
  PROVE  IInv'
<1> USE DEF IInv, Yield, semaVars, callVars
<1>1. \A q \in Tid : pc'[q] = pc[q] \/ (pc[q] = "dying" /\ pc'[q] = "freed")
  BY DEF Reaped
<1>2. pc' \in [Tid -> Label] /\ Reaping
  <2>1. pc' \in [Tid -> Label]
    BY DEF Reaped, ProcTypeOK, Label
  <2> QED BY <1>1, <2>1 DEF Reaping
<1>3. ProcTypeOK'
  BY <1>2 DEF ProcTypeOK
<1>4. ExitProtocol'
  <2>1. \A c \in Tid : LetGo(c) => LetGo(c)'
    BY DEF LetGo
  <2>2. \A c \in Tid : c # Main /\ pc[c] # "none" =>
            (Uncollected(c) => Uncollected(c)') /\ (InWait(c) => InWait(c)')
    BY <1>2, ReapingKeeps
  <2>3. pc[Main] # "exit_down" /\ "none" # "exit_down"
    BY DEF Numbered
  <2> QED BY <1>1, <2>1, <2>2, <2>3 DEF ExitProtocol, EndLabel
<1> QED BY <1>2, <1>3, <1>4, ReapingKeeps

LEMMA WaitStep ==
  ASSUME IInv, NEW p \in Tid, NEW tid \in Tid, Wait(p, tid)
  PROVE  IInv'
<1> USE DEF IInv, Wait, At, semaVars, callVars
<1>1. ProcTypeOK'
  BY DEF Goto, ProcTypeOK, Label, ExitCode
<1>2. Numbered'
  BY TidFacts DEF Goto, Numbered, ProcTypeOK
<1>3. ListsChildren'
  BY DEF Goto, ListsChildren, ProcTypeOK
<1>4. ChildKnown'
  BY DEF Goto, ChildKnown, WithChild, BeforeWait, ProcTypeOK
<1>5. ForkProtocol'
  BY DEF Goto, ForkProtocol, CopyLabel, ProcTypeOK
<1>6. ExitProtocol'
  BY DEF Goto, ExitProtocol, EndLabel, Uncollected, InWait, LetGo, ProcTypeOK,
     BeforeWait, Numbered
<1>7. StatusRead'
  BY DEF Goto, StatusRead, ProcTypeOK
<1> QED BY <1>1, <1>2, <1>3, <1>4, <1>5, <1>6, <1>7

LEMMA WaitDownStep ==
  ASSUME IInv, NEW p \in Tid, WaitDown(p)
  PROVE  IInv'
<1> USE DEF IInv, WaitDown, At, semaVars, callVars
<1>1. ProcTypeOK'
  BY DEF Goto, Down, ProcTypeOK, Label, ExitCode, ListsChildren, ChildKnown,
     WithChild, BeforeWait, ExitProtocol, EndLabel, Uncollected, InWait, LetGo
<1>2. Numbered'
  BY DEF Goto, Down, Numbered, ProcTypeOK
<1>3. ListsChildren'
  BY DEF Goto, Down, ListsChildren, ProcTypeOK
<1>4. ChildKnown'
  BY DEF Goto, Down, ChildKnown, WithChild, BeforeWait, ProcTypeOK
<1>5. ForkProtocol'
  BY DEF Goto, Down, ForkProtocol, CopyLabel, ProcTypeOK
<1>6. ExitProtocol'
  BY DEF Goto, Down, ExitProtocol, EndLabel, Uncollected, InWait, LetGo,
     ProcTypeOK, ListsChildren, ChildKnown, WithChild, BeforeWait
<1>7. StatusRead'
  BY DEF Goto, Down, StatusRead, ProcTypeOK
<1> QED BY <1>1, <1>2, <1>3, <1>4, <1>5, <1>6, <1>7

LEMMA WaitReadStep ==
  ASSUME IInv, NEW p \in Tid, WaitRead(p)
  PROVE  IInv'
<1> USE DEF IInv, WaitRead, At, semaVars, callVars
<1>1. ProcTypeOK'
  BY DEF Goto, ProcTypeOK, Label, ExitCode, ListsChildren, ChildKnown,
     WithChild, BeforeWait, ExitProtocol, EndLabel, Uncollected, InWait, LetGo
<1>2. Numbered'
  BY DEF Goto, Numbered, ProcTypeOK
<1>3. ListsChildren'
  BY DEF Goto, ListsChildren, ProcTypeOK
<1>4. ChildKnown'
  BY DEF Goto, ChildKnown, WithChild, BeforeWait, ProcTypeOK
<1>5. ForkProtocol'
  BY DEF Goto, ForkProtocol, CopyLabel, ProcTypeOK
<1>6. ExitProtocol'
  BY DEF Goto, ExitProtocol, EndLabel, Uncollected, InWait, LetGo, ProcTypeOK,
     BeforeWait
<1>7. StatusRead'
  BY DEF Goto, StatusRead, ProcTypeOK
<1> QED BY <1>1, <1>2, <1>3, <1>4, <1>5, <1>6, <1>7

LEMMA WaitRemoveStep ==
  ASSUME IInv, NEW p \in Tid, WaitRemove(p)
  PROVE  IInv'
<1> USE DEF IInv, WaitRemove, At, semaVars, callVars
<1>1. ProcTypeOK'
  BY DEF Goto, ProcTypeOK, Label, ExitCode
<1>2. Numbered'
  BY DEF Goto, Numbered, ProcTypeOK
<1>3. ListsChildren'
  BY DEF Goto, ListsChildren, ProcTypeOK
<1>4. ChildKnown'
  BY DEF Goto, ChildKnown, WithChild, BeforeWait, ProcTypeOK, ListsChildren
<1>5. ForkProtocol'
  BY DEF Goto, ForkProtocol, CopyLabel, ProcTypeOK
<1>6. ExitProtocol'
  BY DEF Goto, ExitProtocol, EndLabel, Uncollected, InWait, LetGo, ProcTypeOK,
     BeforeWait
<1>7. StatusRead'
  BY DEF Goto, StatusRead, ProcTypeOK
<1> QED BY <1>1, <1>2, <1>3, <1>4, <1>5, <1>6, <1>7

LEMMA WaitUpStep ==
  ASSUME IInv, NEW p \in Tid, WaitUp(p)
  PROVE  IInv'
<1> USE DEF IInv, WaitUp, At, semaVars, callVars
<1>1. ProcTypeOK'
  BY DEF Goto, Up, ProcTypeOK, Label, ExitCode, ListsChildren, ChildKnown,
     WithChild, BeforeWait, ExitProtocol, EndLabel, Uncollected, InWait, LetGo
<1>2. Numbered'
  BY DEF Goto, Up, Numbered, ProcTypeOK
<1>3. ListsChildren'
  BY DEF Goto, Up, ListsChildren, ProcTypeOK
<1>4. ChildKnown'
  BY DEF Goto, Up, ChildKnown, WithChild, BeforeWait, ProcTypeOK
<1>5. ForkProtocol'
  BY DEF Goto, Up, ForkProtocol, CopyLabel, ProcTypeOK
<1>6. ExitProtocol'
  <2>0. PICK d \in Tid : d = child[p]
    BY DEF ChildKnown
  <2>1. parent_t[d] = p /\ d # Main /\ pc[d] # "none" /\ d \notin child_list[p]
    BY <2>0, TidFacts DEF ChildKnown, Numbered
  <2>2. pc[d] = "exit_down" /\ InWait(d)
    BY <2>0, <2>1 DEF ExitProtocol, EndLabel, Uncollected, LetGo
  <2>3. \A c \in Tid : c # d => (parent_t[c] = p => child[p] # c /\ child'[p] # c)
    BY <2>0, TidFacts DEF ProcTypeOK
  <2>4. sema_exit'[d] = 1 /\ LetGo(d)'
    BY <2>0, <2>1, <2>2, TidFacts DEF ProcTypeOK, InWait, LetGo, Goto, Up
  <2>5. ASSUME NEW c \in Tid, c # d, c # p
        PROVE  /\ pc'[c] = pc[c] /\ sema_wait'[c] = sema_wait[c] /\ sema_exit'[c] = sema_exit[c]
               /\ Uncollected(c) => Uncollected(c)'
               /\ InWait(c) => InWait(c)'
               /\ LetGo(c) => LetGo(c)'
    BY <2>0, <2>3, <2>5 DEF ProcTypeOK, Uncollected, InWait, LetGo, BeforeWait, Goto, Up
  <2>6. p # d /\ pc'[d] = "exit_down" /\ sema_wait'[p] = 0 /\ sema_exit'[p] = 0
    BY <2>0, <2>1, <2>2 DEF ProcTypeOK, ExitProtocol, EndLabel, Goto, Up
  <2>7. pc'[p] \notin EndLabel \cup {"none"} /\ (p # Main => Uncollected(p)')
    BY <2>1, <2>3, <2>6, TidFacts
       DEF ProcTypeOK, ExitProtocol, EndLabel, Uncollected, BeforeWait, ChildKnown, Goto, Up
  <2>8. \A c \in Tid : pc'[c] # "none" /\ c # Main => parent_t'[c] \in Tid
    BY <2>1, <2>2, <2>5, <2>6 DEF ExitProtocol
  <2>9. \A c \in Tid : c # d /\ c # p =>
          /\ pc'[c] \notin EndLabel => sema_wait'[c] = 0 /\ sema_exit'[c] = 0
          /\ pc'[c] \notin EndLabel \cup {"none"} /\ c # Main => Uncollected(c)'
          /\ pc'[c] = "exit_down" => \/ sema_wait'[c] = 1 /\ Uncollected(c)'
                                     \/ InWait(c)'
                                     \/ sema_exit'[c] = 1 /\ LetGo(c)'
          /\ pc'[c] \in {"dying", "freed"} => sema_exit'[c] = 0 /\ LetGo(c)'
    BY <2>5 DEF ExitProtocol
  <2> QED BY <2>4, <2>6, <2>7, <2>8, <2>9 DEF ExitProtocol, EndLabel
<1>7. StatusRead'
  BY DEF Goto, Up, StatusRead, ProcTypeOK
<1> QED BY <1>1, <1>2, <1>3, <1>4, <1>5, <1>6, <1>7

(* A new process, and its creator at label: in fork or in wait for it, or  *)
(* back in user mode.                                                      *)
LEMMA CreationStep ==
  ASSUME IInv, NEW p \in Tid, NEW c \in Tid, NEW label, NEW entry,
         thread_create(p, label, c, entry),
         pc[p] \in {"boot", "user"}, p = Main => label \in {"wait_down", "finished"},
         entry \in {"initd", "copy", "never_run"}, entry = "copy" => label = "fork_down",
         \/ label \in {"fork_down", "wait_down"} /\ child' = [child EXCEPT ![p] = c]
         \/ label \in {"user", "finished"} /\ child' = child,
         \/ ret' = ret
         \/ \E r \in {None, TID_ERROR} : ret' = [ret EXCEPT ![p] = r],
         UNCHANGED <<exit_status, fork_sema, sema_wait, sema_exit, on>>
  PROVE  IInv'
<1> USE DEF IInv
<1>0. /\ c = next_tid /\ next_tid' = next_tid + 1
      /\ pc' = [pc EXCEPT ![p] = label, ![c] = entry]
      /\ parent_t' = [parent_t EXCEPT ![c] = p]
      /\ child_list' = [child_list EXCEPT ![p] = @ \cup {c}]
  BY DEF thread_create
<1>1. /\ c # p /\ c # Main /\ pc[c] = "none"
      /\ child[c] = None /\ fork_sema[c] = 0 /\ sema_wait[c] = 0 /\ sema_exit[c] = 0
      /\ \A q \in Tid : c \notin child_list[q] /\ child[q] # c
      /\ next_tid + 1 \in (Main + 1)..(MaxTid + 1)
      /\ \A q \in Tid : q >= next_tid + 1 => q >= next_tid /\ q # c
  BY <1>0, NewTid
<1>2. /\ pc'[p] = label /\ pc'[c] = entry /\ parent_t'[c] = p
      /\ child_list'[p] = child_list[p] \cup {c} /\ child_list'[c] = child_list[c]
      /\ child'[c] = None
      /\ child[p] = None /\ label \in {"fork_down", "wait_down", "user", "finished"}
  BY <1>0, <1>1 DEF ProcTypeOK, ChildKnown, WithChild, BeforeWait
<1>3. ASSUME NEW q \in Tid, q # p, q # c
      PROVE  /\ pc'[q] = pc[q] /\ parent_t'[q] = parent_t[q] /\ child'[q] = child[q]
             /\ child_list'[q] = child_list[q] /\ ret'[q] = ret[q]
  BY <1>0, <1>3 DEF ProcTypeOK
<1>4. ProcTypeOK'
  <2>1. pc' \in [Tid -> Label] /\ parent_t' \in [Tid -> Tid \cup {None}]
        /\ child_list' \in [Tid -> SUBSET Tid] /\ child' \in [Tid -> Tid \cup {None}]
    BY <1>0, <1>2 DEF ProcTypeOK, Label
  <2>2. ret' \in [Tid -> Tid \cup ExitCode \cup {None}]
    BY TidFacts DEF ProcTypeOK, TID_ERROR
  <2> QED BY <1>0, <1>1, <2>1, <2>2 DEF ProcTypeOK
<1>5. Numbered'
  <2>1. ASSUME NEW q \in Tid, q >= next_tid' PROVE pc'[q] = "none"
    <3>1. pc[q] = "none" /\ q # c
      BY <1>0, <1>1, <2>1 DEF Numbered
    <3> QED BY <1>3, <3>1
  <2>2. ASSUME NEW q \in Tid, pc'[q] = "none" PROVE parent_t'[q] = None
    <3>1. q # p /\ q # c
      BY <1>2, <2>2
    <3> QED BY <1>3, <2>2, <3>1 DEF Numbered
  <2>3. parent_t'[Main] = None
        /\ pc'[Main] \in {"boot", "wait_down", "wait_read", "wait_remove", "wait_up", "finished"}
    <3>1. CASE Main = p
      BY <1>0, <1>1, <1>2, <3>1 DEF Numbered, ProcTypeOK
    <3>2. CASE Main # p
      BY <1>1, <1>3, <3>2, TidFacts DEF Numbered
    <3> QED BY <3>1, <3>2
  <2> QED BY <2>1, <2>2, <2>3 DEF Numbered
<1>6. ListsChildren'
  <2>1. ASSUME NEW q \in Tid, NEW d \in child_list'[q], d # c
        PROVE  parent_t'[d] = q /\ pc'[d] # "none"
    <3>1. d \in child_list[q]
      BY <1>2, <1>3, <2>1
    <3>2. d \in Tid /\ parent_t[d] = q /\ pc[d] # "none"
      BY <3>1 DEF ListsChildren, ProcTypeOK
    <3>3. parent_t'[d] = parent_t[d]
      BY <1>0, <2>1, <3>2 DEF ProcTypeOK
    <3>4. pc'[d] # "none"
      BY <1>2, <1>3, <2>1, <3>2
    <3> QED BY <3>2, <3>3, <3>4
  <2>2. ASSUME NEW q \in Tid, c \in child_list'[q] PROVE q = p
    BY <1>1, <1>2, <1>3, <2>2
  <2>3. pc'[c] # "none"
    BY <1>2
  <2> QED BY <1>2, <2>1, <2>2, <2>3 DEF ListsChildren
<1>7. ChildKnown'
  <2>1. /\ pc'[p] \in WithChild => child'[p] \in child_list'[p]
        /\ pc'[p] # "wait_up"
        /\ pc'[p] \notin WithChild \cup {"wait_up"} => child'[p] = None
    BY <1>2 DEF ProcTypeOK, WithChild, BeforeWait
  <2>2. pc'[c] \notin WithChild \cup {"wait_up"}
    BY <1>2 DEF WithChild, BeforeWait
  <2>3. ASSUME NEW q \in Tid, q # p, q # c
        PROVE  /\ pc'[q] \in WithChild => child'[q] \in child_list'[q]
               /\ pc'[q] = "wait_up" => /\ child'[q] \in Tid \ child_list'[q]
                                        /\ parent_t'[child'[q]] = q
               /\ pc'[q] \notin WithChild \cup {"wait_up"} => child'[q] = None
    <3>1. child[q] \in Tid => parent_t'[child[q]] = parent_t[child[q]]
      BY <1>0, <1>1 DEF ProcTypeOK
    <3> QED BY <1>3, <2>3, <3>1 DEF ChildKnown
  <2> QED BY <1>2, <2>1, <2>2, <2>3 DEF ChildKnown
<1>8. ForkProtocol'
  <2>1. ASSUME NEW d \in Tid, pc[d] \in CopyLabel
        PROVE  /\ d # p /\ d # c /\ parent_t[d] # p /\ parent_t[d] # c
    BY <1>1, <2>1 DEF ForkProtocol, CopyLabel
  <2>2. ASSUME entry = "copy"
        PROVE  child'[p] = c /\ label = "fork_down" /\ fork_sema[p] = 0
    BY <1>2, <2>2 DEF ProcTypeOK, ForkProtocol
  <2>3. \A d \in Tid : pc'[d] \in CopyLabel => pc[d] \in CopyLabel \/ (d = c /\ entry = "copy")
    BY <1>2, <1>3 DEF CopyLabel
  <2>4. fork_sema[p] # 1
    BY DEF ForkProtocol
  <2> QED BY <1>1, <1>2, <1>3, <2>1, <2>2, <2>3, <2>4 DEF ForkProtocol
<1>9. ExitProtocol'
  <2>1. ASSUME NEW d \in Tid, d # c, pc[d] # "none", d # Main
        PROVE  /\ parent_t'[d] = parent_t[d] /\ parent_t[d] \in Tid
               /\ Uncollected(d) => Uncollected(d)'
               /\ InWait(d) => InWait(d)'
               /\ LetGo(d) => LetGo(d)'
    <3>1. parent_t'[d] = parent_t[d] /\ parent_t[d] \in Tid
      BY <1>0, <2>1 DEF ProcTypeOK, ExitProtocol
    <3>2. CASE parent_t[d] = p
      BY <1>2, <2>1, <3>1, <3>2, TidFacts DEF ProcTypeOK, Uncollected, InWait, LetGo, BeforeWait
    <3>3. CASE parent_t[d] = c
      <4>1. child[c] # d /\ child'[c] # d
        BY <1>1, <1>2, TidFacts
      <4> QED BY <1>2, <3>1, <3>3, <4>1 DEF Uncollected, InWait, LetGo
    <3>4. CASE parent_t[d] # p /\ parent_t[d] # c
      BY <1>3, <3>1, <3>4 DEF Uncollected, InWait, LetGo
    <3> QED BY <3>1, <3>2, <3>3, <3>4
  <2>2. Uncollected(c)' /\ parent_t'[c] = p
    BY <1>1, <1>2 DEF Uncollected, BeforeWait
  <2>3. \A d \in Tid : d # c => \/ pc'[d] = pc[d]
                                \/ d = p /\ {pc[d], pc'[d]} \cap (EndLabel \cup {"none"}) = {}
    BY <1>2, <1>3 DEF EndLabel
  <2>4. pc'[c] \notin EndLabel
    BY <1>2 DEF EndLabel
  <2>5. \A d \in Tid : d # c => (pc'[d] = "none" <=> pc[d] = "none")
                                /\ (pc'[d] \in EndLabel <=> pc[d] \in EndLabel)
    BY <2>3
  <2>6. \A d \in EndLabel : d # "none"
    BY DEF EndLabel
  <2>7. Main # c /\ (pc[Main] \notin EndLabel) /\ pc[Main] # "none"
    BY <1>1 DEF Numbered, EndLabel
  <2>8. ASSUME NEW d \in Tid
        PROVE  /\ pc'[d] \notin EndLabel => sema_wait'[d] = 0 /\ sema_exit'[d] = 0
               /\ pc'[d] # "none" /\ d # Main => parent_t'[d] \in Tid
               /\ pc'[d] \notin EndLabel \cup {"none"} /\ d # Main => Uncollected(d)'
    BY <1>1, <2>1, <2>2, <2>4, <2>5 DEF ExitProtocol
  <2>9. ASSUME NEW d \in Tid, pc'[d] \in EndLabel
        PROVE  d # c /\ d # Main /\ pc[d] = pc'[d] /\ pc[d] # "none"
    BY <2>3, <2>4, <2>5, <2>6, <2>7, <2>9
  <2> QED BY <2>1, <2>8, <2>9 DEF ExitProtocol, EndLabel
<1>10. StatusRead'
  <2>1. ASSUME NEW q \in Tid, pc'[q] \in {"wait_remove", "wait_up"}
        PROVE  q # p /\ q # c
    BY <1>2, <2>1
  <2> QED BY <1>3, <2>1 DEF StatusRead
<1> QED BY <1>4, <1>5, <1>6, <1>7, <1>8, <1>9, <1>10

LEMMA CreateInitdStep == ASSUME IInv, CreateInitd PROVE IInv'
BY CreationStep, TidFacts DEF CreateInitd, At, semaVars

LEMMA InitdOutOfMemoryStep == ASSUME IInv, InitdOutOfMemory PROVE IInv'
<1> USE TidFacts DEF InitdOutOfMemory, At
<1>1. CASE Goto(Main, "finished") /\ UNCHANGED <<next_tid, parent_t, child_list>>
  <2> USE <1>1 DEF IInv, Goto, semaVars
  <2>1. ProcTypeOK'
    BY DEF ProcTypeOK, Label
  <2>2. Numbered' /\ ListsChildren' /\ ChildKnown'
    BY DEF ProcTypeOK, Numbered, ListsChildren, ChildKnown, WithChild, BeforeWait
  <2>3. ForkProtocol' /\ StatusRead'
    BY DEF ProcTypeOK, ForkProtocol, CopyLabel, StatusRead
  <2>4. ExitProtocol'
    BY DEF ProcTypeOK, ExitProtocol, EndLabel, Uncollected, InWait, LetGo, BeforeWait,
       ListsChildren, ChildKnown, WithChild
  <2> QED BY <2>1, <2>2, <2>3, <2>4
<1>2. CASE \E c \in Tid : thread_create(Main, "finished", c, "never_run")
  BY <1>2, CreationStep DEF semaVars, TID_ERROR
<1> QED BY <1>1, <1>2

LEMMA ForkStep == ASSUME IInv, NEW p \in Tid, Fork(p) PROVE IInv'
<1>1. p # Main
  BY DEF Fork, At, IInv, Numbered
<1> QED BY <1>1, CreationStep DEF Fork, At, semaVars

(* Steps that change nothing but ret or on keep the invariant. *)
LEMMA ReturnStep ==
  ASSUME IInv, NEW p \in Tid, pc[p] \notin {"wait_remove", "wait_up"}, on' \in BOOLEAN,
         \/ ret' = ret
         \/ \E r \in {None, TID_ERROR} : ret' = [ret EXCEPT ![p] = r],
         UNCHANGED <<next_tid, pc, parent_t, child_list, exit_status, semaVars, child>>
  PROVE  IInv'
<1> USE DEF IInv, semaVars
<1>1. ret' \in [Tid -> Tid \cup ExitCode \cup {None}]
  BY TidFacts DEF ProcTypeOK, TID_ERROR
<1>2. ProcTypeOK'
  BY <1>1 DEF ProcTypeOK
<1>3. Numbered' /\ ListsChildren' /\ ChildKnown' /\ ForkProtocol'
  BY DEF Numbered, ListsChildren, ChildKnown, ForkProtocol
<1>4. ExitProtocol'
  BY DEF ExitProtocol, Uncollected, InWait, LetGo
<1>5. StatusRead'
  <2>1. \A q \in Tid : q # p => ret'[q] = ret[q]
    BY DEF ProcTypeOK
  <2> QED BY <2>1 DEF StatusRead
<1> QED BY <1>2, <1>3, <1>4, <1>5

LEMMA ForkOutOfMemoryStep == ASSUME IInv, NEW p \in Tid, ForkOutOfMemory(p) PROVE IInv'
<1> USE DEF ForkOutOfMemory, At
<1>1. p # Main /\ on' \in BOOLEAN
  BY DEF IInv, Numbered, ProcTypeOK
<1>2. CASE UNCHANGED <<next_tid, pc, parent_t, child_list>>
  BY <1>1, <1>2, ReturnStep
<1>3. CASE \E c \in Tid : thread_create(p, "user", c, "never_run")
  BY <1>1, <1>3, CreationStep DEF semaVars
<1> QED BY <1>2, <1>3

LEMMA PowerOffStep == ASSUME IInv, NEW p \in Tid, PowerOff(p) PROVE IInv'
BY ReturnStep DEF PowerOff, callVars

LEMMA InitdStep == ASSUME IInv, NEW p \in Tid, Initd(p) PROVE IInv'
<1> USE DEF Initd, At, semaVars, callVars
<1>1. CASE on' = FALSE /\ UNCHANGED pc
  BY <1>1, ReturnStep
<1>2. CASE Goto(p, "user") /\ UNCHANGED on
  <2> USE <1>2 DEF IInv, Goto
  <2>1. ProcTypeOK' /\ Numbered' /\ ListsChildren'
    BY DEF ProcTypeOK, Numbered, ListsChildren, Label
  <2>2. ChildKnown' /\ StatusRead'
    BY DEF ProcTypeOK, ChildKnown, WithChild, BeforeWait, StatusRead
  <2>3. ForkProtocol'
    BY DEF ProcTypeOK, ForkProtocol, CopyLabel
  <2>4. ExitProtocol'
    BY DEF ProcTypeOK, ExitProtocol, EndLabel, Uncollected, InWait, LetGo, BeforeWait
  <2> QED BY <2>1, <2>2, <2>3, <2>4
<1> QED BY <1>1, <1>2

LEMMA StutterStep == ASSUME IInv, UNCHANGED procVars PROVE IInv'
BY DEF IInv, procVars, semaVars, callVars, ProcTypeOK, Numbered, ListsChildren, ChildKnown,
       ForkProtocol, ExitProtocol, Uncollected, InWait, LetGo, StatusRead

LEMMA InvariantStep ==
  ASSUME IInv, [Next]_procVars
  PROVE  IInv'
<1>1. ASSUME NEW p \in Tid, UserStep(p) PROVE IInv'
  BY <1>1, ForkStep, ForkOutOfMemoryStep, KillStep, PowerOffStep, CallExitStep, WaitStep
     DEF UserStep
<1>2. ASSUME NEW p \in Tid, KernelStep(p) PROVE IInv'
  BY <1>2, InitdStep, CopyStep, CopyUpStep, CopyFailedStep, ForkDownStep, ForkReturnStep,
     ExitUpStep, ExitDownStep, WaitDownStep, WaitReadStep, WaitRemoveStep, WaitUpStep
     DEF KernelStep
<1> QED BY <1>1, <1>2, CreateInitdStep, InitdOutOfMemoryStep, YieldStep, StutterStep
       DEF Next, CreateStep

LEMMA Invariance == Spec => []IInv
BY InitIInv, InvariantStep, PTL DEF Spec

-----------------------------------------------------------------------------
(* Safety. *)

(* Every variable of the processes keeps its type, however many processes  *)
(* there are: no semaphore of a process counts beyond one.                 *)
THEOREM ProcessTypeCorrect == Spec => []ProcTypeOK
<1>1. IInv => ProcTypeOK
  BY DEF IInv
<1> QED BY <1>1, Invariance, PTL

(* process_fork, process_wait and get_child_with_pid read only children    *)
(* whose page is there: a process stays until its parent's wait has        *)
(* unlinked it and let it go.                                              *)
THEOREM ChildrenKeepTheirPages == Spec => []ChildrenHavePages
<1>1. ASSUME IInv PROVE ChildrenHavePages
  <2> USE <1>1 DEF IInv
  <2>1. ASSUME NEW p \in Tid, NEW c \in child_list[p] PROVE HasPage(c)
    <3>1. c \in Tid /\ parent_t[c] = p /\ pc[c] # "none"
      BY <2>1 DEF ListsChildren, ProcTypeOK
    <3> QED BY <2>1, <3>1 DEF ExitProtocol, LetGo, HasPage
  <2>2. ASSUME NEW p \in Tid, child[p] # None PROVE HasPage(child[p])
    <3>1. CASE pc[p] \in WithChild
      BY <2>1, <3>1 DEF ChildKnown
    <3>2. CASE pc[p] = "wait_up"
      <4>1. child[p] \in Tid /\ parent_t[child[p]] = p /\ pc[child[p]] # "none"
        BY <3>2, TidFacts DEF ChildKnown, Numbered
      <4> QED BY <4>1 DEF ExitProtocol, LetGo, HasPage
    <3> QED BY <2>2, <3>1, <3>2 DEF ChildKnown
  <2> QED BY <2>1, <2>2 DEF ChildrenHavePages
<1> QED BY <1>1, Invariance, PTL

(* __do_fork reads its parent's frame, page table and descriptors while    *)
(* the parent waits in the process_fork that created it.                   *)
THEOREM ParentWaitsForCopy == Spec => []ParentStaysInFork
<1>1. IInv => ParentStaysInFork
  BY DEF IInv, ForkProtocol, CopyLabel, ParentStaysInFork
<1> QED BY <1>1, Invariance, PTL

-----------------------------------------------------------------------------
(* The processes implement Family. *)

(* A process that may run on has not been collected. *)
LEMMA LifeOf ==
  ASSUME IInv, NEW p \in Tid
  PROVE  /\ pc[p] = "none" => life[p] = "none"
         /\ pc[p] # "none" /\ ~Ended(p) => life[p] = "alive"
         /\ pc[p] # "none" /\ Ended(p) /\ ~Collected(p) => life[p] = "ended"
         /\ pc[p] # "none" /\ Collected(p) => life[p] = "collected"
<1>1. pc[p] # "none" /\ ~Ended(p) => ~Collected(p)
  BY DEF IInv, Numbered, ExitProtocol, EndLabel, Uncollected, Ended, Collected
<1> QED BY <1>1 DEF life, Ended

LEMMA QuietStutters ==
  ASSUME parent_t' = parent_t, child_list' = child_list,
         \A q \in Tid : /\ pc'[q] = "none" <=> pc[q] = "none"
                        /\ Ended(q)' <=> Ended(q)
                        /\ Ended(q) => exit_status'[q] = exit_status[q]
                        /\ pc'[q] = "wait_up" <=> pc[q] = "wait_up"
                        /\ pc[q] = "wait_up" => ret'[q] = ret[q]
  PROVE  UNCHANGED <<parent_t, life, code, answer>>
<1>1. \A q \in Tid : Collected(q)' <=> Collected(q)
  BY DEF Collected
<1>2. life' = life
  BY <1>1 DEF life
<1>3. code' = code
  BY DEF code
<1>4. answer' = answer
  BY DEF answer
<1> QED BY <1>2, <1>3, <1>4

LEMMA CreationImplementsCreate ==
  ASSUME IInv, IInv', NEW p \in Tid, NEW c \in Tid, NEW label, NEW entry,
         thread_create(p, label, c, entry), UNCHANGED exit_status,
         \/ ret' = ret
         \/ \E r \in {None, TID_ERROR} : ret' = [ret EXCEPT ![p] = r],
         pc[p] \in {"boot", "user"}, label \in {"fork_down", "wait_down", "user", "finished"},
         entry \in {"initd", "copy", "never_run"}
  PROVE  Promise!Create(p, c)
<1>1. /\ c # p /\ pc[c] = "none"
      /\ \A q \in Tid : c \notin child_list[q]
  BY NewTid DEF thread_create
<1>2. /\ pc' = [pc EXCEPT ![p] = label, ![c] = entry]
      /\ parent_t' = [parent_t EXCEPT ![c] = p]
      /\ child_list' = [child_list EXCEPT ![p] = @ \cup {c}]
  BY DEF thread_create
<1>3. pc'[p] = label /\ pc'[c] = entry /\ \A q \in Tid : q # p /\ q # c => pc'[q] = pc[q]
  BY <1>1, <1>2 DEF IInv, ProcTypeOK
<1>4. life[p] = "alive" /\ life[c] = "none"
  BY <1>1, LifeOf DEF Ended
<1>5. ASSUME NEW q \in Tid, q # c PROVE life'[q] = life[q]
  <2>1. Collected(q)' <=> Collected(q)
    BY <1>2, <1>5, TidFacts DEF IInv, ProcTypeOK, Collected
  <2>2. (pc'[q] = "none" <=> pc[q] = "none") /\ (Ended(q)' <=> Ended(q))
    BY <1>3, <1>5 DEF Ended
  <2> QED BY <2>1, <2>2 DEF life
<1>6. life'[c] = "alive"
  <2>1. ~Collected(c)'
    BY <1>2 DEF IInv, ProcTypeOK, Collected
  <2> QED BY <1>3, <2>1 DEF life, Ended
<1>7. life' = [life EXCEPT ![c] = "alive"]
  BY <1>5, <1>6 DEF life
<1>8. code' = code
  <2>1. \A q \in Tid : Ended(q)' <=> Ended(q)
    BY <1>1, <1>3 DEF Ended
  <2> QED BY <2>1 DEF code
<1>9. answer' = answer
  <2>1. \A q \in Tid : pc[q] # "wait_up" <=> pc'[q] # "wait_up"
    BY <1>1, <1>3
  <2>2. \A q \in Tid : pc[q] = "wait_up" => ret'[q] = ret[q]
    BY DEF IInv, ProcTypeOK
  <2> QED BY <2>1, <2>2 DEF answer
<1> QED BY <1>2, <1>4, <1>7, <1>8, <1>9 DEF Promise!Create

LEMMA ExitUpImplementsEnd ==
  ASSUME IInv, NEW p \in Tid, ExitUp(p)
  PROVE  Promise!End(p, exit_status[p]) /\ exit_status[p] \in ExitCode
<1> USE DEF IInv, ProcTypeOK, ExitUp, At, Goto, callVars
<1>1. life[p] = "alive" /\ ~Collected(p) /\ ~Collected(p)'
  <2>1. ~Collected(p)
    BY DEF ExitProtocol, Numbered, EndLabel, Uncollected, Collected
  <2> QED BY <2>1, LifeOf DEF Ended, Collected
<1>2. Ended(p)' /\ ~Ended(p) /\ \A q \in Tid : q # p => pc'[q] = pc[q]
  BY DEF Ended
<1>3. life' = [life EXCEPT ![p] = "ended"]
  <2>1. \A q \in Tid : q # p => life'[q] = life[q]
    BY <1>2 DEF life, Ended, Collected
  <2>2. life'[p] = "ended"
    BY <1>1, <1>2 DEF life, Ended
  <2> QED BY <2>1, <2>2 DEF life
<1>4. code' = [code EXCEPT ![p] = exit_status[p]]
  BY <1>2 DEF code, Ended
<1>5. answer' = answer
  BY <1>2 DEF answer
<1> QED BY <1>1, <1>3, <1>4, <1>5 DEF Promise!End

LEMMA WaitRemoveImplementsCollect ==
  ASSUME IInv, NEW p \in Tid, WaitRemove(p)
  PROVE  \E c \in Tid : Promise!Collect(p, c)
<1> USE DEF IInv, ProcTypeOK, WaitRemove, At, Goto, semaVars, callVars
<1>1. PICK c \in Tid : c = child[p] /\ c \in child_list[p]
  BY DEF ChildKnown, WithChild
<1>2. parent_t[c] = p /\ pc[c] = "exit_down" /\ ret[p] = exit_status[c] /\ c # p
  <2>1. parent_t[c] = p /\ pc[c] # "none" /\ c # Main
    BY <1>1, TidFacts DEF ListsChildren, Numbered
  <2>2. pc[c] = "exit_down"
    BY <1>1, <2>1 DEF ExitProtocol, EndLabel, Uncollected, LetGo, BeforeWait
  <2> QED BY <1>1, <2>1, <2>2 DEF StatusRead
<1>3. life[p] = "alive" /\ life[c] = "ended"
  BY <1>1, <1>2, LifeOf DEF Ended, Collected
<1>4. \A q \in Tid : q # p => pc'[q] = pc[q]
  OBVIOUS
<1>5. \A q \in Tid : Ended(q)' <=> Ended(q)
  BY <1>4 DEF Ended
<1>6. \A q \in Tid : q # c => (Collected(q)' <=> Collected(q))
  BY <1>1 DEF Collected
<1>7. life' = [life EXCEPT ![c] = "collected"]
  <2>1. \A q \in Tid : q # c => life'[q] = life[q]
    BY <1>4, <1>5, <1>6 DEF life
  <2>2. life'[c] = "collected"
    BY <1>1, <1>2, TidFacts DEF life, Collected
  <2> QED BY <2>1, <2>2 DEF life
<1>8. code' = code
  BY <1>5 DEF code
<1>9. answer' = [answer EXCEPT ![p] = code[c]]
  BY <1>2, <1>4 DEF answer, code, Ended
<1> QED BY <1>2, <1>3, <1>7, <1>8, <1>9 DEF Promise!Collect

LEMMA WaitUpImplementsReturn ==
  ASSUME IInv, NEW p \in Tid, WaitUp(p)
  PROVE  Promise!Return(p)
<1> USE DEF IInv, ProcTypeOK, WaitUp, At, Goto
<1>1. \A q \in Tid : q # p => pc'[q] = pc[q]
  OBVIOUS
<1>2. \A q \in Tid : /\ Ended(q)' <=> Ended(q)
                     /\ Collected(q)' <=> Collected(q)
                     /\ pc'[q] = "none" <=> pc[q] = "none"
  BY <1>1 DEF Ended, Collected
<1>3. life' = life /\ code' = code
  BY <1>2 DEF life, code
<1>4. answer' = [answer EXCEPT ![p] = None]
  BY <1>1 DEF answer
<1> QED BY <1>3, <1>4 DEF Promise!Return

(* Every other step leaves the family as it is. *)
LEMMA OtherStepsStutter ==
  ASSUME IInv, NEW p \in Tid,
         \/ Initd(p) \/ Copy(p) \/ CopyUp(p) \/ CopyFailed(p) \/ ForkDown(p) \/ ForkReturn(p)
         \/ ExitDown(p) \/ Yield(p) \/ WaitDown(p) \/ WaitRead(p) \/ Kill(p) \/ PowerOff(p)
         \/ \E status \in Status : CallExit(p, status)
         \/ \E tid \in Tid : Wait(p, tid)
  PROVE  UNCHANGED <<parent_t, life, code, answer>>
<1> USE DEF IInv, ProcTypeOK, At, Goto, semaVars, callVars, Ended
<1>1. CASE Initd(p)
  BY <1>1, QuietStutters DEF Initd
<1>2. CASE Copy(p)
  BY <1>2, QuietStutters DEF Copy
<1>3. CASE CopyUp(p)
  BY <1>3, QuietStutters DEF CopyUp
<1>4. CASE CopyFailed(p)
  BY <1>4, QuietStutters DEF CopyFailed
<1>5. CASE ForkDown(p) \/ ForkReturn(p)
  BY <1>5, QuietStutters DEF ForkDown, ForkReturn
<1>6. CASE ExitDown(p) \/ Yield(p)
  BY <1>6, QuietStutters DEF ExitDown, Yield, LastDying, Reaped
<1>7. CASE WaitDown(p)
  BY <1>7, QuietStutters DEF WaitDown
<1>8. CASE WaitRead(p)
  BY <1>8, QuietStutters DEF WaitRead
<1>9. CASE Kill(p) \/ PowerOff(p)
  BY <1>9, QuietStutters DEF Kill, PowerOff
<1>10. CASE \E status \in Status : CallExit(p, status)
  BY <1>10, QuietStutters DEF CallExit
<1>11. CASE \E tid \in Tid : Wait(p, tid)
  BY <1>11, QuietStutters DEF Wait
<1> QED BY <1>1, <1>2, <1>3, <1>4, <1>5, <1>6, <1>7, <1>8, <1>9, <1>10, <1>11

LEMMA StepImplementsFamily ==
  ASSUME IInv, IInv', [Next]_procVars
  PROVE  [Promise!Next]_<<parent_t, life, code, answer>>
<1>1. CASE CreateInitd
  <2>1. \E c \in Tid : thread_create(Main, "wait_down", c, "initd")
    BY <1>1 DEF CreateInitd
  <2>2. \E c \in Tid : Promise!Create(Main, c)
    BY <1>1, <2>1, CreationImplementsCreate, TidFacts DEF CreateInitd, At
  <2> QED BY <2>2, TidFacts DEF Promise!Next
<1>7. ASSUME InitdOutOfMemory
      PROVE  Promise!Next \/ UNCHANGED <<parent_t, life, code, answer>>
  <2>1. CASE \E c \in Tid : thread_create(Main, "finished", c, "never_run")
    BY <1>7, <2>1, CreationImplementsCreate, TidFacts
       DEF InitdOutOfMemory, At, TID_ERROR, Promise!Next
  <2>2. CASE Goto(Main, "finished") /\ UNCHANGED <<next_tid, parent_t, child_list>>
    BY <1>7, <2>2, QuietStutters, TidFacts
       DEF InitdOutOfMemory, At, Goto, Ended, IInv, ProcTypeOK
  <2> QED BY <1>7, <2>1, <2>2 DEF InitdOutOfMemory
<1>2. ASSUME NEW p \in Tid, Fork(p) PROVE Promise!Next
  BY <1>2, CreationImplementsCreate DEF Fork, At, Promise!Next
<1>3. ASSUME NEW p \in Tid, ForkOutOfMemory(p)
      PROVE  Promise!Next \/ UNCHANGED <<parent_t, life, code, answer>>
  <2>1. CASE \E c \in Tid : thread_create(p, "user", c, "never_run")
    BY <1>3, <2>1, CreationImplementsCreate DEF ForkOutOfMemory, At, Promise!Next
  <2>2. CASE UNCHANGED <<next_tid, pc, parent_t, child_list>>
    BY <1>3, <2>2, QuietStutters DEF ForkOutOfMemory, At, Ended, IInv, ProcTypeOK
  <2> QED BY <1>3, <2>1, <2>2 DEF ForkOutOfMemory
<1>4. ASSUME NEW p \in Tid, ExitUp(p) \/ WaitRemove(p) \/ WaitUp(p) PROVE Promise!Next
  BY <1>4, ExitUpImplementsEnd, WaitRemoveImplementsCollect, WaitUpImplementsReturn
     DEF Promise!Next
<1>5. CASE UNCHANGED procVars
  BY <1>5, QuietStutters DEF procVars, callVars, Ended
<1>6. ASSUME NEW p \in Tid, UserStep(p) \/ KernelStep(p) \/ Yield(p)
      PROVE  Promise!Next \/ UNCHANGED <<parent_t, life, code, answer>>
  BY <1>2, <1>3, <1>4, <1>6, OtherStepsStutter DEF UserStep, KernelStep
<1> QED BY <1>1, <1>5, <1>6, <1>7 DEF Next, CreateStep

(* Fork, exit and wait keep what Family promises: a wait returns only      *)
(* after its child has ended, with the code the child left, and no child   *)
(* is collected twice or by another than its parent.                       *)
THEOREM ProcessImplementsFamily == Spec => ImplementsFamily
<1>1. Init => Promise!Init
  <2> SUFFICES ASSUME Init PROVE Promise!Init
    OBVIOUS
  <2>1. \A p \in Tid : ~Ended(p) /\ ~Collected(p) /\ pc[p] # "wait_up"
    BY DEF Init, Ended, Collected
  <2>2. life = [p \in Tid |-> IF p = Main THEN "alive" ELSE "none"]
    BY <2>1 DEF Init, life
  <2>3. code = [p \in Tid |-> None] /\ answer = [p \in Tid |-> None]
    BY <2>1 DEF code, answer
  <2> QED BY <2>2, <2>3, TidFacts DEF Init, Promise!Init
<1>2. IInv /\ IInv' /\ [Next]_procVars => [Promise!Next]_<<parent_t, life, code, answer>>
  BY StepImplementsFamily
<1> QED BY <1>1, <1>2, Invariance, PTL
       DEF Spec, ImplementsFamily, Promise!Spec, Promise!familyVars
=============================================================================
