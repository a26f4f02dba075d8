------------------------------- MODULE Process --------------------------------
(***************************************************************************)
(* Processes: process_create_initd, process_fork, process_wait and         *)
(* process_exit of userprog/process.c, with the calls of                   *)
(* userprog/syscall.c that lead to them.                                   *)
(*                                                                         *)
(* All processes have PRI_DEFAULT and the timer preempts them anywhere, so *)
(* their steps interleave freely; semaphores are the counters that Synch   *)
(* shows them to be.  A process is named by its tid, and so is the page of *)
(* its struct thread.  Pages are not reused.  The files a process has open *)
(* are not part of this module.                                            *)
(***************************************************************************)
EXTENDS Integers, FiniteSets

CONSTANTS
  Main,      \* the tid of the initial thread
  MaxTid,    \* bound: the last tid that is given out
  None,
  Status     \* the arguments passed to exit

ASSUME ProcessAssumption ==
  /\ Main \in Nat \ {0}
  /\ MaxTid \in Nat /\ Main < MaxTid
  /\ Status \subseteq Int
  /\ None \notin Int

Tid == Main..MaxTid
TID_ERROR == -1
ExitCode == Status \cup {0, -1}

VARIABLES
  next_tid,      \* allocate_tid's counter
  pc,            \* where each process is; "none" and "freed" say it has no page
  parent_t, child_list, exit_status, fork_sema, sema_wait, sema_exit,  \* struct thread
  child,         \* process_fork's and process_wait's local child
  ret,           \* process_wait's local exit_status; what the last call returned
  on             \* the machine runs

semaVars == <<fork_sema, sema_wait, sema_exit>>
callVars == <<child, ret>>
procVars == <<next_tid, pc, parent_t, child_list, exit_status, semaVars, callVars, on>>

Init ==
  /\ next_tid = Main + 1
  /\ pc = [p \in Tid |-> IF p = Main THEN "boot" ELSE "none"]
  /\ parent_t = [p \in Tid |-> None]
  /\ child_list = [p \in Tid |-> {}]
  /\ exit_status = [p \in Tid |-> 0]
  /\ fork_sema = [p \in Tid |-> 0]
  /\ sema_wait = [p \in Tid |-> 0]
  /\ sema_exit = [p \in Tid |-> 0]
  /\ child = [p \in Tid |-> None]
  /\ ret = [p \in Tid |-> None]
  /\ on = TRUE

At(p, label) == on /\ pc[p] = label
Goto(p, label) == pc' = [pc EXCEPT ![p] = label]

(* sema_up and sema_down of one process's semaphore. *)
Up(sema, p) == [sema EXCEPT ![p] = @ + 1]
Down(sema, p) == [sema EXCEPT ![p] = @ - 1]

-----------------------------------------------------------------------------
(* Creation. *)

(* thread_create: a page of zeroes, linked into the creator's child_list,  *)
(* for a thread that starts at entry; the creator goes on at label.        *)
thread_create(p, label, c, entry) ==
  /\ c = next_tid /\ c \in Tid
  /\ next_tid' = next_tid + 1
  /\ pc' = [pc EXCEPT ![p] = label, ![c] = entry]
  /\ parent_t' = [parent_t EXCEPT ![c] = p]
  /\ child_list' = [child_list EXCEPT ![p] = @ \cup {c}]

(* process_create_initd and the process_wait that run_task calls with it. *)
CreateInitd ==
  /\ At(Main, "boot")
  /\ \E c \in Tid : /\ thread_create(Main, "wait_down", c, "initd")
                    /\ child' = [child EXCEPT ![Main] = c]
  /\ UNCHANGED <<exit_status, semaVars, ret, on>>

(* There is no page for initd, its name or its descriptors: run_task waits *)
(* for the tid TID_ERROR, which is nobody's.                               *)
InitdOutOfMemory ==
  /\ At(Main, "boot")
  /\ \/ Goto(Main, "finished") /\ UNCHANGED <<next_tid, parent_t, child_list>>
     \/ \E c \in Tid : thread_create(Main, "finished", c, "never_run")
  /\ ret' = [ret EXCEPT ![Main] = -1]
  /\ UNCHANGED <<exit_status, semaVars, child, on>>

(* initd cannot be loaded: PANIC. *)
Initd(p) ==
  /\ At(p, "initd")
  /\ \/ Goto(p, "user") /\ UNCHANGED on
     \/ on' = FALSE /\ UNCHANGED pc
  /\ UNCHANGED <<next_tid, parent_t, child_list, exit_status, semaVars, callVars>>

Fork(p) ==
  /\ At(p, "user")
  /\ \E c \in Tid : /\ thread_create(p, "fork_down", c, "copy")
                    /\ child' = [child EXCEPT ![p] = c]
  /\ ret' = [ret EXCEPT ![p] = None]
  /\ UNCHANGED <<exit_status, semaVars, on>>

(* Out of memory: there is no page for the thread, or there is one and none *)
(* for its descriptor table, so that it stays blocked in the child_list.   *)
ForkOutOfMemory(p) ==
  /\ At(p, "user")
  /\ \/ UNCHANGED <<next_tid, pc, parent_t, child_list>>
     \/ \E c \in Tid : thread_create(p, "user", c, "never_run")
  /\ ret' = [ret EXCEPT ![p] = TID_ERROR]
  /\ UNCHANGED <<exit_status, semaVars, child, on>>

(* __do_fork reads the parent's frame, page table and descriptors; a page  *)
(* may be missing for the copy.                                            *)
Copy(p) ==
  /\ At(p, "copy")
  /\ \E outcome \in {"copied", "not_copied"} : Goto(p, outcome)
  /\ UNCHANGED <<next_tid, parent_t, child_list, exit_status, semaVars, callVars, on>>

CopyUp(p) ==
  /\ on /\ pc[p] \in {"copied", "not_copied"}
  /\ fork_sema' = Up(fork_sema, parent_t[p])
  /\ Goto(p, IF pc[p] = "copied" THEN "user" ELSE "copy_failed")
  /\ UNCHANGED <<next_tid, parent_t, child_list, exit_status, sema_wait, sema_exit,
                 callVars, on>>

(* Seeded fault: the parent goes on without waiting for the copy. *)
ForkNoWait(p) ==
  /\ At(p, "fork_down")
  /\ Goto(p, "fork_read")
  /\ UNCHANGED <<next_tid, parent_t, child_list, exit_status, semaVars, callVars, on>>

ForkDown(p) ==
  /\ At(p, "fork_down")
  /\ fork_sema[p] > 0
  /\ fork_sema' = Down(fork_sema, p)
  /\ Goto(p, "fork_read")
  /\ UNCHANGED <<next_tid, parent_t, child_list, exit_status, sema_wait, sema_exit,
                 callVars, on>>

ForkReturn(p) ==
  /\ At(p, "fork_read")
  /\ ret' = [ret EXCEPT ![p] = IF exit_status[child[p]] = -1 THEN TID_ERROR ELSE child[p]]
  /\ child' = [child EXCEPT ![p] = None]
  /\ Goto(p, "user")
  /\ UNCHANGED <<next_tid, parent_t, child_list, exit_status, semaVars, on>>

-----------------------------------------------------------------------------
(* The end of a process. *)

(* call_exit: by the exit system call, a bad address, a page fault, or an  *)
(* exec that could not load its file.                                      *)
CallExit(p, status) ==
  /\ At(p, "user")
  /\ exit_status' = [exit_status EXCEPT ![p] = status]
  /\ Goto(p, "exit_up")
  /\ UNCHANGED <<next_tid, parent_t, child_list, semaVars, callVars, on>>

CopyFailed(p) ==
  /\ At(p, "copy_failed")
  /\ exit_status' = [exit_status EXCEPT ![p] = TID_ERROR]
  /\ Goto(p, "exit_up")
  /\ UNCHANGED <<next_tid, parent_t, child_list, semaVars, callVars, on>>

(* kill, for the exceptions other than a page fault: thread_exit alone. *)
Kill(p) ==
  /\ At(p, "user")
  /\ Goto(p, "exit_up")
  /\ UNCHANGED <<next_tid, parent_t, child_list, exit_status, semaVars, callVars, on>>

(* Seeded fault: the parent is not told of the end. *)
ExitNoUp(p) ==
  /\ At(p, "exit_up")
  /\ Goto(p, "exit_down")
  /\ UNCHANGED <<next_tid, parent_t, child_list, exit_status, semaVars, callVars, on>>

ExitUp(p) ==
  /\ At(p, "exit_up")
  /\ sema_wait' = Up(sema_wait, p)
  /\ Goto(p, "exit_down")
  /\ UNCHANGED <<next_tid, parent_t, child_list, exit_status, fork_sema, sema_exit,
                 callVars, on>>

(* do_schedule gives back the pages of the threads that died before. *)
Reaped(q) == IF pc[q] = "dying" THEN "freed" ELSE pc[q]
LastDying(p) == pc' = [q \in Tid |-> IF q = p THEN "dying" ELSE Reaped(q)]

(* Seeded fault: the process does not wait until it has been collected. *)
ExitAtOnce(p) ==
  /\ At(p, "exit_down")
  /\ LastDying(p)
  /\ UNCHANGED <<next_tid, parent_t, child_list, exit_status, semaVars, callVars, on>>

ExitDown(p) ==
  /\ At(p, "exit_down")
  /\ sema_exit[p] > 0
  /\ sema_exit' = Down(sema_exit, p)
  /\ LastDying(p)
  /\ UNCHANGED <<next_tid, parent_t, child_list, exit_status, fork_sema, sema_wait,
                 callVars, on>>

(* thread_yield, at the end of a time slice or in sema_up.  A thread that   *)
(* blocks calls schedule instead, as the idle thread always does: no page  *)
(* is given back there.                                                    *)
Yield(p) ==
  /\ on /\ pc[p] \notin {"none", "never_run", "dying", "freed"}
  /\ pc' = [q \in Tid |-> Reaped(q)]
  /\ UNCHANGED <<next_tid, parent_t, child_list, exit_status, semaVars, callVars, on>>

-----------------------------------------------------------------------------
(* process_wait, by a process or by run_task. *)

Wait(p, tid) ==
  /\ At(p, "user")
  /\ IF tid \in child_list[p]
     THEN /\ child' = [child EXCEPT ![p] = tid]
          /\ ret' = [ret EXCEPT ![p] = None]
          /\ Goto(p, "wait_down")
     ELSE /\ ret' = [ret EXCEPT ![p] = -1]
          /\ UNCHANGED <<child, pc>>
  /\ UNCHANGED <<next_tid, parent_t, child_list, exit_status, semaVars, on>>

WaitDown(p) ==
  /\ At(p, "wait_down")
  /\ sema_wait[child[p]] > 0
  /\ sema_wait' = Down(sema_wait, child[p])
  /\ Goto(p, "wait_read")
  /\ UNCHANGED <<next_tid, parent_t, child_list, exit_status, fork_sema, sema_exit,
                 callVars, on>>

WaitRead(p) ==
  /\ At(p, "wait_read")
  /\ ret' = [ret EXCEPT ![p] = exit_status[child[p]]]
  /\ Goto(p, "wait_remove")
  /\ UNCHANGED <<next_tid, parent_t, child_list, exit_status, semaVars, child, on>>

(* Seeded fault: the child stays in the list. *)
WaitKeep(p) ==
  /\ At(p, "wait_remove")
  /\ Goto(p, "wait_up")
  /\ UNCHANGED <<next_tid, parent_t, child_list, exit_status, semaVars, callVars, on>>

WaitRemove(p) ==
  /\ At(p, "wait_remove")
  /\ child_list' = [child_list EXCEPT ![p] = @ \ {child[p]}]
  /\ Goto(p, "wait_up")
  /\ UNCHANGED <<next_tid, parent_t, exit_status, semaVars, callVars, on>>

(* Seeded fault: the child is not told that it has been collected. *)
WaitNoUp(p) ==
  /\ At(p, "wait_up")
  /\ child' = [child EXCEPT ![p] = None]
  /\ Goto(p, IF p = Main THEN "finished" ELSE "user")
  /\ UNCHANGED <<next_tid, parent_t, child_list, exit_status, semaVars, ret, on>>

WaitUp(p) ==
  /\ At(p, "wait_up")
  /\ sema_exit' = Up(sema_exit, child[p])
  /\ child' = [child EXCEPT ![p] = None]
  /\ Goto(p, IF p = Main THEN "finished" ELSE "user")
  /\ UNCHANGED <<next_tid, parent_t, child_list, exit_status, fork_sema, sema_wait, ret, on>>

(* The initial thread has collected initd, or a process calls halt. *)
PowerOff(p) ==
  /\ on /\ pc[p] \in {"finished", "user"}
  /\ on' = FALSE
  /\ UNCHANGED <<next_tid, pc, parent_t, child_list, exit_status, semaVars, callVars>>

-----------------------------------------------------------------------------
(* What a process chooses to do, and what the kernel then does for it. *)
UserStep(p) ==
  \/ Fork(p) \/ ForkOutOfMemory(p) \/ Kill(p) \/ PowerOff(p)
  \/ \E status \in Status : CallExit(p, status)
  \/ \E tid \in Tid : Wait(p, tid)

KernelStep(p) ==
  \/ Initd(p) \/ Copy(p) \/ CopyUp(p) \/ CopyFailed(p) \/ ForkDown(p) \/ ForkReturn(p)
  \/ ExitUp(p) \/ ExitDown(p)
  \/ WaitDown(p) \/ WaitRead(p) \/ WaitRemove(p) \/ WaitUp(p)

CreateStep == CreateInitd \/ InitdOutOfMemory

Next == CreateStep \/ \E p \in Tid : UserStep(p) \/ KernelStep(p) \/ Yield(p)

Spec == Init /\ [][Next]_procVars

(* The threads of one priority share the CPU (RoundRobin of Threads), so   *)
(* one that is not blocked gets on.  A process owes the kernel nothing, and *)
(* nobody has to yield: a thread left alone with idle may never do it.     *)
FairSpec ==
  Spec /\ WF_procVars(CreateStep) /\ \A p \in Tid : WF_procVars(KernelStep(p))

-----------------------------------------------------------------------------
(* Properties. *)

Label == {"none", "boot", "initd", "never_run", "copy", "copied", "not_copied", "copy_failed",
          "user", "fork_down", "fork_read", "wait_down", "wait_read", "wait_remove",
          "wait_up", "exit_up", "exit_down", "dying", "freed", "finished"}

(* Every variable keeps its type; the semaphores never count beyond one. *)
ProcTypeOK ==
  /\ next_tid \in (Main + 1)..(MaxTid + 1)
  /\ pc \in [Tid -> Label]
  /\ parent_t \in [Tid -> Tid \cup {None}]
  /\ child_list \in [Tid -> SUBSET Tid]
  /\ exit_status \in [Tid -> ExitCode]
  /\ fork_sema \in [Tid -> {0, 1}]
  /\ sema_wait \in [Tid -> {0, 1}]
  /\ sema_exit \in [Tid -> {0, 1}]
  /\ child \in [Tid -> Tid \cup {None}]
  /\ ret \in [Tid -> Tid \cup ExitCode \cup {None}]
  /\ on \in BOOLEAN

HasPage(p) == pc[p] \notin {"none", "freed"}

(* "Keep child page so parent can get exit_status" (process_wait): what a  *)
(* child_list links and what fork and wait read of a child is not freed,   *)
(* whenever the child runs to its end.                                     *)
ChildrenHavePages ==
  \A p \in Tid : HasPage(p) =>
    /\ \A c \in child_list[p] : HasPage(c)
    /\ child[p] # None => HasPage(child[p])

(* "parent should not return from the fork() until this function           *)
(* successfully duplicates the resources of parent" (__do_fork): while a   *)
(* child reads its parent, the parent is in the fork that created it.      *)
ParentStaysInFork ==
  \A c \in Tid : pc[c] \in {"copy", "copied", "not_copied"} =>
    LET p == parent_t[c]
    IN  pc[p] = "fork_down" /\ child[p] = c /\ fork_sema[p] = 0

(* Fork, exit and wait keep the promises of Family: a wait returns after   *)
(* its child has ended, with the code the child left, and once per child.  *)
Ended(p) == pc[p] \in {"exit_down", "dying", "freed"}
Collected(p) == parent_t[p] # None /\ p \notin child_list[parent_t[p]]
life == [p \in Tid |-> IF pc[p] = "none" THEN "none"
                       ELSE IF Collected(p) THEN "collected"
                       ELSE IF Ended(p) THEN "ended" ELSE "alive"]
code == [p \in Tid |-> IF Ended(p) THEN exit_status[p] ELSE None]
answer == [p \in Tid |-> IF pc[p] = "wait_up" THEN ret[p] ELSE None]

Promise == INSTANCE Family WITH parent <- parent_t
ImplementsFamily == Promise!Spec

(* A process in fork, or in wait for a child that has ended, goes on,      *)
(* unless the machine stops first: neither up of a semaphore is lost.      *)
Blocked(p) == pc[p] = "fork_down" \/ (pc[p] = "wait_down" /\ Ended(child[p]))
BlockedGoesOn == \A p \in Tid : Blocked(p) ~> (~Blocked(p) \/ ~on)

(* A process that its parent has waited for dies, and its page is given    *)
(* back unless it is the last to have died: that one keeps its page until  *)
(* somebody yields.                                                        *)
LastToDie(p) == pc[p] = "dying" /\ \A q \in Tid \ {p} : pc[q] # "dying"
CollectedFreed ==
  \A p \in Tid : Collected(p) ~> (pc[p] = "freed" \/ LastToDie(p) \/ ~on)
=============================================================================
