------------------------------- MODULE Threads -------------------------------
(***************************************************************************)
(* The thread scheduler and the alarm clock of the Pintos kernel:          *)
(* threads/thread.c, the sleep and tick parts of devices/timer.c, and the  *)
(* way threads/interrupt.c returns from an external interrupt.             *)
(*                                                                         *)
(* One CPU.  A section of code that runs with interrupts off, up to the    *)
(* switch to another thread, is one action; between two statements that    *)
(* run with interrupts on, a timer interrupt may come and take the CPU     *)
(* away.  pc[t] says between which two statements thread t is.             *)
(***************************************************************************)
EXTENDS List

CONSTANTS
  Thread,       \* the pages a struct thread can live in; each is used once
  Main,         \* initial_thread, which is never freed
  Idle,         \* idle_thread, never a member of ready_list
  None,         \* the NULL pointer
  PRI_MIN, PRI_MAX, PRI_DEFAULT,
  TIME_SLICE,   \* ticks a thread may run before it has to yield
  MaxTicks,     \* bound: the clock stands still from this tick on
  MaxOps,       \* bound: operations each thread starts
  SleepTicks    \* the arguments passed to timer_sleep

ASSUME ThreadsAssumption ==
  /\ Main \in Thread
  /\ Idle \notin Thread
  /\ None \notin Thread
  /\ PRI_MIN \in Int /\ PRI_MAX \in Int
  /\ PRI_DEFAULT \in PRI_MIN..PRI_MAX
  /\ TIME_SLICE \in Nat \ {0}
  /\ MaxTicks \in Nat
  /\ MaxOps \in [Thread -> Nat]
  /\ SleepTicks \subseteq Int

Priority == PRI_MIN..PRI_MAX

VARIABLES
  current,          \* running_thread()
  status,           \* struct thread: status
  priority,         \* struct thread: priority
  endTick,          \* struct thread: endTick
  ready_list,
  block_list,       \* the sleeping threads
  destruction_req,  \* dead threads whose page is still to be freed
  ticks,            \* timer.c: ticks since boot
  thread_ticks,     \* ticks since the last switch
  intr,             \* "timer" while timer_interrupt runs
  yield_on_return,  \* interrupt.c: yield_on_return
  pc,               \* where each thread is
  child,            \* thread_create's local t
  ops               \* operations each thread has started

listVars  == <<ready_list, block_list, destruction_req>>
timeVars  == <<ticks, thread_ticks, intr, yield_on_return>>
cpuVars   == <<current, status, ready_list, destruction_req, thread_ticks>>
threadVars == <<current, status, priority, endTick, listVars, timeVars, pc, child, ops>>

Status == {"none", "blocked", "ready", "running", "dying", "freed"}

Init ==
  /\ current = Main
  /\ status = [t \in Thread |-> IF t = Main THEN "running" ELSE "none"]
  /\ priority = [t \in Thread |-> PRI_DEFAULT]
  /\ endTick = [t \in Thread |-> 0]
  /\ ready_list = <<>>
  /\ block_list = <<>>
  /\ destruction_req = {}
  /\ ticks = 0
  /\ thread_ticks = 0
  /\ intr = "none"
  /\ yield_on_return = FALSE
  /\ pc = [t \in Thread |-> "run"]
  /\ child = [t \in Thread |-> None]
  /\ ops = [t \in Thread |-> 0]

-----------------------------------------------------------------------------
(* The ready list and the switch. *)

(* Seeded faults: the ready list in order of arrival, and a newcomer ahead *)
(* of its equals.                                                          *)
InsertReadyBack(q, t, p) == Append(q, t)
InsertReadyFirst(q, t, p) ==
  list_insert_ordered(q, t, {i \in DOMAIN q : p[t] >= p[q[i]]})

(* By compare_reverse: descending priority p, first come first served.     *)
InsertReady(q, t, p) ==
  list_insert_ordered(q, t, {i \in DOMAIN q : p[t] > p[q[i]]})

(* Seeded fault: sleepers in order of arrival. *)
InsertSleeperBack(q, t) == Append(q, t)

(* By compare_tick: the one that wakes first is at the front. *)
InsertSleeper(q, t) ==
  list_insert_ordered(q, t, {i \in DOMAIN q : endTick[t] < endTick[q[i]]})

(* Seeded fault: no idle thread to fall back on. *)
next_thread_or_NULL(q) == IF q = <<>> THEN None ELSE Head(q)

next_thread_to_run(q) == IF q = <<>> THEN Idle ELSE Head(q)

(* Seeded fault: the next thread stays in the ready list. *)
schedule_front(st, q) ==
  LET next == next_thread_to_run(q)
  IN  /\ current' = next
      /\ ready_list' = q
      /\ status' = [t \in Thread |-> IF t = next THEN "running" ELSE st[t]]
      /\ thread_ticks' = 0

(* schedule(), entered with the statuses st and the ready list q. *)
schedule(st, q) ==
  LET next == next_thread_to_run(q)
  IN  /\ current' = next
      /\ ready_list' = IF q = <<>> THEN q ELSE Tail(q)
      /\ status' = [t \in Thread |-> IF t = next THEN "running" ELSE st[t]]
      /\ thread_ticks' = 0

(* do_schedule() frees the dead, gives the running thread t its new status *)
(* s and switches; a dying thread is queued for the next call to free.     *)
(* st and q are the other statuses and the ready list at its entry.        *)
do_schedule(t, s, st, q) ==
  /\ schedule([u \in Thread |-> IF u = t THEN s
                                ELSE IF u \in destruction_req THEN "freed"
                                ELSE st[u]], q)
  /\ destruction_req' = IF s = "dying" /\ t # Main THEN {t} ELSE {}

(* Seeded fault: the blocked thread keeps its status. *)
thread_block_running(t) ==
  /\ schedule(status, ready_list)
  /\ UNCHANGED destruction_req

(* thread_block(): straight to schedule(), nothing is freed. *)
thread_block(t) ==
  /\ schedule([status EXCEPT ![t] = "blocked"], ready_list)
  /\ UNCHANGED destruction_req

(* thread_unblock() does not preempt the running thread. *)
thread_unblock(t) ==
  /\ ready_list' = InsertReady(ready_list, t, priority)
  /\ status' = [status EXCEPT ![t] = "ready"]
  /\ UNCHANGED <<current, destruction_req, thread_ticks>>

thread_yield(t) == do_schedule(t, "ready", status, InsertReady(ready_list, t, priority))

(* The code of t runs: t has the CPU and no interrupt is being handled. *)
Runs(t) == current = t /\ intr = "none"

At(t, label) == Runs(t) /\ pc[t] = label
Goto(t, label) == pc' = [pc EXCEPT ![t] = label]

(* t, between two kernel calls, makes its next call. *)
Calls(t) ==
  /\ At(t, "run")
  /\ ops[t] < MaxOps[t]
  /\ ops' = [ops EXCEPT ![t] = @ + 1]

-----------------------------------------------------------------------------
(* Operations of a running thread. *)

(* thread_create() up to the initialised, blocked child. *)
CreateThread(t, c, p) ==
  /\ Calls(t)
  /\ status[c] = "none"
  /\ status' = [status EXCEPT ![c] = "blocked"]
  /\ priority' = [priority EXCEPT ![c] = p]
  /\ child' = [child EXCEPT ![t] = c]
  /\ Goto(t, "unblock_child")
  /\ UNCHANGED <<current, endTick, listVars, timeVars>>

CreateUnblock(t) ==
  /\ At(t, "unblock_child")
  /\ thread_unblock(child[t])
  /\ Goto(t, "compare_child")
  /\ UNCHANGED <<priority, endTick, block_list, ticks, intr, yield_on_return, child, ops>>

(* t->priority > thread_current()->priority, read after the child may have *)
(* run: a page already freed holds garbage.                                *)
CreatePreempt(t) ==
  /\ At(t, "compare_child")
  /\ \E outranks \in IF status[child[t]] = "freed" THEN BOOLEAN
                     ELSE {priority[child[t]] > priority[t]} :
       IF outranks THEN thread_yield(t) ELSE UNCHANGED cpuVars
  /\ child' = [child EXCEPT ![t] = None]
  /\ Goto(t, "run")
  /\ UNCHANGED <<priority, endTick, block_list, ticks, intr, yield_on_return, ops>>

YieldCPU(t) ==
  /\ Calls(t)
  /\ thread_yield(t)
  /\ UNCHANGED <<priority, endTick, block_list, ticks, intr, yield_on_return, pc, child>>

(* timer_sleep(n) reads the clock with interrupts on ... *)
TimerSleep(t, n) ==
  /\ Calls(t)
  /\ ticks + n <= MaxTicks
  /\ endTick' = [endTick EXCEPT ![t] = ticks + n]
  /\ Goto(t, "insert_block")
  /\ UNCHANGED <<current, status, priority, listVars, timeVars, child>>

(* ... and insert_blockList turns them off only afterwards. *)
insert_blockList(t) ==
  /\ At(t, "insert_block")
  /\ block_list' = InsertSleeper(block_list, t)
  /\ do_schedule(t, "blocked", status, ready_list)
  /\ Goto(t, "run")
  /\ UNCHANGED <<priority, endTick, ticks, intr, yield_on_return, child, ops>>

ThreadExit(t) ==
  /\ At(t, "run")
  /\ do_schedule(t, "dying", status, ready_list)
  /\ UNCHANGED <<priority, endTick, block_list, ticks, intr, yield_on_return, pc, child, ops>>

-----------------------------------------------------------------------------
(* Interrupts and the idle thread. *)

(* sema_down's loop, resumed after thread_block, has interrupts off. *)
Interruptible == intr = "none" /\ (current # Idle => pc[current] # "retry")

thread_tick ==
  /\ thread_ticks' = IF thread_ticks < TIME_SLICE THEN thread_ticks + 1 ELSE thread_ticks
  /\ yield_on_return' = (thread_ticks' >= TIME_SLICE)

TimerInterrupt ==
  /\ Interruptible
  /\ intr' = "timer"
  /\ ticks' = IF ticks < MaxTicks THEN ticks + 1 ELSE ticks
  /\ thread_tick
  /\ UNCHANGED <<current, status, priority, endTick, listVars, pc, child, ops>>

(* Seeded faults: wake_up without its test of endTick, and no wake-up while *)
(* the idle thread runs.                                                   *)
DueAlways == block_list # <<>>
DueUnlessIdle == current # Idle /\ block_list # <<>> /\ endTick[Head(block_list)] <= ticks

Due == block_list # <<>> /\ endTick[Head(block_list)] <= ticks

(* One round of wake_up's loop. *)
wake_up ==
  /\ intr = "timer"
  /\ Due
  /\ block_list' = Tail(block_list)
  /\ thread_unblock(Head(block_list))
  /\ UNCHANGED <<priority, endTick, ticks, intr, yield_on_return, pc, child, ops>>

(* intr_handler returns; thread_yield does nothing for the idle thread. *)
IntrReturn ==
  /\ intr = "timer"
  /\ ~Due
  /\ intr' = "none"
  /\ yield_on_return' = FALSE
  /\ IF yield_on_return /\ current # Idle THEN thread_yield(current)
     ELSE UNCHANGED cpuVars
  /\ UNCHANGED <<priority, endTick, block_list, ticks, pc, child, ops>>

(* idle() blocks itself again after every interrupt; it is its own next    *)
(* thread when no other is ready.                                          *)
idle ==
  /\ Runs(Idle)
  /\ schedule(status, ready_list)
  /\ UNCHANGED <<priority, endTick, block_list, destruction_req, ticks, intr,
                 yield_on_return, pc, child, ops>>

-----------------------------------------------------------------------------
ThreadStep(t) ==
  \/ \E c \in Thread, p \in Priority : CreateThread(t, c, p)
  \/ CreateUnblock(t)
  \/ CreatePreempt(t)
  \/ YieldCPU(t)
  \/ \E n \in SleepTicks : TimerSleep(t, n)
  \/ insert_blockList(t)
  \/ ThreadExit(t)

Interrupt == TimerInterrupt \/ wake_up \/ IntrReturn

Next == (\E t \in Thread : ThreadStep(t)) \/ Interrupt \/ idle

Spec == Init /\ [][Next]_threadVars

(* The timer keeps ticking, its handler runs to its end, and the idle loop *)
(* gets to its next thread_block although ticks keep interrupting it.      *)
(* Nothing is assumed of the threads.                                      *)
Fairness ==
  /\ WF_threadVars(TimerInterrupt)
  /\ WF_threadVars(wake_up \/ IntrReturn)
  /\ SF_threadVars(idle)

FairSpec == Spec /\ Fairness

-----------------------------------------------------------------------------
(* Properties. *)

(* Every variable keeps its type; modules that extend this one add labels *)
(* to pc.                                                                  *)
ThreadTypeOK ==
  /\ current \in Thread \cup {Idle}
  /\ status \in [Thread -> Status]
  /\ priority \in [Thread -> Priority]
  /\ endTick \in [Thread -> Int]
  /\ ready_list \in Seq(Thread)
  /\ block_list \in Seq(Thread)
  /\ destruction_req \in SUBSET Thread
  /\ ticks \in 0..MaxTicks
  /\ thread_ticks \in 0..TIME_SLICE
  /\ intr \in {"none", "timer"}
  /\ yield_on_return \in BOOLEAN
  /\ child \in [Thread -> Thread \cup {None}]
  /\ ops \in [Thread -> Nat]

ThreadLabel == {"run", "unblock_child", "compare_child", "insert_block"}

TypeOK == ThreadTypeOK /\ pc \in [Thread -> ThreadLabel]

(* A thread that thread_create has initialised and not yet queued. *)
BeingCreated(c) == \E t \in Thread : pc[t] = "unblock_child" /\ child[t] = c

(* struct thread has one elem for all its lists (the comment above the     *)
(* struct relies on a thread being in one list at a time): each status     *)
(* goes with exactly one place, and no list holds a thread twice.          *)
ElemExclusive ==
  /\ IsInjective(ready_list)
  /\ IsInjective(block_list)
  /\ \A t \in Thread :
       /\ (status[t] = "running") = (current = t)
       /\ (status[t] = "ready") = (t \in Range(ready_list))
       /\ (status[t] = "blocked") = (t \in Range(block_list) \/ BeingCreated(t))
       /\ BeingCreated(t) => t \notin Range(block_list)
       /\ t \in destruction_req => status[t] = "dying"

(* The scheduler hands the CPU to a thread of the highest ready priority,  *)
(* and to the idle thread only when no thread is ready.                    *)
DispatchHighest ==
  [][current' # current =>
       \A t \in Thread : status'[t] = "ready" =>
         current' # Idle /\ priority'[current'] >= priority'[t]]_threadVars

(* No sleeper leaves block_list before its tick (timer_sleep's contract).  *)
NeverWokenEarly ==
  [][\A t \in Range(block_list) :
       t \notin Range(block_list') => endTick[t] <= ticks]_threadVars

(* When the timer interrupt returns, no sleeper whose tick has come is     *)
(* left: wake_up looks at the head only, so the list must be in order even *)
(* when a preempted thread inserts itself late.                            *)
NoneOverslept ==
  [][intr = "timer" /\ intr' = "none" =>
       \A t \in Range(block_list') : endTick'[t] > ticks']_threadVars

(* A sleeping thread is eventually made ready. *)
SleepersWake == \A t \in Thread : t \in Range(block_list) ~> status[t] = "ready"

(* Threads of the top priority share the CPU round-robin: a ready one      *)
(* eventually runs, although the others never give up the CPU themselves.  *)
RoundRobin ==
  \A t \in Thread : status[t] = "ready" /\ priority[t] = PRI_MAX ~> current = t
=============================================================================
