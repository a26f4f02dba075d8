-------------------------------- MODULE Synch --------------------------------
(***************************************************************************)
(* Semaphores, locks and priority donation: threads/synch.c and            *)
(* thread_set_priority of threads/thread.c, on top of the scheduler.       *)
(*                                                                         *)
(* sema_down and sema_up run with interrupts off and are one action each,  *)
(* sema_up with the thread_yield it may end in.  lock_acquire,             *)
(* donate_priority, lock_release and thread_set_priority run with          *)
(* interrupts on: every read of lock->holder and wait_on_lock (the kernel  *)
(* is built with -O0) is an action of its own.  Where a priority is        *)
(* compared or copied, the reads and the write of one expression are one.  *)
(***************************************************************************)
EXTENDS Threads

CONSTANTS
  Lock,           \* struct locks, each with its semaphore
  Sema,           \* the other semaphores
  Rank,           \* client: a thread takes its locks in increasing rank
  InitValue,      \* sema_init's value, for each member of Sema
  MaxValue,       \* bound: the value a sema_up may raise a Sema to
  NewPriorities   \* the arguments passed to thread_set_priority

ASSUME SynchAssumption ==
  /\ Lock \cap Sema = {}
  /\ None \notin Lock \cup Sema
  /\ Rank \in [Lock -> Nat]
  /\ MaxValue \in Nat
  /\ InitValue \in [Sema -> 0..MaxValue]
  /\ NewPriorities \subseteq Priority

(* Every thread has a page of its own. *)
ASSUME FiniteThreads == IsFiniteSet(Thread)

Semaphore == Lock \cup Sema

VARIABLES
  priority_origin,  \* struct thread
  wait_on_lock,     \* struct thread
  donations,        \* struct thread: list of donors, linked by donation_elem
  value, waiters,   \* struct semaphore
  holder,           \* struct lock
  obj,              \* the argument of the operation a thread is in
  chain,            \* donate_priority's local holder
  fault             \* why the kernel panicked, "none" while it runs

objectVars == <<value, waiters, holder>>
donorVars  == <<priority_origin, wait_on_lock, donations>>
localVars  == <<obj, chain>>
synchVars  == <<donorVars, objectVars, localVars, fault>>
timerVars  == <<endTick, block_list, ticks, intr, yield_on_return>>
vars       == <<threadVars, synchVars>>

SynchInit ==
  /\ Init
  /\ priority_origin = [t \in Thread |-> PRI_DEFAULT]
  /\ wait_on_lock = [t \in Thread |-> None]
  /\ donations = [t \in Thread |-> <<>>]
  /\ value = [s \in Semaphore |-> IF s \in Lock THEN 1 ELSE InitValue[s]]
  /\ waiters = [s \in Semaphore |-> <<>>]
  /\ holder = [l \in Lock |-> None]
  /\ obj = [t \in Thread |-> None]
  /\ chain = [t \in Thread |-> None]
  /\ fault = "none"

(* The execution has left what the code defines: a NULL or freed pointer   *)
(* is followed, or a link overwritten, and nothing of the state matters    *)
(* any more.  With no handler for a page fault intr_handler panics; in the *)
(* userprog kernel page_fault ends the thread instead.                     *)
Panic(why) ==
  /\ fault' = why
  /\ UNCHANGED <<threadVars, donorVars, objectVars, localVars>>

(* Statements that touch neither the scheduler nor the clock. *)
Local == UNCHANGED <<cpuVars, timerVars, child, fault>>

Holds(t) == {l \in Lock : holder[l] = t}

-----------------------------------------------------------------------------
(* lock_acquire and donate_priority. *)

EnterAcquire(t, l) ==
  /\ holder[l] # t
  /\ wait_on_lock' = [wait_on_lock EXCEPT ![t] = l]
  /\ obj' = [obj EXCEPT ![t] = l]
  /\ Goto(t, "holder")
  /\ Local
  /\ UNCHANGED <<priority, priority_origin, donations, objectVars, chain>>

LockAcquire(t, l) ==
  /\ Calls(t)
  /\ \A k \in Holds(t) : Rank[k] < Rank[l]
  /\ EnterAcquire(t, l)

TestHolder(t) ==
  /\ At(t, "holder")
  /\ Goto(t, IF holder[obj[t]] = None THEN "down" ELSE "compare")
  /\ Local
  /\ UNCHANGED <<priority, ops, donorVars, objectVars, localVars>>

(* Every use of lock->holder reads it again, and may read NULL by then. *)
ComparePriority(t) ==
  LET h == holder[obj[t]]
  IN  /\ At(t, "compare")
      /\ IF h = None THEN Panic("null holder")
         ELSE /\ Goto(t, IF priority[t] > priority[h] THEN "donate" ELSE "down")
              /\ Local
              /\ UNCHANGED <<priority, ops, donorVars, objectVars, localVars>>

Freed(t) == status[t] = "freed"

(* donation_elem of t is linked in the list of a thread that is alive. *)
Donates(t) == \E u \in Thread :
  /\ status[u] \notin {"dying", "freed"}
  /\ t \in Range(donations[u])

(* list_push_back writes a link of the donor that is last so far. *)
PushDonation(t) ==
  LET h == holder[obj[t]]
  IN  /\ At(t, "donate")
      /\ IF h = None THEN Panic("null holder")
         ELSE IF Donates(t) THEN Panic("donation_elem linked twice")
         ELSE IF donations[h] # <<>> /\ Freed(Last(donations[h])) THEN Panic("freed donor")
         ELSE /\ donations' = [donations EXCEPT ![h] = Append(@, t)]
              /\ Goto(t, "chain_start")
              /\ Local
              /\ UNCHANGED <<priority, ops, priority_origin, wait_on_lock, objectVars, localVars>>

(* Seeded fault: the chain is not followed and nothing is donated. *)
FollowToNowhere(t, h) ==
  /\ Goto(t, "down")
  /\ Local
  /\ UNCHANGED <<priority, ops, donorVars, objectVars, localVars>>

(* donate_priority: the chain is followed from wait_on_lock->holder, and   *)
(* its end is a holder that is NULL or waits for no lock.                  *)
FollowTo(t, h) ==
  /\ chain' = [chain EXCEPT ![t] = h]
  /\ Goto(t, IF h = None THEN "down" ELSE "chain_set")
  /\ Local
  /\ UNCHANGED <<priority, ops, donorVars, objectVars, obj>>

DonateStart(t) ==
  /\ At(t, "chain_start")
  /\ FollowTo(t, holder[wait_on_lock[t]])

(* The holder may be freed between two of the steps that follow it: its    *)
(* page is then full of 0xcc, and wait_on_lock is not NULL.                *)
DonateSet(t) ==
  /\ At(t, "chain_set")
  /\ IF Freed(chain[t]) THEN Panic("freed holder")
     ELSE /\ priority' = [priority EXCEPT ![chain[t]] = priority[t]]
          /\ Goto(t, "chain_test")
          /\ Local
          /\ UNCHANGED <<ops, donorVars, objectVars, localVars>>

DonateTest(t) ==
  LET stop == wait_on_lock[chain[t]] = None
  IN  /\ At(t, "chain_test")
      /\ IF Freed(chain[t]) THEN Panic("freed holder")
         ELSE /\ Goto(t, IF stop THEN "down" ELSE "chain_next")
              /\ chain' = IF stop THEN [chain EXCEPT ![t] = None] ELSE chain
              /\ Local
              /\ UNCHANGED <<priority, ops, donorVars, objectVars, obj>>

DonateNext(t) ==
  LET l == wait_on_lock[chain[t]]
  IN  /\ At(t, "chain_next")
      /\ IF Freed(chain[t]) THEN Panic("freed holder")
         ELSE IF l = None THEN Panic("null lock") ELSE FollowTo(t, holder[l])

-----------------------------------------------------------------------------
(* Semaphores. *)

EnterDown(t, s) ==
  /\ obj' = [obj EXCEPT ![t] = s]
  /\ Goto(t, "down")
  /\ Local
  /\ UNCHANGED <<priority, donorVars, objectVars, chain>>

SemaDownCall(t, s) == Calls(t) /\ EnterDown(t, s)

(* Seeded fault: "if" where sema_down has "while". *)
MustWaitOnce(t, s) == value[s] = 0 /\ pc[t] = "down"

MustWait(t, s) == value[s] = 0

(* One round of sema_down's loop: it blocks, and tests again when it is    *)
(* scheduled, before anything can interrupt it; or it takes the permit.    *)
SemaDown(t) ==
  LET s == obj[t]
  IN  /\ Runs(t) /\ pc[t] \in {"down", "retry"}
      /\ IF MustWait(t, s)
         THEN /\ waiters' = [waiters EXCEPT ![s] = Append(@, t)]
              /\ thread_block(t)
              /\ Goto(t, "retry")
              /\ UNCHANGED <<wait_on_lock, value, obj>>
         ELSE /\ wait_on_lock' = [wait_on_lock EXCEPT ![t] = None]
              /\ value' = [value EXCEPT ![s] = @ - 1]
              /\ Goto(t, IF s \in Lock THEN "acquired" ELSE "run")
              /\ obj' = IF s \in Lock THEN obj ELSE [obj EXCEPT ![t] = None]
              /\ UNCHANGED <<cpuVars, waiters>>
      /\ UNCHANGED <<priority, timerVars, child, ops, priority_origin, donations,
                     holder, chain, fault>>

(* The tail of lock_acquire and of lock_try_acquire. *)
SetHolder(t) ==
  /\ At(t, "acquired")
  /\ wait_on_lock' = [wait_on_lock EXCEPT ![t] = None]
  /\ holder' = [holder EXCEPT ![obj[t]] = t]
  /\ obj' = [obj EXCEPT ![t] = None]
  /\ Goto(t, "run")
  /\ Local
  /\ UNCHANGED <<priority, ops, priority_origin, donations, value, waiters, chain>>

LockTryAcquire(t, l) ==
  /\ Calls(t)
  /\ holder[l] # t
  /\ IF value[l] > 0
     THEN /\ value' = [value EXCEPT ![l] = @ - 1]
          /\ obj' = [obj EXCEPT ![t] = l]
          /\ Goto(t, "acquired")
     ELSE UNCHANGED <<value, obj, pc>>
  /\ Local
  /\ UNCHANGED <<priority, donorVars, waiters, holder, chain>>

Donors(u) == IF u = Idle THEN <<>> ELSE donations[u]

(* Seeded fault: the donated priority is kept. *)
KeptPriorities(u, gone, rest) == {priority[u]}

(* What sema_up makes of the priority of the running thread u once the     *)
(* donors in gone have left rest.  compare reads the donation_elems as if  *)
(* they were elems, so that the "largest" donor is any of them.            *)
RestoredPriorities(u, gone, rest) ==
  IF gone = {} THEN {priority[u]}
  ELSE IF rest = <<>> THEN {priority_origin[u]}
  ELSE {priority[d] : d \in Range(rest)}

(* sema_up(s), by the running thread or in the interrupt that stopped it,  *)
(* for the first waiter of the highest priority.                           *)
WakeWaiter(s, inInterrupt) ==
  LET k == list_max(waiters[s], priority)
      next_holder == waiters[s][k]
      woken == [status EXCEPT ![next_holder] = "ready"]
      gone == Range(waiters[s]) \cap Range(Donors(current))
      rest == list_without(Donors(current), gone)
  IN  /\ waiters' = [waiters EXCEPT ![s] = RemoveAt(@, k)]
      /\ IF current = Idle
         THEN /\ UNCHANGED <<donations, priority>>
              /\ thread_unblock(next_holder)
         ELSE \E p \in RestoredPriorities(current, gone, rest) :
              /\ donations' = [donations EXCEPT ![current] = rest]
              /\ priority' = [priority EXCEPT ![current] = p]
              /\ IF ~inInterrupt /\ p <= priority[next_holder]
                 THEN do_schedule(current, "ready", woken,
                        InsertReady(InsertReady(ready_list, next_holder, priority'),
                                    current, priority'))
                 ELSE /\ ready_list' = InsertReady(ready_list, next_holder, priority')
                      /\ status' = woken
                      /\ UNCHANGED <<current, destruction_req, thread_ticks>>

(* Seeded fault: the permit is counted and nobody is woken. *)
sema_up_silent(s, inInterrupt) ==
  /\ value' = [value EXCEPT ![s] = @ + 1]
  /\ UNCHANGED <<cpuVars, timerVars, priority, child, donorVars, waiters, holder, chain, fault>>

sema_up(s, inInterrupt) ==
  /\ value' = [value EXCEPT ![s] = @ + 1]
  /\ IF waiters[s] = <<>>
     THEN UNCHANGED <<cpuVars, priority, waiters, donations>>
     ELSE WakeWaiter(s, inInterrupt)
  /\ UNCHANGED <<timerVars, child, priority_origin, wait_on_lock, holder, chain, fault>>

(* sema_up walks the donations of the running thread for every waiter. *)
WalksFreedDonor(s) ==
  waiters[s] # <<>> /\ \E d \in Range(Donors(current)) : Freed(d)

SemaUp(t, s) ==
  /\ Calls(t)
  /\ value[s] < MaxValue
  /\ IF WalksFreedDonor(s) THEN fault' = "freed donor"
                                /\ UNCHANGED <<cpuVars, timerVars, priority, pc, child,
                                               donorVars, objectVars, localVars>>
     ELSE /\ sema_up(s, FALSE)
          /\ UNCHANGED <<pc, obj>>

(* A device handler ups the semaphore a thread waits on. *)
InterruptUp(s) ==
  /\ Interruptible
  /\ value[s] < MaxValue
  /\ IF WalksFreedDonor(s) THEN Panic("freed donor")
     ELSE sema_up(s, TRUE) /\ UNCHANGED <<pc, obj, ops>>

LockRelease(t, l) ==
  /\ At(t, "run")
  /\ holder[l] = t
  /\ holder' = [holder EXCEPT ![l] = None]
  /\ obj' = [obj EXCEPT ![t] = l]
  /\ Goto(t, "release")
  /\ Local
  /\ UNCHANGED <<priority, ops, donorVars, value, waiters, chain>>

ReleaseUp(t) ==
  /\ At(t, "release")
  /\ IF WalksFreedDonor(obj[t]) THEN Panic("freed donor")
     ELSE /\ sema_up(obj[t], FALSE)
          /\ obj' = [obj EXCEPT ![t] = None]
          /\ Goto(t, "run")
          /\ UNCHANGED ops

-----------------------------------------------------------------------------
(* thread_set_priority. *)

SetOrigin(t, new_priority) ==
  /\ Calls(t)
  /\ priority_origin' = [priority_origin EXCEPT ![t] = new_priority]
  /\ Goto(t, "set_priority")
  /\ Local
  /\ UNCHANGED <<priority, wait_on_lock, donations, objectVars, localVars>>

SetOwnPriority(t) ==
  /\ At(t, "set_priority")
  /\ priority' = [priority EXCEPT ![t] = priority_origin[t]]
  /\ Goto(t, "set_donated")
  /\ Local
  /\ UNCHANGED <<ops, donorVars, objectVars, localVars>>

(* Only the front donor is asked; a freed page reads as a low priority. *)
SetDonatedPriority(t) ==
  LET front == Head(donations[t])
      raised == donations[t] # <<>> /\ ~Freed(front) /\ priority[t] < priority[front]
  IN  /\ At(t, "set_donated")
      /\ priority' = IF raised THEN [priority EXCEPT ![t] = priority[front]] ELSE priority
      /\ Goto(t, "set_yield")
      /\ Local
      /\ UNCHANGED <<ops, donorVars, objectVars, localVars>>

SetYield(t) ==
  /\ At(t, "set_yield")
  /\ thread_yield(t)
  /\ Goto(t, "run")
  /\ UNCHANGED <<priority, timerVars, child, ops, synchVars>>

-----------------------------------------------------------------------------
(* Operations of the scheduler, here: a new thread has its own priority,   *)
(* and a thread holds no lock when it exits.                               *)

Create(t, c, p) ==
  /\ CreateThread(t, c, p)
  /\ priority_origin' = [priority_origin EXCEPT ![c] = p]
  /\ UNCHANGED <<wait_on_lock, donations, objectVars, localVars, fault>>

Exit(t) == Holds(t) = {} /\ ThreadExit(t) /\ UNCHANGED synchVars

Schedules(t) ==
  /\ \/ CreateUnblock(t)
     \/ CreatePreempt(t)
     \/ YieldCPU(t)
     \/ \E n \in SleepTicks : TimerSleep(t, n)
     \/ insert_blockList(t)
  /\ UNCHANGED synchVars

LockStep(t) ==
  \/ \E l \in Lock : LockAcquire(t, l) \/ LockTryAcquire(t, l) \/ LockRelease(t, l)
  \/ TestHolder(t) \/ ComparePriority(t) \/ PushDonation(t)
  \/ DonateStart(t) \/ DonateSet(t) \/ DonateTest(t) \/ DonateNext(t)
  \/ SetHolder(t) \/ ReleaseUp(t)

SemaStep(t) ==
  \/ \E s \in Sema : SemaDownCall(t, s) \/ SemaUp(t, s)
  \/ SemaDown(t)

PriorityStep(t) ==
  \/ \E p \in NewPriorities : SetOrigin(t, p)
  \/ SetOwnPriority(t) \/ SetDonatedPriority(t) \/ SetYield(t)

SynchThreadStep(t) ==
  \/ \E c \in Thread, p \in Priority : Create(t, c, p)
  \/ Schedules(t) \/ Exit(t)
  \/ LockStep(t) \/ SemaStep(t) \/ PriorityStep(t)

Timer == Interrupt /\ UNCHANGED synchVars
Device == \E s \in Sema : InterruptUp(s)
Idling == idle /\ UNCHANGED synchVars

SynchNext ==
  /\ fault = "none"
  /\ (\E t \in Thread : SynchThreadStep(t)) \/ Timer \/ Device \/ Idling

SynchSpec == SynchInit /\ [][SynchNext]_vars

(* The same kernel when no timer tick comes: threads switch only where the *)
(* code itself blocks or yields, as in tests shorter than a time slice.    *)
QuietNext == fault = "none" /\ \E t \in Thread : SynchThreadStep(t)
QuietSpec == SynchInit /\ [][QuietNext]_vars

(* A thread inside the kernel, and a thread that still has to release a    *)
(* lock or to exit, runs when it is scheduled often enough; the timer and  *)
(* its handler keep going.  Devices owe nothing.                           *)
SynchFairness ==
  /\ \A t \in Thread : SF_vars(fault = "none" /\ SynchThreadStep(t))
  /\ SF_vars(fault = "none" /\ Timer)
  /\ SF_vars(fault = "none" /\ Idling)

SynchFairSpec == SynchSpec /\ SynchFairness

-----------------------------------------------------------------------------
(* Properties. *)

SynchLabel == ThreadLabel \cup
  {"holder", "compare", "donate", "chain_start", "chain_set", "chain_test", "chain_next",
   "down", "retry", "acquired", "release", "set_priority", "set_donated", "set_yield"}

Fault == {"none", "null holder", "null lock", "donation_elem linked twice", "freed donor",
          "freed holder"}

(* Every variable keeps its type. *)
SynchTypeOK ==
  /\ ThreadTypeOK
  /\ pc \in [Thread -> SynchLabel]
  /\ priority_origin \in [Thread -> Priority]
  /\ wait_on_lock \in [Thread -> Lock \cup {None}]
  /\ donations \in [Thread -> Seq(Thread)]
  /\ value \in [Semaphore -> Nat]
  /\ waiters \in [Semaphore -> Seq(Thread)]
  /\ holder \in [Lock -> Thread \cup {None}]
  /\ obj \in [Thread -> Semaphore \cup {None}]
  /\ chain \in [Thread -> Thread \cup {None}]
  /\ fault \in Fault

(* A thread owns a lock from the sema_down that takes its permit, before   *)
(* holder says so, to the sema_up that gives it back, after holder is NULL *)
(* again.                                                                  *)
Owns(t, l) == holder[l] = t \/ (pc[t] \in {"acquired", "release"} /\ obj[t] = l)

(* "A lock can be held by at most a single thread": the permit of a lock   *)
(* is either in its semaphore or with the one thread that owns the lock.   *)
LockPermit ==
  \A l \in Lock :
    \/ value[l] = 1 /\ \A t \in Thread : ~Owns(t, l)
    \/ value[l] = 0 /\ \E t \in Thread : \A u \in Thread : Owns(u, l) = (u = t)

(* The one elem of a thread, now also used by the waiters of semaphores:   *)
(* a blocked thread is asleep, being created or waiting for one semaphore, *)
(* once, and the semaphore is the one its sema_down is about.              *)
WaitsFor(t, s) == t \in Range(waiters[s])
SynchElemExclusive ==
  /\ IsInjective(ready_list)
  /\ IsInjective(block_list)
  /\ \A s \in Semaphore : IsInjective(waiters[s])
  /\ \A t \in Thread :
       /\ (status[t] = "running") = (current = t)
       /\ (status[t] = "ready") = (t \in Range(ready_list))
       /\ (status[t] = "blocked") =
            (t \in Range(block_list) \/ BeingCreated(t) \/ \E s \in Semaphore : WaitsFor(t, s))
       /\ t \in Range(block_list) => ~BeingCreated(t)
       /\ \A s \in Semaphore : WaitsFor(t, s) =>
            pc[t] = "retry" /\ obj[t] = s /\ t \notin Range(block_list) /\ ~BeingCreated(t)

(* No wake-up is lost: while threads wait for a semaphore, every permit in *)
(* it belongs to a thread that was woken for it and will test it again.    *)
NoLostWakeup ==
  \A s \in Semaphore : waiters[s] # <<>> =>
    value[s] <= Cardinality({t \in Thread : pc[t] = "retry" /\ obj[t] = s /\ ~WaitsFor(t, s)})

(* Threads never all wait for each other: while one waits for a lock, some *)
(* thread other than the idle thread runs or is ready.  It takes the lock  *)
(* order of the clients, and no permit that is lost in sema_up.            *)
NoDeadlock ==
  (\E t \in Thread, l \in Lock : WaitsFor(t, l)) =>
    \E u \in Thread : status[u] \in {"running", "ready"}

(* sema_up wakes a waiter of the highest priority, which no donation has   *)
(* reached late, and only one (tests/threads/priority-sema.c).             *)
HighestWaiterWoken ==
  [][\A s \in Semaphore : \A t \in Range(waiters[s]) :
       t \notin Range(waiters'[s]) =>
         \A u \in Range(waiters'[s]) : priority[u] <= priority[t]]_vars

(* The locks as the rest of the kernel sees them. *)
owner == [l \in Lock |-> IF \E t \in Thread : Owns(t, l)
                         THEN CHOOSE t \in Thread : Owns(t, l) ELSE None]
Abstract == INSTANCE Mutex
ImplementsMutex == Abstract!Spec

(* Every thread finishes, however the threads are interleaved: locks taken *)
(* in order do not deadlock, no waiter is forgotten and no woken waiter    *)
(* starves behind the threads that bar its way -- or the kernel panics.    *)
EveryoneFinishes ==
  <>(fault # "none" \/ \A t \in Thread : status[t] \in {"none", "dying", "freed"})

(* "Kernel code shouldn't throw exceptions" (userprog/exception.c): on the *)
(* way to a donation, and on a walk of the donors, no NULL is dereferenced *)
(* and no thread that is already freed.                                    *)
NoKernelException == fault \notin {"null holder", "null lock", "freed donor", "freed holder"}

(* t waits inside lock_acquire for l, its donation made. *)
BlockedOn(t, l) == WaitsFor(t, l) /\ wait_on_lock[t] = l

(* "thread H donates its priority" (tests/threads/priority-donate-nest.c): *)
(* nobody holds a lock at a lower priority than a thread blocked on it.    *)
HolderRunsAtWaiterPriority ==
  \A l \in Lock, t \in Thread :
    BlockedOn(t, l) /\ holder[l] # None => priority[holder[l]] >= priority[t]

(* "When the main thread releases the locks in turn and relinquishes its   *)
(* donated priorities" (tests/threads/priority-donate-multiple.c): a       *)
(* thread that owns no lock has its own priority.                          *)
DonationRelinquished ==
  \A t \in Thread :
    pc[t] = "run" /\ (\A l \in Lock : ~Owns(t, l)) => priority[t] = priority_origin[t]

=============================================================================
