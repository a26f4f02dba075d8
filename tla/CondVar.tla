------------------------------- MODULE CondVar --------------------------------
(***************************************************************************)
(* Condition variables: cond_wait, cond_signal and cond_broadcast of       *)
(* threads/synch.c, on top of semaphores and locks.                        *)
(*                                                                         *)
(* cond_wait keeps a semaphore_elem on the stack of the waiting thread, so *)
(* an element of cond->waiters is named by its thread; the semaphore in it *)
(* is a member of Sema.  cond_pc[t] says where t is in one of the three    *)
(* functions, pc[t] where it is in the lock and semaphore calls they make. *)
(***************************************************************************)
EXTENDS Synch

CONSTANTS
  Cond,        \* struct conditions
  CondLock,    \* client: the lock that goes with each condition variable
  WaiterSema   \* waiter.semaphore of each thread

ASSUME CondAssumption ==
  /\ CondLock \in [Cond -> Lock]
  /\ WaiterSema \in [Thread -> Sema]
  /\ IsInjective(WaiterSema)

VARIABLES
  cond_waiters,  \* struct condition: waiters
  cond_pc,
  cond,          \* the condition variable t waits on or signals
  max_elem,      \* cond_signal's local: whose element it signals
  broadcast      \* t is in cond_broadcast

condLocals == <<cond_pc, cond, max_elem, broadcast>>
condVars == <<cond_waiters, condLocals>>
allVars == <<vars, condVars>>

CondInit ==
  /\ SynchInit
  /\ cond_waiters = [c \in Cond |-> <<>>]
  /\ cond_pc = [t \in Thread |-> "out"]
  /\ cond = [t \in Thread |-> None]
  /\ max_elem = [t \in Thread |-> None]
  /\ broadcast = [t \in Thread |-> FALSE]

CondGoto(t, label) == cond_pc' = [cond_pc EXCEPT ![t] = label]

(* t is in none of the calls that cond_wait or cond_signal makes. *)
CondAt(t, label) == At(t, "run") /\ cond_pc[t] = label

-----------------------------------------------------------------------------
(* cond_wait. *)

CondWait(t, c) ==
  LET s == WaiterSema[t]
  IN  /\ Calls(t) /\ cond_pc[t] = "out"
      /\ holder[CondLock[c]] = t
      /\ value' = [value EXCEPT ![s] = 0]
      /\ waiters' = [waiters EXCEPT ![s] = <<>>]
      /\ cond_waiters' = [cond_waiters EXCEPT ![c] = Append(@, t)]
      /\ cond' = [cond EXCEPT ![t] = c]
      /\ CondGoto(t, "release")
      /\ Local
      /\ UNCHANGED <<pc, priority, donorVars, holder, localVars, max_elem, broadcast>>

CondRelease(t) ==
  /\ CondAt(t, "release")
  /\ LockRelease(t, CondLock[cond[t]])
  /\ CondGoto(t, "down")
  /\ UNCHANGED <<cond_waiters, cond, max_elem, broadcast>>

CondDown(t) ==
  /\ CondAt(t, "down")
  /\ EnterDown(t, WaiterSema[t])
  /\ CondGoto(t, "reacquire")
  /\ UNCHANGED <<ops, cond_waiters, cond, max_elem, broadcast>>

(* Seeded fault: cond_wait returns without its lock. *)
ReturnWithoutLock(t) ==
  /\ CondAt(t, "reacquire")
  /\ CondGoto(t, "out")
  /\ cond' = [cond EXCEPT ![t] = None]
  /\ UNCHANGED <<vars, cond_waiters, max_elem, broadcast>>

CondReacquire(t) ==
  /\ CondAt(t, "reacquire")
  /\ EnterAcquire(t, CondLock[cond[t]])
  /\ CondGoto(t, "return")
  /\ UNCHANGED <<ops, cond_waiters, cond, max_elem, broadcast>>

(* cond_wait returns when its lock_acquire does. *)
Returning(t) == cond_pc[t] = "return" /\ pc'[t] = "run"

-----------------------------------------------------------------------------
(* cond_signal and cond_broadcast. *)

(* What compare_cond compares of a waiter: the highest priority in its     *)
(* semaphore.  When the thread has not got to its sema_down yet that list  *)
(* is empty, and list_max returns the list's tail; the word where a thread *)
(* around it would have its priority is head.prev, NULL, which reads as    *)
(* PRI_MIN.                                                                *)
CondKey(u) == IF waiters[WaiterSema[u]] = <<>> THEN PRI_MIN ELSE priority[u]

(* cond_signal, or cond_broadcast if all. *)
CondSignal(t, c, all) ==
  /\ Calls(t) /\ cond_pc[t] = "out"
  /\ holder[CondLock[c]] = t
  /\ IF cond_waiters[c] = <<>> THEN UNCHANGED condLocals
     ELSE /\ cond' = [cond EXCEPT ![t] = c]
          /\ broadcast' = [broadcast EXCEPT ![t] = all]
          /\ CondGoto(t, "choose")
          /\ UNCHANGED max_elem
  /\ Local
  /\ UNCHANGED <<pc, priority, donorVars, objectVars, localVars, cond_waiters>>

CondChoose(t) ==
  LET q == cond_waiters[cond[t]]
      key == [u \in Thread |-> CondKey(u)]
  IN  /\ CondAt(t, "choose")
      /\ max_elem' = [max_elem EXCEPT ![t] = q[list_max(q, key)]]
      /\ CondGoto(t, "up")
      /\ UNCHANGED <<vars, cond_waiters, cond, broadcast>>

(* Seeded fault: the element is removed and its semaphore never upped. *)
CondUpLost(t) ==
  /\ CondAt(t, "up")
  /\ CondGoto(t, "remove")
  /\ UNCHANGED <<vars, cond_waiters, cond, max_elem, broadcast>>

CondUp(t) ==
  LET s == WaiterSema[max_elem[t]]
  IN  /\ CondAt(t, "up")
      /\ IF WalksFreedDonor(s) THEN Panic("freed donor")
         ELSE sema_up(s, FALSE) /\ UNCHANGED <<pc, ops, obj>>
      /\ CondGoto(t, "remove")
      /\ UNCHANGED <<cond_waiters, cond, max_elem, broadcast>>

CondRemove(t) ==
  LET c == cond[t]
  IN  /\ CondAt(t, "remove")
      /\ cond_waiters' = [cond_waiters EXCEPT ![c] = list_without(@, {max_elem[t]})]
      /\ max_elem' = [max_elem EXCEPT ![t] = None]
      /\ IF broadcast[t] /\ cond_waiters'[c] # <<>>
         THEN CondGoto(t, "choose") /\ UNCHANGED <<cond, broadcast>>
         ELSE /\ CondGoto(t, "out")
              /\ cond' = [cond EXCEPT ![t] = None]
              /\ broadcast' = [broadcast EXCEPT ![t] = FALSE]
      /\ UNCHANGED vars

-----------------------------------------------------------------------------
CondThreadStep(t) ==
  \/ \E c \in Cond : CondWait(t, c) \/ \E all \in BOOLEAN : CondSignal(t, c, all)
  \/ CondRelease(t) \/ CondDown(t) \/ CondReacquire(t)
  \/ CondChoose(t) \/ CondUp(t) \/ CondRemove(t)

(* The other steps: of a call that cond_wait makes, or outside of it.      *)
(* Client: the main thread creates the others, all use the monitor's lock  *)
(* and exit; the timer yields for them.                                    *)
OtherStep(t) ==
  /\ pc[t] # "run" \/ cond_pc[t] = "out"
  /\ \/ t = Main /\ \E c \in Thread, p \in Priority : Create(t, c, p)
     \/ (CreateUnblock(t) \/ CreatePreempt(t)) /\ UNCHANGED synchVars
     \/ Exit(t) \/ LockStep(t) \/ SemaDown(t)
  /\ IF Returning(t)
     THEN CondGoto(t, "out") /\ cond' = [cond EXCEPT ![t] = None]
     ELSE UNCHANGED <<cond_pc, cond>>
  /\ UNCHANGED <<cond_waiters, max_elem, broadcast>>

CondNext ==
  /\ fault = "none"
  /\ \/ \E t \in Thread : CondThreadStep(t) \/ OtherStep(t)
     \/ (Timer \/ Idling) /\ UNCHANGED condVars

CondSpec == CondInit /\ [][CondNext]_allVars

-----------------------------------------------------------------------------
(* Properties. *)

CondLabel == {"out", "release", "down", "reacquire", "return", "choose", "up", "remove"}

(* Every variable keeps its type. *)
CondTypeOK ==
  /\ SynchTypeOK
  /\ cond_waiters \in [Cond -> Seq(Thread)]
  /\ cond_pc \in [Thread -> CondLabel]
  /\ cond \in [Thread -> Cond \cup {None}]
  /\ max_elem \in [Thread -> Thread \cup {None}]
  /\ broadcast \in [Thread -> BOOLEAN]

InWait(t) == cond_pc[t] \in {"release", "down", "reacquire", "return"}

(* A semaphore_elem lives on the stack of cond_wait: what cond->waiters    *)
(* links, and what cond_signal still removes after its sema_up has let the *)
(* waiter run, belongs to a thread that has not returned; and it is linked *)
(* once.                                                                   *)
CondElemLive ==
  /\ \A c \in Cond : IsInjective(cond_waiters[c])
  /\ \A c \in Cond : \A u \in Range(cond_waiters[c]) : InWait(u) /\ cond[u] = c
  /\ \A t \in Thread : max_elem[t] # None => max_elem[t] \in Range(cond_waiters[cond[t]])

(* "cond_signal() wakes up the highest-priority thread waiting in          *)
(* cond_wait()" (tests/threads/priority-condvar.c): the waiter that is     *)
(* signaled is not below one that was already asleep.                      *)
Asleep(u) == WaitsFor(u, WaiterSema[u])
HighestAsleepSignaled ==
  [][\A t \in Thread : cond_pc[t] = "choose" /\ cond_pc'[t] = "up" =>
       \A u \in Range(cond_waiters[cond[t]]) :
         Asleep(u) => priority[max_elem'[t]] >= priority[u]]_allVars

(* The monitor that clients see.  t waits from the moment its lock is free *)
(* until its semaphore is upped, and is then signaled until it owns the    *)
(* lock again: no wait misses a signal, no signal is lost or counted twice.*)
WaitsOn(t, c) ==
  /\ t \in Range(cond_waiters[c])
  /\ value[WaiterSema[t]] = 0
  /\ \/ cond_pc[t] = "down" /\ pc[t] = "run"
     \/ cond_pc[t] = "reacquire" /\ pc[t] \in {"down", "retry"}

HasSignal(t) ==
  \/ cond_pc[t] \in {"down", "reacquire"} /\ value[WaiterSema[t]] = 1
  \/ cond_pc[t] = "reacquire" /\ pc[t] = "run"
  \/ cond_pc[t] = "return" /\ pc[t] # "acquired"

waiting == [c \in Cond |-> {t \in Thread : WaitsOn(t, c)}]
signaled == {t \in Thread : HasSignal(t)}

Mesa == INSTANCE Monitor
ImplementsMonitor == Mesa!Spec
=============================================================================
