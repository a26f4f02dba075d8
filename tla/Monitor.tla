------------------------------- MODULE Monitor --------------------------------
(***************************************************************************)
(* What a condition variable of threads/synch.h promises, together with    *)
(* its lock: a "Mesa" style monitor.  cond_wait "atomically releases LOCK  *)
(* and waits"; a signal moves one waiting thread on, and it returns once   *)
(* it has the lock again.                                                  *)
(***************************************************************************)
CONSTANTS Thread, Cond, Lock, None,
  CondLock   \* the lock that goes with each condition variable

VARIABLES
  owner,     \* who owns each lock
  waiting,   \* who waits on each condition variable
  signaled   \* who has been signaled and must get its lock back

monitorVars == <<owner, waiting, signaled>>

Init ==
  /\ owner = [l \in Lock |-> None]
  /\ waiting = [c \in Cond |-> {}]
  /\ signaled = {}

Inside(t) == t \in signaled \/ \E c \in Cond : t \in waiting[c]

Acquire(t, l) ==
  /\ ~Inside(t)
  /\ owner[l] = None
  /\ owner' = [owner EXCEPT ![l] = t]
  /\ UNCHANGED <<waiting, signaled>>

Release(t, l) ==
  /\ owner[l] = t
  /\ owner' = [owner EXCEPT ![l] = None]
  /\ UNCHANGED <<waiting, signaled>>

Wait(t, c) ==
  /\ owner[CondLock[c]] = t
  /\ owner' = [owner EXCEPT ![CondLock[c]] = None]
  /\ waiting' = [waiting EXCEPT ![c] = @ \cup {t}]
  /\ UNCHANGED signaled

Signal(t, c) ==
  /\ owner[CondLock[c]] = t
  /\ \E u \in waiting[c] :
       /\ waiting' = [waiting EXCEPT ![c] = @ \ {u}]
       /\ signaled' = signaled \cup {u}
  /\ UNCHANGED owner

Return(t, c) ==
  /\ t \in signaled
  /\ owner[CondLock[c]] = None
  /\ owner' = [owner EXCEPT ![CondLock[c]] = t]
  /\ signaled' = signaled \ {t}
  /\ UNCHANGED waiting

Next ==
  \E t \in Thread :
    \/ \E l \in Lock : Acquire(t, l) \/ Release(t, l)
    \/ \E c \in Cond : Wait(t, c) \/ Signal(t, c) \/ Return(t, c)

Spec == Init /\ [][Next]_monitorVars
=============================================================================
