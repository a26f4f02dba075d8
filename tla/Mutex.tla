-------------------------------- MODULE Mutex --------------------------------
(***************************************************************************)
(* What the locks of threads/synch.h promise: at most one thread owns a    *)
(* lock, it gets it when nobody owns it, and only it gives it back.        *)
(***************************************************************************)
CONSTANTS Thread, Lock, None

VARIABLE owner

Init == owner = [l \in Lock |-> None]

Acquire(t, l) == owner[l] = None /\ owner' = [owner EXCEPT ![l] = t]
Release(t, l) == owner[l] = t /\ owner' = [owner EXCEPT ![l] = None]

Next == \E t \in Thread, l \in Lock : Acquire(t, l) \/ Release(t, l)

Spec == Init /\ [][Next]_owner
=============================================================================
