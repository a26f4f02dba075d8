------------------------------- MODULE MCSynch -------------------------------
(* Instances of Synch for TLC. *)
EXTENDS Synch

CONSTANTS m, a, b, c, A, B, sem

OneLockRank == [l \in Lock |-> 0]
TwoLockRank == [l \in Lock |-> IF l = A THEN 1 ELSE 2]
SemaZero == [x \in Sema |-> 0]

(* Operations per thread: the main thread creates the others first. *)
Ops(main, rest) == [t \in Thread |-> IF t = m THEN main ELSE rest]
Ops22 == Ops(2, 2)
Ops33 == Ops(3, 3)
Ops42 == Ops(4, 2)
=============================================================================
