------------------------------ MODULE MCThreads ------------------------------
(* Instances of Threads for TLC. *)
EXTENDS Threads

CONSTANTS m, a, b
Sleeps == {-1, 0, 1, 2}

(* Operations per thread: the main thread creates the others first. *)
Ops(main, rest) == [t \in Thread |-> IF t = m THEN main ELSE rest]
Ops22 == Ops(2, 2)
Ops32 == Ops(3, 2)
Ops33 == Ops(3, 3)
Ops42 == Ops(4, 2)
Ops51 == Ops(5, 1)
=============================================================================
