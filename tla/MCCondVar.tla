------------------------------ MODULE MCCondVar -------------------------------
(* Instances of CondVar for TLC. *)
EXTENDS CondVar

CONSTANTS m, a, b, sm, sa, sb

NoRank == [l \in Lock |-> 0]
Zero == [x \in Sema |-> 0]
LockOf == [x \in Cond |-> CHOOSE l \in Lock : TRUE]
SemaOf == [t \in Thread |-> CASE t = m -> sm [] t = a -> sa [] OTHER -> sb]

(* The main thread creates the others; then everyone may lock, wait, signal. *)
Ops422 == [t \in Thread |-> IF t = m THEN 4 ELSE 2]
=============================================================================
