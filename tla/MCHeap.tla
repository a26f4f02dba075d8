------------------------------- MODULE MCHeap --------------------------------
(* Instances of Heap for TLC: the client makes MaxCalls calls in all. *)
EXTENDS Heap

CONSTANT MaxCalls

VARIABLE calls

FewInit == Init /\ calls = 0
FewNext == calls < MaxCalls /\ calls' = calls + 1 /\ Next
FewSpec == FewInit /\ [][FewNext]_<<vars, calls>>

(* Looks like the tag of a small block in use, or of a small free block. *)
TagLike == [n \in Requests |-> IF n = 10 THEN 5 ELSE 4]
=============================================================================
