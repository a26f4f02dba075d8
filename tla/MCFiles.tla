------------------------------- MODULE MCFiles -------------------------------
(* Instances of Files for TLC: the processes make MaxCalls calls in all,   *)
(* booting among them, and the directory is used by one at a time.         *)
EXTENDS Files, TLC

CONSTANTS p1, p2, MaxCalls

VARIABLE calls

SomeGarbage == {[start |-> 2, length |-> 2]}

Symmetry == Permutations(Process)

FewCalls ==
  \/ \E p \in Process :
       /\ ProcessStep(p)
       /\ calls' = IF pc[p] \in {"none", "user"} THEN calls + 1 ELSE calls
  \/ PowerOff /\ UNCHANGED calls

FewInit == Init /\ calls = 0
FewSpec == FewInit /\ [][FewCalls /\ calls' <= MaxCalls]_<<vars, calls>>
FewOrderlySpec == FewInit /\ [][FewCalls /\ calls' <= MaxCalls /\ Cardinality(InWindow') <= 1]_<<vars, calls>>
=============================================================================
