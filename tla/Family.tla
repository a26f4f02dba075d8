-------------------------------- MODULE Family --------------------------------
(***************************************************************************)
(* What fork, exit and wait of userprog/process.c promise: "Waits for      *)
(* thread TID to die and returns its exit status", once for each child.    *)
(***************************************************************************)
CONSTANTS Tid, None, ExitCode

VARIABLES
  parent,   \* who created each process
  life,     \* "none", "alive", "ended" or "collected"
  code,     \* what an ended process left for its parent
  answer    \* the exit code a parent is being given

familyVars == <<parent, life, code, answer>>

Init ==
  /\ parent = [p \in Tid |-> None]
  /\ \E first \in Tid : life = [p \in Tid |-> IF p = first THEN "alive" ELSE "none"]
  /\ code = [p \in Tid |-> None]
  /\ answer = [p \in Tid |-> None]

Create(p, c) ==
  /\ life[p] = "alive" /\ life[c] = "none"
  /\ life' = [life EXCEPT ![c] = "alive"]
  /\ parent' = [parent EXCEPT ![c] = p]
  /\ UNCHANGED <<code, answer>>

End(p, status) ==
  /\ life[p] = "alive"
  /\ life' = [life EXCEPT ![p] = "ended"]
  /\ code' = [code EXCEPT ![p] = status]
  /\ UNCHANGED <<parent, answer>>

Collect(p, c) ==
  /\ life[p] = "alive" /\ parent[c] = p
  /\ life[c] = "ended"
  /\ life' = [life EXCEPT ![c] = "collected"]
  /\ answer' = [answer EXCEPT ![p] = code[c]]
  /\ UNCHANGED <<parent, code>>

Return(p) ==
  /\ answer' = [answer EXCEPT ![p] = None]
  /\ UNCHANGED <<parent, life, code>>

Next == \E p, c \in Tid : Create(p, c) \/ Collect(p, c) \/ Return(p)
                          \/ \E status \in ExitCode : End(p, status)

Spec == Init /\ [][Next]_familyVars
=============================================================================
