------------------------------ MODULE Allocator ------------------------------
(***************************************************************************)
(* What malloc, free and realloc promise their client: a block it has been *)
(* given keeps what the client wrote into it, whatever becomes of other    *)
(* blocks, until the client frees it; realloc keeps as much as fits.       *)
(***************************************************************************)
EXTENDS Integers, Sequences

CONSTANTS Address, Length, Word

VARIABLE block \* the contents of the blocks the client has, by address

IsContents(s) == Len(s) \in Length /\ \A i \in 1 .. Len(s) : s[i] \in Word

With(f, p, s) == [a \in DOMAIN f \cup {p} |-> IF a = p THEN s ELSE f[a]]
Without(f, p) == [a \in DOMAIN f \ {p} |-> f[a]]

Init == block = [a \in {} |-> <<>>]

Malloc(p, s) ==
  /\ p \notin DOMAIN block
  /\ block' = With(block, p, s)

Free(p) == block' = Without(block, p)

Realloc(p, q, s) ==
  /\ q \notin DOMAIN block \ {p}
  /\ \A i \in 1 .. Len(s) : i <= Len(block[p]) => s[i] = block[p][i]
  /\ block' = With(Without(block, p), q, s)

(* The contents a step leaves are read off block'. *)
Next ==
  \/ \E p \in DOMAIN block' \ DOMAIN block : IsContents(block'[p]) /\ Malloc(p, block'[p])
  \/ \E p \in DOMAIN block :
       \/ Free(p)
       \/ \E q \in DOMAIN block' : IsContents(block'[q]) /\ Realloc(p, q, block'[q])

Spec == Init /\ [][Next]_block
=============================================================================
