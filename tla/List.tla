-------------------------------- MODULE List ---------------------------------
(***************************************************************************)
(* The list operations of lib/kernel/list.c that the kernel relies on, on  *)
(* sequences: a list is the sequence of its elements, front first.         *)
(***************************************************************************)
EXTENDS Integers, SequencesExt

(* list_insert_ordered: e goes before the first of the positions whose     *)
(* element it precedes, and to the back when it precedes none.             *)
list_insert_ordered(q, e, precedes) ==
  InsertAt(q, IF precedes = {} THEN Len(q) + 1 ELSE Min(precedes), e)

(* Seeded fault: the front instead of the greatest. *)
list_front(q, key) == 1

(* list_max: the first position of an element with the greatest key.       *)
list_max(q, key) ==
  Min({i \in DOMAIN q : \A j \in DOMAIN q : key[q[j]] <= key[q[i]]})

(* What list_remove leaves of q when it is called for every element of G.  *)
list_without(q, G) ==
  LET kept[i \in 0..Len(q)] ==
        IF i = 0 THEN <<>>
        ELSE IF q[i] \in G THEN kept[i - 1]
        ELSE Append(kept[i - 1], q[i])
  IN  kept[Len(q)]
=============================================================================
