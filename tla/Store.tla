-------------------------------- MODULE Store --------------------------------
(***************************************************************************)
(* What the system calls on files promise: names lead to objects, an       *)
(* object has a fixed number of cells, and it lives as long as a name, a   *)
(* descriptor or a running program refers to it.  When the machine stops,  *)
(* the objects that have a name survive.                                   *)
(***************************************************************************)
EXTENDS Integers, Sequences

CONSTANTS Name, Object, Proc, Fd, Offset, Cell, Zero, Length, None

VARIABLES dir,    \* the object of a name, or None
          data,   \* the cells of an object, None if it does not live
          handle, \* [object, position] of a descriptor, or None
          exe     \* the object of the program a process has loaded, or None

storeVars == <<dir, data, handle, exe>>

Init ==
  /\ dir \in [Name -> Object \cup {None}]
  /\ \A o \in Object : data[o] # None => \E n \in Name : dir[n] = o
  /\ handle = [p \in Proc |-> [fd \in Fd |-> None]]
  /\ exe = [p \in Proc |-> None]

(* What becomes of the cells d: those of objects nobody refers to go. *)
Keep(d) ==
  data' = [o \in Object |->
    IF \/ \E n \in Name : dir'[n] = o
       \/ \E p \in Proc : exe'[p] = o \/ \E fd \in Fd : handle'[p][fd] # None /\ handle'[p][fd][1] = o
    THEN d[o] ELSE None]

Create(n, o, len) ==
  /\ dir[n] = None /\ data[o] = None
  /\ dir' = [dir EXCEPT ![n] = o]
  /\ data' = [data EXCEPT ![o] = [i \in 1 .. len |-> Zero]]
  /\ UNCHANGED <<handle, exe>>

Open(p, fd, n) ==
  /\ dir[n] # None /\ handle[p][fd] = None
  /\ handle' = [handle EXCEPT ![p][fd] = <<dir[n], 0>>]
  /\ UNCHANGED <<dir, data, exe>>

Close(p, fd) ==
  /\ handle[p][fd] # None
  /\ handle' = [handle EXCEPT ![p][fd] = None]
  /\ UNCHANGED <<dir, exe>> /\ Keep(data)

Remove(n) ==
  /\ dir[n] # None
  /\ dir' = [dir EXCEPT ![n] = None]
  /\ UNCHANGED <<handle, exe>> /\ Keep(data)

Move(p, fd, pos) ==
  /\ handle[p][fd] # None
  /\ handle' = [handle EXCEPT ![p][fd][2] = pos]
  /\ UNCHANGED <<dir, data, exe>>

(* A write goes cell by cell from the position on, and moves it at its end. *)
Write(p, fd, i, cell) ==
  /\ handle[p][fd] # None
  /\ LET o == handle[p][fd][1] IN
       /\ i \in handle[p][fd][2] + 1 .. Len(data[o])
       /\ data' = [data EXCEPT ![o][i] = cell]
  /\ UNCHANGED <<dir, handle, exe>>

(* A child gets its parent's descriptors, each with a position of its own, *)
(* or without those there was no memory for.                               *)
Fork(p, c, table) ==
  /\ \A fd \in Fd : handle[c][fd] = None
  /\ \A fd \in Fd : table[fd] \in {None, handle[p][fd]}
  /\ handle' = [handle EXCEPT ![c] = table]
  /\ UNCHANGED <<dir, data, exe>>

(* The program of the file fd, which is closed, takes over.                *)
Load(p, fd) ==
  /\ handle[p][fd] # None
  /\ exe' = [exe EXCEPT ![p] = handle[p][fd][1]]
  /\ handle' = [handle EXCEPT ![p][fd] = None]
  /\ UNCHANGED dir /\ Keep(data)

Unload(p) ==
  /\ exe' = [exe EXCEPT ![p] = None]
  /\ UNCHANGED <<dir, handle>> /\ Keep(data)

Stop ==
  /\ handle' = [p \in Proc |-> [fd \in Fd |-> None]]
  /\ exe' = [p \in Proc |-> None]
  /\ UNCHANGED dir /\ Keep(data)

(* What a step leaves - an object, a position, a cell - is read off the    *)
(* state after it.                                                         *)
Next ==
  \/ \E n \in Name, len \in Length : dir'[n] \in Object /\ Create(n, dir'[n], len)
  \/ \E p \in Proc, fd \in Fd :
       \/ \E n \in Name : Open(p, fd, n)
       \/ Close(p, fd) \/ Load(p, fd)
       \/ handle'[p][fd] # None /\ handle'[p][fd][2] \in Offset /\ Move(p, fd, handle'[p][fd][2])
       \/ /\ handle[p][fd] # None /\ data'[handle[p][fd][1]] # None
          /\ \E i \in DOMAIN data'[handle[p][fd][1]] :
               LET cell == data'[handle[p][fd][1]][i] IN cell \in Cell /\ Write(p, fd, i, cell)
  \/ \E n \in Name : Remove(n)
  \/ \E p, c \in Proc : Fork(p, c, handle'[c])
  \/ \E p \in Proc : Unload(p)
  \/ Stop

Spec == Init /\ [][Next]_storeVars
=============================================================================
