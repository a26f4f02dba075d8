--------------------------- MODULE SchedulerProofs ---------------------------
(***************************************************************************)
(* Proofs about the kernel's lists and the scheduler, for lists of any     *)
(* length, every set of threads, every range of priorities and every time  *)
(* slice: what the list operations return, the type invariant, and that a  *)
(* thread is in one list at a time and both lists stay in order under      *)
(* preemption, so that the head is the right thread to run and the right   *)
(* sleeper to wake.                                                        *)
(***************************************************************************)
EXTENDS Threads, TLAPS, WellFoundedInduction

(* What the list operations return.  TLAPS cannot instantiate an induction *)
(* theorem, so the recursion of list_without is unfolded by a least        *)
(* counterexample.                                                         *)

(* A set of natural numbers has its Min in it. *)
LEMMA MinInSet ==
  ASSUME NEW T \in SUBSET Nat, T # {}
  PROVE  Min(T) \in T /\ \A n \in T : Min(T) <= n
<1> DEFINE R == {ss \in Nat \X Nat : ss[1] < ss[2]}
<1>1. IsWellFoundedOn(R, Nat)
  BY NatLessThanWellFounded DEF OpToRel
<1>2. \A x, y \in Nat : y < x => <<y, x>> \in R
  OBVIOUS
<1> HIDE DEF R
<1>3. PICK x \in T : \A y \in T : <<y, x>> \notin R
  BY <1>1, WFMin
<1>4. ASSUME NEW y \in T PROVE x <= y
  <2>1. x \in Nat /\ y \in Nat
    OBVIOUS
  <2>2. ~(y < x)
    BY <2>1, <1>2, <1>3
  <2> QED BY <2>1, <2>2
<1> QED BY <1>4 DEF Min

(* Every non-empty set of natural numbers has a least element. *)
LEMMA LeastElement ==
  ASSUME NEW T \in SUBSET Nat, T # {}
  PROVE  \E n \in T : \A m \in T : n <= m
BY MinInSet

(* The library's InsertAt and RemoveAt keep the type of a list. *)
LEMMA InsertAtType ==
  ASSUME NEW S, NEW q \in Seq(S), NEW e \in S, NEW i \in 1..Len(q) + 1
  PROVE  InsertAt(q, i, e) \in Seq(S)
BY DEF InsertAt

LEMMA RemoveAtType ==
  ASSUME NEW S, NEW q \in Seq(S), NEW i \in 1..Len(q)
  PROVE  RemoveAt(q, i) \in Seq(S)
BY DEF RemoveAt

(* Where list_insert_ordered puts its element is a position of the list or *)
(* the end of it.                                                          *)
LEMMA InsertPosition ==
  ASSUME NEW S, NEW q \in Seq(S), NEW precedes \in SUBSET (1..Len(q))
  PROVE  (IF precedes = {} THEN Len(q) + 1 ELSE Min(precedes)) \in 1..Len(q) + 1
<1>1. CASE precedes = {}
  BY <1>1
<1>2. CASE precedes # {}
  <2>1. precedes \in SUBSET Nat
    OBVIOUS
  <2>2. Min(precedes) \in precedes
    BY <2>1, <1>2, MinInSet
  <2>3. Min(precedes) \in 1..Len(q)
    BY <2>2
  <2> QED BY <2>3, <1>2
<1> QED BY <1>1, <1>2

(* list_insert_ordered returns a list of the same type. *)
LEMMA InsertOrderedType ==
  ASSUME NEW S, NEW q \in Seq(S), NEW e \in S, NEW precedes \in SUBSET (1..Len(q))
  PROVE  list_insert_ordered(q, e, precedes) \in Seq(S)
BY InsertPosition, InsertAtType DEF list_insert_ordered

(* list_max finds a position of the list, and no element has a greater key. *)
LEMMA MaxPosition ==
  ASSUME NEW S, NEW q \in Seq(S), q # <<>>, NEW lo \in Int, NEW hi \in Int,
         NEW key \in [S -> lo..hi]
  PROVE  /\ list_max(q, key) \in 1..Len(q)
         /\ \A j \in 1..Len(q) : key[q[j]] <= key[q[list_max(q, key)]]
<1> DEFINE Gap == {n \in Nat : \E i \in 1..Len(q) : n = hi - key[q[i]]}
<1> DEFINE Top == {i \in DOMAIN q : \A j \in DOMAIN q : key[q[j]] <= key[q[i]]}
<1>1. \A i \in 1..Len(q) : key[q[i]] \in lo..hi
  OBVIOUS
<1>2. Gap # {}
  <2>1. 1 \in 1..Len(q)
    OBVIOUS
  <2>2. hi - key[q[1]] \in Nat
    BY <2>1, <1>1
  <2> QED BY <2>1, <2>2
<1>3. PICK n \in Gap : \A m \in Gap : n <= m
  <2>1. Gap \in SUBSET Nat
    OBVIOUS
  <2> HIDE DEF Gap
  <2> QED BY <2>1, <1>2, LeastElement
<1>4. PICK i \in 1..Len(q) : n = hi - key[q[i]]
  OBVIOUS
<1>5. ASSUME NEW j \in 1..Len(q) PROVE key[q[j]] <= key[q[i]]
  <2>1. hi - key[q[j]] \in Gap
    BY <1>1
  <2>2. n <= hi - key[q[j]]
    BY <2>1, <1>3
  <2> QED BY <2>2, <1>1, <1>4, SMTT(30)
<1>6. DOMAIN q = 1..Len(q)
  OBVIOUS
<1>7. Top \in SUBSET Nat
  BY <1>6
<1>8. i \in Top
  BY <1>5, <1>6
<1>9. Min(Top) \in Top
  <2> HIDE DEF Top
  <2> QED BY <1>7, <1>8, MinInSet
<1>10. list_max(q, key) = Min(Top)
  BY DEF list_max
<1> QED BY <1>6, <1>9, <1>10

-----------------------------------------------------------------------------
(* The recursion of list_without, as an equation between functions. *)
Kept(q, G, f, n) ==
  [i \in 0..n |-> IF i = 0 THEN <<>>
                  ELSE IF q[i] \in G THEN f[i - 1]
                  ELSE Append(f[i - 1], q[i])]

(* The equation has a solution over every prefix of the list. *)
LEMMA KeptExists ==
  ASSUME NEW S, NEW q \in Seq(S), NEW G
  PROVE  \A n \in 0..Len(q) : \E f \in [0..n -> Seq(S)] : f = Kept(q, G, f, n)
<1> DEFINE Good(n) == \E f \in [0..n -> Seq(S)] : f = Kept(q, G, f, n)
<1> DEFINE Bad == {n \in 0..Len(q) : ~Good(n)}
<1> SUFFICES ASSUME Bad # {} PROVE FALSE
  OBVIOUS
<1>1. PICK n \in Bad : \A m \in Bad : n <= m
  <2>1. Bad \in SUBSET Nat
    OBVIOUS
  <2> HIDE DEF Bad
  <2> QED BY <2>1, LeastElement
<1>2. n \in 0..Len(q) /\ ~Good(n)
  OBVIOUS
<1>3. n # 0
  <2> DEFINE f == [i \in 0..0 |-> <<>>]
  <2>1. f \in [0..0 -> Seq(S)] /\ f = Kept(q, G, f, 0)
    BY DEF Kept
  <2> QED BY <2>1, <1>2
<1>4. n - 1 \in 0..Len(q) /\ n - 1 \notin Bad
  BY <1>1, <1>2, <1>3
<1>5. PICK f \in [0..n - 1 -> Seq(S)] : f = Kept(q, G, f, n - 1)
  BY <1>4
<1> DEFINE last == IF q[n] \in G THEN f[n - 1] ELSE Append(f[n - 1], q[n])
<1> DEFINE g == [i \in 0..n |-> IF i = n THEN last ELSE f[i]]
<1>6. last \in Seq(S)
  BY <1>2, <1>3, <1>5
<1>7. g \in [0..n -> Seq(S)]
  <2> HIDE DEF last
  <2> QED BY <1>2, <1>5, <1>6
<1>8. g = Kept(q, G, g, n)
  <2>1. ASSUME NEW i \in 0..n
        PROVE  g[i] = IF i = 0 THEN <<>>
                      ELSE IF q[i] \in G THEN g[i - 1]
                      ELSE Append(g[i - 1], q[i])
    <3>1. CASE i = n
      <4>1. g[i] = last /\ g[i - 1] = f[n - 1]
        BY <3>1, <1>2, <1>3
      <4> QED BY <4>1, <3>1, <1>3
    <3>2. CASE i # n
      <4>1. i \in 0..n - 1 /\ g[i] = f[i] /\ (i # 0 => g[i - 1] = f[i - 1])
        BY <3>2, <1>2, <1>3
      <4>2. f[i] = IF i = 0 THEN <<>>
                   ELSE IF q[i] \in G THEN f[i - 1]
                   ELSE Append(f[i - 1], q[i])
        BY <4>1, <1>5 DEF Kept
      <4> HIDE DEF g
      <4> QED BY <4>1, <4>2
    <3> QED BY <3>1, <3>2
  <2>2. g = [i \in 0..n |-> g[i]]
    OBVIOUS
  <2> HIDE DEF g
  <2> QED BY <2>1, <2>2 DEF Kept
<1>9. Good(n)
  <2> HIDE DEF g
  <2> QED BY <1>7, <1>8
<1> QED BY <1>2, <1>9

(* list_without returns a list of the same type. *)
LEMMA WithoutType ==
  ASSUME NEW S, NEW q \in Seq(S), NEW G
  PROVE  list_without(q, G) \in Seq(S)
<1> DEFINE f == CHOOSE f : f = Kept(q, G, f, Len(q))
<1>1. list_without(q, G) = f[Len(q)]
  BY DEF list_without, Kept
<1>2. f = Kept(q, G, f, Len(q))
  BY KeptExists
<1> HIDE DEF f
<1> DEFINE Bad == {i \in 0..Len(q) : f[i] \notin Seq(S)}
<1>3. Bad = {}
  <2> SUFFICES ASSUME Bad # {} PROVE FALSE
    OBVIOUS
  <2>1. PICK n \in Bad : \A m \in Bad : n <= m
    <3>1. Bad \in SUBSET Nat
      OBVIOUS
    <3> HIDE DEF Bad
    <3> QED BY <3>1, LeastElement
  <2>2. n \in 0..Len(q) /\ f[n] \notin Seq(S)
    OBVIOUS
  <2>3. f[n] = IF n = 0 THEN <<>>
               ELSE IF q[n] \in G THEN f[n - 1]
               ELSE Append(f[n - 1], q[n])
    BY <1>2, <2>2 DEF Kept
  <2>4. n # 0 /\ n - 1 \in 0..Len(q) /\ n - 1 \notin Bad
    BY <2>1, <2>2, <2>3
  <2>5. f[n - 1] \in Seq(S) /\ q[n] \in S
    BY <2>2, <2>4
  <2> QED BY <2>2, <2>3, <2>4, <2>5
<1> QED BY <1>1, <1>3

-----------------------------------------------------------------------------
(* The lemmas about the scheduler's operators that Synch uses too, and the *)
(* type invariant.                                                         *)

CpuTypeOK ==
  /\ current \in Thread \cup {Idle}
  /\ status \in [Thread -> Status]
  /\ ready_list \in Seq(Thread)
  /\ destruction_req \in SUBSET Thread
  /\ thread_ticks \in 0..TIME_SLICE

(* The list insertions keep the type of their list. *)
LEMMA InsertReadyType ==
  ASSUME NEW q \in Seq(Thread), NEW t \in Thread, NEW p
  PROVE  InsertReady(q, t, p) \in Seq(Thread)
<1>1. {i \in DOMAIN q : p[t] > p[q[i]]} \in SUBSET (1..Len(q))
  OBVIOUS
<1> QED BY <1>1, InsertOrderedType DEF InsertReady

LEMMA InsertSleeperType ==
  ASSUME NEW q \in Seq(Thread), NEW t \in Thread
  PROVE  InsertSleeper(q, t) \in Seq(Thread)
<1>1. {i \in DOMAIN q : endTick[t] < endTick[q[i]]} \in SUBSET (1..Len(q))
  OBVIOUS
<1> QED BY <1>1, InsertOrderedType DEF InsertSleeper

(* The switch leaves a thread or the idle thread running. *)
LEMMA ScheduleType ==
  ASSUME NEW st \in [Thread -> Status], NEW q \in Seq(Thread), schedule(st, q)
  PROVE  /\ current' \in Thread \cup {Idle}
         /\ status' \in [Thread -> Status]
         /\ ready_list' \in Seq(Thread)
         /\ thread_ticks' \in 0..TIME_SLICE
<1>1. next_thread_to_run(q) \in Thread \cup {Idle}
  <2>1. CASE q = <<>>
    BY <2>1 DEF next_thread_to_run
  <2>2. CASE q # <<>>
    <3>1. Head(q) \in Thread
      BY <2>2
    <3> QED BY <2>2, <3>1 DEF next_thread_to_run
  <2> QED BY <2>1, <2>2
<1>2. (IF q = <<>> THEN q ELSE Tail(q)) \in Seq(Thread)
  <2>1. CASE q = <<>>
    BY <2>1
  <2>2. CASE q # <<>>
    <3>1. Tail(q) \in Seq(Thread)
      BY <2>2
    <3> QED BY <2>2, <3>1
  <2> QED BY <2>1, <2>2
<1>3. status' \in [Thread -> Status]
  BY DEF schedule, Status
<1>4. 0 \in 0..TIME_SLICE
  BY ThreadsAssumption
<1> QED BY <1>1, <1>2, <1>3, <1>4 DEF schedule

LEMMA DoScheduleType ==
  ASSUME NEW t \in Thread, NEW s \in Status,
         NEW st \in [Thread -> Status], NEW q \in Seq(Thread),
         do_schedule(t, s, st, q)
  PROVE  CpuTypeOK'
<1> DEFINE freed == [u \in Thread |-> IF u = t THEN s
                                      ELSE IF u \in destruction_req THEN "freed"
                                      ELSE st[u]]
<1>1. freed \in [Thread -> Status]
  BY DEF Status
<1>2. schedule(freed, q)
  BY DEF do_schedule
<1>3. destruction_req' \in SUBSET Thread
  BY DEF do_schedule
<1> HIDE DEF freed
<1> QED BY <1>1, <1>2, <1>3, ScheduleType DEF CpuTypeOK

LEMMA BlockType ==
  ASSUME NEW t \in Thread, CpuTypeOK, thread_block(t)
  PROVE  CpuTypeOK'
<1>1. [status EXCEPT ![t] = "blocked"] \in [Thread -> Status]
  BY DEF CpuTypeOK, Status
<1> QED BY <1>1, ScheduleType DEF thread_block, CpuTypeOK

LEMMA UnblockType ==
  ASSUME NEW t \in Thread, CpuTypeOK, thread_unblock(t)
  PROVE  CpuTypeOK'
<1>1. ready_list' \in Seq(Thread)
  BY InsertReadyType DEF thread_unblock, CpuTypeOK
<1> QED BY <1>1 DEF thread_unblock, CpuTypeOK, Status

LEMMA YieldType ==
  ASSUME NEW t \in Thread, CpuTypeOK, thread_yield(t)
  PROVE  CpuTypeOK'
<1>1. "ready" \in Status
  BY DEF Status
<1>2. InsertReady(ready_list, t, priority) \in Seq(Thread)
  BY InsertReadyType DEF CpuTypeOK
<1> QED BY <1>1, <1>2, DoScheduleType DEF thread_yield, CpuTypeOK

-----------------------------------------------------------------------------
(* Inside thread_create, t points at the new thread. *)
ChildKnown ==
  \A t \in Thread : pc[t] \in {"unblock_child", "compare_child"} => child[t] \in Thread

(* The inductive invariant, for any set of labels around the scheduler's. *)
TypeInv(L) == ThreadTypeOK /\ pc \in [Thread -> L] /\ ChildKnown

LEMMA CpuPart == ThreadTypeOK => CpuTypeOK
BY DEF ThreadTypeOK, CpuTypeOK

LEMMA InitTypeInv == Init => TypeInv(ThreadLabel)
<1> SUFFICES ASSUME Init PROVE TypeInv(ThreadLabel)
  OBVIOUS
<1>1. ThreadTypeOK
  <2>1. CpuTypeOK
    BY ThreadsAssumption DEF Init, CpuTypeOK, Status
  <2>2. yield_on_return \in BOOLEAN
    BY DEF Init
  <2>3. 0 \in 0..MaxTicks /\ PRI_DEFAULT \in Priority
    BY ThreadsAssumption DEF Priority
  <2> QED BY <2>1, <2>2, <2>3 DEF Init, ThreadTypeOK, CpuTypeOK
<1>2. pc \in [Thread -> ThreadLabel] /\ ChildKnown
  BY DEF Init, ThreadLabel, ChildKnown
<1> QED BY <1>1, <1>2 DEF TypeInv

(* Every step of a thread keeps the invariant. *)
LEMMA ThreadStepTypeInv ==
  ASSUME NEW L, ThreadLabel \subseteq L, TypeInv(L), NEW t \in Thread, ThreadStep(t)
  PROVE  TypeInv(L)'
<1> USE DEF TypeInv, Goto, At, Runs, Calls, listVars, timeVars, cpuVars
<1>1. {"run", "unblock_child", "compare_child", "insert_block"} \subseteq L
  BY DEF ThreadLabel
<1>2. CpuTypeOK
  BY CpuPart
<1>3. ASSUME NEW c \in Thread, NEW p \in Priority, CreateThread(t, c, p)
      PROVE  TypeInv(L)'
  <2>1. ThreadTypeOK'
    BY <1>3 DEF CreateThread, ThreadTypeOK, Status
  <2>2. pc' \in [Thread -> L] /\ ChildKnown'
    BY <1>3, <1>1 DEF CreateThread, ThreadTypeOK, ChildKnown
  <2> QED BY <2>1, <2>2
<1>4. CASE CreateUnblock(t)
  <2>1. child[t] \in Thread
    BY <1>4 DEF CreateUnblock, ChildKnown
  <2>2. CpuTypeOK'
    BY <1>2, <1>4, <2>1, UnblockType DEF CreateUnblock
  <2>3. ThreadTypeOK'
    BY <1>4, <2>2 DEF CreateUnblock, ThreadTypeOK, CpuTypeOK
  <2>4. pc' \in [Thread -> L] /\ ChildKnown'
    BY <1>4, <1>1 DEF CreateUnblock, ChildKnown
  <2> QED BY <2>3, <2>4
<1>5. CASE CreatePreempt(t)
  <2>1. thread_yield(t) \/ UNCHANGED cpuVars
    BY <1>5 DEF CreatePreempt
  <2>2. CpuTypeOK'
    BY <1>2, <2>1, YieldType DEF CpuTypeOK
  <2>3. ThreadTypeOK'
    BY <1>5, <2>2 DEF CreatePreempt, ThreadTypeOK, CpuTypeOK
  <2>4. pc' \in [Thread -> L] /\ ChildKnown'
    BY <1>5, <1>1 DEF CreatePreempt, ThreadTypeOK, ChildKnown
  <2> QED BY <2>3, <2>4
<1>6. CASE YieldCPU(t)
  <2>1. CpuTypeOK'
    BY <1>2, <1>6, YieldType DEF YieldCPU
  <2>2. ops' \in [Thread -> Nat]
    BY <1>6 DEF YieldCPU, ThreadTypeOK
  <2>3. yield_on_return' \in BOOLEAN
    BY <1>6 DEF YieldCPU, ThreadTypeOK
  <2>4. ThreadTypeOK'
    BY <1>6, <2>1, <2>2, <2>3 DEF YieldCPU, ThreadTypeOK, CpuTypeOK
  <2> QED BY <1>6, <2>4 DEF YieldCPU, ChildKnown
<1>7. ASSUME NEW n \in SleepTicks, TimerSleep(t, n) PROVE TypeInv(L)'
  <2>1. ThreadTypeOK'
    BY <1>7, ThreadsAssumption DEF TimerSleep, ThreadTypeOK
  <2>2. pc' \in [Thread -> L] /\ ChildKnown'
    BY <1>7, <1>1 DEF TimerSleep, ChildKnown
  <2> QED BY <2>1, <2>2
<1>8. CASE insert_blockList(t)
  <2>1. block_list' \in Seq(Thread)
    BY <1>8, InsertSleeperType DEF insert_blockList, ThreadTypeOK
  <2>2. "blocked" \in Status
    BY DEF Status
  <2>3. CpuTypeOK'
    BY <1>2, <1>8, <2>2, DoScheduleType DEF insert_blockList, CpuTypeOK
  <2>4. ThreadTypeOK'
    BY <1>8, <2>1, <2>3 DEF insert_blockList, ThreadTypeOK, CpuTypeOK
  <2>5. pc' \in [Thread -> L] /\ ChildKnown'
    BY <1>8, <1>1 DEF insert_blockList, ChildKnown
  <2> QED BY <2>4, <2>5
<1>9. CASE ThreadExit(t)
  <2>1. "dying" \in Status
    BY DEF Status
  <2>2. CpuTypeOK'
    BY <1>2, <1>9, <2>1, DoScheduleType DEF ThreadExit, CpuTypeOK
  <2>3. ThreadTypeOK'
    BY <1>9, <2>2 DEF ThreadExit, ThreadTypeOK, CpuTypeOK
  <2> QED BY <1>9, <2>3 DEF ThreadExit, ChildKnown
<1> QED BY <1>3, <1>4, <1>5, <1>6, <1>7, <1>8, <1>9 DEF ThreadStep

(* So do the interrupts and the idle thread. *)
LEMMA InterruptTypeInv ==
  ASSUME NEW L, TypeInv(L), Interrupt
  PROVE  TypeInv(L)'
<1> USE DEF TypeInv
<1>1. CpuTypeOK
  BY CpuPart
<1>2. CASE TimerInterrupt
  <2>1. thread_ticks' \in 0..TIME_SLICE /\ yield_on_return' \in BOOLEAN
    BY <1>2, ThreadsAssumption DEF TimerInterrupt, thread_tick, ThreadTypeOK
  <2>2. ticks' \in 0..MaxTicks
    BY <1>2, ThreadsAssumption DEF TimerInterrupt, ThreadTypeOK
  <2> QED BY <1>2, <2>1, <2>2 DEF TimerInterrupt, ThreadTypeOK, ChildKnown, listVars
<1>3. CASE wake_up
  <2>1. Head(block_list) \in Thread /\ Tail(block_list) \in Seq(Thread)
    BY <1>3 DEF wake_up, Due, ThreadTypeOK
  <2>2. CpuTypeOK'
    BY <1>1, <1>3, <2>1, UnblockType DEF wake_up
  <2> QED BY <1>3, <2>1, <2>2 DEF wake_up, ThreadTypeOK, CpuTypeOK, ChildKnown
<1>4. CASE IntrReturn
  <2>1. CpuTypeOK'
    <3>1. CASE yield_on_return /\ current # Idle
      <4>1. current \in Thread
        BY <3>1 DEF ThreadTypeOK
      <4> QED BY <1>1, <1>4, <3>1, <4>1, YieldType DEF IntrReturn
    <3>2. CASE ~(yield_on_return /\ current # Idle)
      BY <1>1, <1>4, <3>2 DEF IntrReturn, CpuTypeOK, cpuVars
    <3> QED BY <3>1, <3>2
  <2> QED BY <1>4, <2>1 DEF IntrReturn, ThreadTypeOK, CpuTypeOK, ChildKnown
<1> QED BY <1>2, <1>3, <1>4 DEF Interrupt

LEMMA IdleTypeInv ==
  ASSUME NEW L, TypeInv(L), idle
  PROVE  TypeInv(L)'
<1>1. status \in [Thread -> Status] /\ ready_list \in Seq(Thread)
  BY DEF TypeInv, ThreadTypeOK
<1>2. schedule(status, ready_list)
  BY DEF idle
<1> QED BY <1>1, <1>2, ScheduleType DEF idle, TypeInv, ThreadTypeOK, ChildKnown

LEMMA StutterTypeInv ==
  ASSUME NEW L, TypeInv(L), UNCHANGED threadVars
  PROVE  TypeInv(L)'
BY DEF TypeInv, ThreadTypeOK, ChildKnown, threadVars, listVars, timeVars

(* The scheduler keeps the type of all it stores: the CPU is given to a    *)
(* thread or to the idle thread, never to NULL, and the lists hold threads. *)
THEOREM ThreadsTypeCorrect == Spec => []TypeOK
<1>1. Init => TypeInv(ThreadLabel)
  BY InitTypeInv
<1>2. TypeInv(ThreadLabel) /\ [Next]_threadVars => TypeInv(ThreadLabel)'
  BY ThreadStepTypeInv, InterruptTypeInv, IdleTypeInv, StutterTypeInv DEF Next
<1>3. TypeInv(ThreadLabel) => TypeOK
  BY DEF TypeInv, TypeOK
<1> QED BY <1>1, <1>2, <1>3, PTL DEF Spec

-----------------------------------------------------------------------------
(* One list at a time, and both lists in order.                            *)

(* Element by element, what a concatenation is. *)
LEMMA ConcatElements ==
  ASSUME NEW S, NEW f \in Seq(S), NEW g \in Seq(S)
  PROVE  /\ f \o g \in Seq(S)
         /\ Len(f \o g) = Len(f) + Len(g)
         /\ \A i \in 1..Len(f) + Len(g) :
              (f \o g)[i] = IF i <= Len(f) THEN f[i] ELSE g[i - Len(f)]
OBVIOUS

(* Element by element, what InsertAt returns. *)
LEMMA InsertAtElements ==
  ASSUME NEW S, NEW q \in Seq(S), NEW e \in S, NEW n \in 1..Len(q) + 1
  PROVE  /\ InsertAt(q, n, e) \in Seq(S)
         /\ Len(InsertAt(q, n, e)) = Len(q) + 1
         /\ \A i \in 1..Len(q) + 1 :
              InsertAt(q, n, e)[i] = IF i < n THEN q[i]
                                     ELSE IF i = n THEN e ELSE q[i - 1]
<1> DEFINE front == SubSeq(q, 1, n - 1)
<1> DEFINE back == SubSeq(q, n, Len(q))
<1> DEFINE head == front \o <<e>>
<1> DEFINE r == head \o back
<1>1. /\ front \in Seq(S) /\ Len(front) = n - 1
      /\ \A i \in 1..n - 1 : front[i] = q[i]
  OBVIOUS
<1>2. /\ back \in Seq(S) /\ Len(back) = Len(q) + 1 - n
      /\ \A i \in 1..Len(q) + 1 - n : back[i] = q[n + i - 1]
  OBVIOUS
<1>3. InsertAt(q, n, e) = r
  BY DEF InsertAt
<1> HIDE DEF front, back, r
<1>4. /\ head \in Seq(S) /\ Len(head) = n
      /\ \A i \in 1..n : head[i] = IF i = n THEN e ELSE front[i]
  BY <1>1
<1> HIDE DEF head
<1>5. n + (Len(q) + 1 - n) = Len(q) + 1
  OBVIOUS
<1>6. /\ r \in Seq(S) /\ Len(r) = Len(q) + 1
      /\ \A i \in 1..Len(q) + 1 : r[i] = IF i <= n THEN head[i] ELSE back[i - n]
  <2> USE DEF r
  <2> QED BY <1>2, <1>4, <1>5, ConcatElements
<1>7. ASSUME NEW i \in 1..Len(q) + 1
      PROVE  r[i] = IF i < n THEN q[i] ELSE IF i = n THEN e ELSE q[i - 1]
  <2>1. CASE i < n
    <3>1. i \in 1..n /\ i \in 1..n - 1
      BY <2>1
    <3> QED BY <2>1, <3>1, <1>1, <1>4, <1>6
  <2>2. CASE i = n
    <3>1. i \in 1..n /\ ~(i < n) /\ i <= n
      BY <2>2
    <3> QED BY <2>2, <3>1, <1>4, <1>6
  <2>3. CASE i > n
    <3>1. i - n \in 1..Len(q) + 1 - n /\ n + (i - n) - 1 = i - 1
      BY <2>3
    <3>2. back[i - n] = q[i - 1]
      BY <3>1, <1>2
    <3>3. ~(i <= n) /\ ~(i < n) /\ i # n
      BY <2>3
    <3> QED BY <3>2, <3>3, <1>6
  <2> QED BY <2>1, <2>2, <2>3
<1> QED BY <1>3, <1>6, <1>7

(* The thread is added, and a list without repetitions stays one. *)
LEMMA InsertAtRange ==
  ASSUME NEW S, NEW q \in Seq(S), NEW e \in S, NEW n \in 1..Len(q) + 1
  PROVE  /\ Range(InsertAt(q, n, e)) = Range(q) \cup {e}
         /\ IsInjective(q) /\ e \notin Range(q) => IsInjective(InsertAt(q, n, e))
<1> DEFINE r == InsertAt(q, n, e)
<1>1. /\ r \in Seq(S) /\ Len(r) = Len(q) + 1
      /\ \A i \in 1..Len(q) + 1 :
           r[i] = IF i < n THEN q[i] ELSE IF i = n THEN e ELSE q[i - 1]
  BY InsertAtElements
<1> HIDE DEF r
<1>2. DOMAIN r = 1..Len(q) + 1 /\ DOMAIN q = 1..Len(q)
  BY <1>1
<1>3. Range(r) = Range(q) \cup {e}
  <2>1. ASSUME NEW i \in 1..Len(q) + 1 PROVE r[i] \in Range(q) \cup {e}
    <3>1. CASE i < n
      <4>1. i \in 1..Len(q) /\ r[i] = q[i]
        BY <3>1, <1>1
      <4> QED BY <4>1, <1>2 DEF Range
    <3>2. CASE i = n
      BY <3>2, <1>1
    <3>3. CASE i > n
      <4>1. i - 1 \in 1..Len(q) /\ r[i] = q[i - 1]
        BY <3>3, <1>1
      <4> QED BY <4>1, <1>2 DEF Range
    <3> QED BY <3>1, <3>2, <3>3
  <2>2. e \in Range(r)
    <3>1. r[n] = e
      BY <1>1
    <3> QED BY <3>1, <1>2 DEF Range
  <2>3. ASSUME NEW i \in 1..Len(q) PROVE q[i] \in Range(r)
    <3>1. CASE i < n
      <4>1. r[i] = q[i] /\ i \in 1..Len(q) + 1
        BY <3>1, <1>1
      <4> QED BY <4>1, <1>2 DEF Range
    <3>2. CASE i >= n
      <4>1. r[i + 1] = q[i] /\ i + 1 \in 1..Len(q) + 1
        BY <3>2, <1>1
      <4> QED BY <4>1, <1>2 DEF Range
    <3> QED BY <3>1, <3>2
  <2> QED BY <2>1, <2>2, <2>3, <1>2 DEF Range
<1>4. ASSUME IsInjective(q), e \notin Range(q) PROVE IsInjective(r)
  <2>1. \A i \in 1..Len(q) : q[i] # e
    BY <1>4, <1>2 DEF Range
  <2>2. \A i, j \in 1..Len(q) : q[i] = q[j] => i = j
    BY <1>4, <1>2 DEF IsInjective
  <2>3. ASSUME NEW i \in 1..Len(q) + 1, NEW j \in 1..Len(q) + 1, r[i] = r[j]
        PROVE  i = j
    <3>1. \A k \in 1..Len(q) + 1 : r[k] = e => k = n
      <4>1. ASSUME NEW k \in 1..Len(q) + 1, k # n PROVE r[k] # e
        <5>1. CASE k < n
          BY <5>1, <2>1, <1>1
        <5>2. CASE k > n
          <6>1. k - 1 \in 1..Len(q) /\ r[k] = q[k - 1]
            BY <5>2, <1>1
          <6> QED BY <6>1, <2>1
        <5> QED BY <4>1, <5>1, <5>2
      <4> QED BY <4>1
    <3>2. r[n] = e
      BY <1>1
    <3>3. CASE i = n \/ j = n
      BY <3>1, <3>2, <3>3, <2>3
    <3>4. CASE i # n /\ j # n
      <4> DEFINE at(k) == IF k < n THEN k ELSE k - 1
      <4>1. at(i) \in 1..Len(q) /\ at(j) \in 1..Len(q)
        BY <3>4
      <4>2. q[at(i)] = q[at(j)]
        BY <3>4, <2>3, <1>1
      <4>3. at(i) = at(j)
        BY <4>1, <4>2, <2>2
      <4> QED BY <4>3, <3>4
    <3> QED BY <3>3, <3>4
  <2> QED BY <2>3, <1>2 DEF IsInjective
<1> QED BY <1>3, <1>4 DEF r

-----------------------------------------------------------------------------
(* The two orders: sleepers by the tick they wake at, ready threads by     *)
(* descending priority.                                                    *)
Ascending(q, key) ==
  \A i, j \in 1..Len(q) : i < j => key[q[i]] <= key[q[j]]
Descending(q, key) ==
  \A i, j \in 1..Len(q) : i < j => key[q[i]] >= key[q[j]]

(* list_insert_ordered keeps the order of the key it compares by. *)
LEMMA InsertKeepsOrder ==
  ASSUME NEW S, NEW q \in Seq(S), NEW e \in S, NEW key \in [S -> Int], Ascending(q, key),
         NEW precedes, precedes = {i \in 1..Len(q) : key[e] < key[q[i]]}
  PROVE  Ascending(list_insert_ordered(q, e, precedes), key)
<1> DEFINE n == IF precedes = {} THEN Len(q) + 1 ELSE Min(precedes)
<1>1. n \in 1..Len(q) + 1
  BY InsertPosition
<1>2. \A i \in 1..Len(q) : key[q[i]] \in Int /\ key[e] \in Int
  OBVIOUS
<1>3. \A i \in 1..Len(q) : i < n => key[q[i]] <= key[e]
  <2>1. CASE precedes = {}
    BY <2>1, <1>2
  <2>2. CASE precedes # {}
    <3>1. \A m \in precedes : Min(precedes) <= m
      <4>1. precedes \in SUBSET Nat
        OBVIOUS
      <4> QED BY <4>1, <2>2, MinInSet
    <3>2. \A m \in precedes : n <= m
      BY <3>1, <2>2
    <3> HIDE DEF n
    <3>3. ASSUME NEW i \in 1..Len(q), i < n PROVE key[q[i]] <= key[e]
      <4>1. ~(n <= i)
        BY <3>3, <1>1
      <4>2. i \notin precedes
        BY <3>2, <4>1
      <4>3. ~(key[e] < key[q[i]])
        BY <4>2
      <4> QED BY <4>3, <1>2
    <3> QED BY <3>3
  <2> QED BY <2>1, <2>2
<1>4. \A i \in 1..Len(q) : n <= i => key[e] <= key[q[i]]
  <2>1. CASE precedes = {}
    BY <2>1
  <2>2. CASE precedes # {}
    <3>1. n \in precedes
      <4>1. precedes \in SUBSET Nat
        OBVIOUS
      <4>2. Min(precedes) \in precedes
        BY <4>1, <2>2, MinInSet
      <4> QED BY <4>2, <2>2
    <3>2. n \in 1..Len(q) /\ key[e] < key[q[n]]
      BY <3>1
    <3> HIDE DEF n
    <3>3. ASSUME NEW i \in 1..Len(q), n <= i PROVE key[e] <= key[q[i]]
      <4>1. key[q[n]] <= key[q[i]]
        BY <3>2, <3>3, <1>2 DEF Ascending
      <4> QED BY <4>1, <3>2, <1>2
    <3> QED BY <3>3
  <2> QED BY <2>1, <2>2
<1> HIDE DEF n
<1> DEFINE r == InsertAt(q, n, e)
<1>5. /\ r \in Seq(S) /\ Len(r) = Len(q) + 1
      /\ \A i \in 1..Len(q) + 1 :
           r[i] = IF i < n THEN q[i] ELSE IF i = n THEN e ELSE q[i - 1]
  BY <1>1, InsertAtElements
<1> HIDE DEF r
<1>6. ASSUME NEW i \in 1..Len(q) + 1, NEW j \in 1..Len(q) + 1, i < j
      PROVE  key[r[i]] <= key[r[j]]
  <2>1. CASE j < n
    <3>1. i \in 1..Len(q) /\ j \in 1..Len(q) /\ r[i] = q[i] /\ r[j] = q[j]
      BY <2>1, <1>1, <1>5, <1>6, SMTT(30)
    <3> QED BY <3>1, <1>6 DEF Ascending
  <2>2. CASE j = n
    <3>1. i \in 1..Len(q) /\ i < n /\ r[i] = q[i] /\ r[j] = e
      BY <2>2, <1>1, <1>5, <1>6
    <3> QED BY <3>1, <1>3
  <2>3. CASE i = n
    <3>1. j - 1 \in 1..Len(q) /\ n <= j - 1 /\ r[i] = e /\ r[j] = q[j - 1]
      BY <2>3, <1>1, <1>5, <1>6
    <3> QED BY <3>1, <1>4
  <2>4. CASE i < n /\ n < j
    <3>1. /\ i \in 1..Len(q) /\ i < n /\ r[i] = q[i]
          /\ j - 1 \in 1..Len(q) /\ n <= j - 1 /\ r[j] = q[j - 1]
      BY <2>4, <1>1, <1>5, <1>6
    <3>2. key[q[i]] <= key[e] /\ key[e] <= key[q[j - 1]]
      BY <3>1, <1>3, <1>4
    <3>3. key[q[i]] <= key[q[j - 1]]
      BY <3>1, <3>2, <1>2
    <3> QED BY <3>1, <3>3
  <2>5. CASE n < i
    <3>1. /\ i - 1 \in 1..Len(q) /\ r[i] = q[i - 1]
          /\ j - 1 \in 1..Len(q) /\ r[j] = q[j - 1] /\ i - 1 < j - 1
      BY <2>5, <1>1, <1>5, <1>6
    <3> QED BY <3>1 DEF Ascending
  <2> QED BY <2>1, <2>2, <2>3, <2>4, <2>5, <1>1, <1>6
<1> QED BY <1>5, <1>6 DEF Ascending, list_insert_ordered, n, r

(* list_insert_ordered adds its element and nothing else. *)
LEMMA InsertOrderedRange ==
  ASSUME NEW S, NEW q \in Seq(S), NEW e \in S, NEW precedes \in SUBSET (1..Len(q))
  PROVE  /\ Range(list_insert_ordered(q, e, precedes)) = Range(q) \cup {e}
         /\ IsInjective(q) /\ e \notin Range(q)
              => IsInjective(list_insert_ordered(q, e, precedes))
<1> DEFINE n == IF precedes = {} THEN Len(q) + 1 ELSE Min(precedes)
<1>1. n \in 1..Len(q) + 1
  BY InsertPosition
<1>2. list_insert_ordered(q, e, precedes) = InsertAt(q, n, e)
  BY DEF list_insert_ordered
<1> HIDE DEF n
<1> QED BY <1>1, <1>2, InsertAtRange

(* Taking one element away. *)
LEMMA RemoveAtRange ==
  ASSUME NEW S, NEW q \in Seq(S), NEW k \in 1..Len(q)
  PROVE  /\ Range(RemoveAt(q, k)) \subseteq Range(q)
         /\ Range(q) \subseteq Range(RemoveAt(q, k)) \cup {q[k]}
         /\ IsInjective(q) => IsInjective(RemoveAt(q, k)) /\ q[k] \notin Range(RemoveAt(q, k))
<1> DEFINE r == RemoveAt(q, k)
<1>1. /\ r \in Seq(S) /\ Len(r) = Len(q) - 1
      /\ \A i \in 1..Len(q) - 1 : r[i] = IF i < k THEN q[i] ELSE q[i + 1]
  <2> DEFINE front == SubSeq(q, 1, k - 1)
  <2> DEFINE back == SubSeq(q, k + 1, Len(q))
  <2>1. /\ front \in Seq(S) /\ Len(front) = k - 1
        /\ \A i \in 1..k - 1 : front[i] = q[i]
    OBVIOUS
  <2>2. /\ back \in Seq(S) /\ Len(back) = Len(q) - k
        /\ \A i \in 1..Len(q) - k : back[i] = q[k + i]
    OBVIOUS
  <2>3. r = front \o back
    BY DEF RemoveAt
  <2> HIDE DEF front, back, r
  <2>4. Len(front) + Len(back) = Len(q) - 1
    BY <2>1, <2>2
  <2>5. /\ r \in Seq(S) /\ Len(r) = Len(q) - 1
        /\ \A i \in 1..Len(q) - 1 :
             r[i] = IF i <= k - 1 THEN front[i] ELSE back[i - (k - 1)]
    <3>1. /\ r \in Seq(S) /\ Len(r) = Len(front) + Len(back)
          /\ \A i \in 1..Len(front) + Len(back) :
               r[i] = IF i <= Len(front) THEN front[i] ELSE back[i - Len(front)]
      BY <2>1, <2>2, <2>3, ConcatElements
    <3> QED BY <3>1, <2>1, <2>4
  <2>6. ASSUME NEW i \in 1..Len(q) - 1 PROVE r[i] = IF i < k THEN q[i] ELSE q[i + 1]
    <3>1. CASE i < k
      <4>1. i \in 1..k - 1 /\ i <= k - 1
        BY <3>1
      <4> QED BY <3>1, <4>1, <2>1, <2>5
    <3>2. CASE i >= k
      <4>1. i - (k - 1) \in 1..Len(q) - k /\ k + (i - (k - 1)) = i + 1
        BY <3>2
      <4>2. ~(i <= k - 1) /\ ~(i < k)
        BY <3>2
      <4>3. back[i - (k - 1)] = q[i + 1]
        BY <4>1, <2>2
      <4> QED BY <4>2, <4>3, <2>5
    <3> QED BY <3>1, <3>2
  <2> QED BY <2>5, <2>6
<1> HIDE DEF r
<1>2. DOMAIN r = 1..Len(q) - 1 /\ DOMAIN q = 1..Len(q)
  BY <1>1
<1>3. ASSUME NEW i \in 1..Len(q) - 1 PROVE r[i] \in Range(q)
  <2>1. \E j \in 1..Len(q) : r[i] = q[j]
    <3>1. CASE i < k
      <4>1. i \in 1..Len(q) /\ r[i] = q[i]
        BY <3>1, <1>1
      <4> QED BY <4>1
    <3>2. CASE i >= k
      <4>1. i + 1 \in 1..Len(q) /\ r[i] = q[i + 1]
        BY <3>2, <1>1
      <4> QED BY <4>1
    <3> QED BY <3>1, <3>2
  <2> QED BY <2>1, <1>2 DEF Range
<1>4. ASSUME NEW i \in 1..Len(q) PROVE q[i] \in Range(r) \cup {q[k]}
  <2>1. CASE i < k
    <3>1. i \in 1..Len(q) - 1 /\ r[i] = q[i]
      BY <2>1, <1>1
    <3> QED BY <3>1, <1>2 DEF Range
  <2>2. CASE i = k
    BY <2>2
  <2>3. CASE i > k
    <3>1. i - 1 \in 1..Len(q) - 1 /\ r[i - 1] = q[i]
      BY <2>3, <1>1
    <3> QED BY <3>1, <1>2 DEF Range
  <2> QED BY <2>1, <2>2, <2>3
<1>5. ASSUME IsInjective(q) PROVE IsInjective(r) /\ q[k] \notin Range(r)
  <2> DEFINE at(i) == IF i < k THEN i ELSE i + 1
  <2>1. ASSUME NEW i \in 1..Len(q) - 1
        PROVE  r[i] = q[at(i)] /\ at(i) \in 1..Len(q) /\ at(i) # k
    <3>1. at(i) \in 1..Len(q) /\ at(i) # k
      OBVIOUS
    <3>2. r[i] = IF i < k THEN q[i] ELSE q[i + 1]
      BY <1>1
    <3> QED BY <3>1, <3>2
  <2>2. \A i, j \in 1..Len(q) : q[i] = q[j] => i = j
    BY <1>5, <1>2 DEF IsInjective
  <2>3. \A i, j \in 1..Len(q) - 1 : at(i) = at(j) => i = j
    OBVIOUS
  <2> HIDE DEF at
  <2>4. \A i, j \in 1..Len(q) - 1 : r[i] = r[j] => i = j
    BY <2>1, <2>2, <2>3
  <2>5. \A i \in 1..Len(q) - 1 : r[i] # q[k]
    BY <2>1, <2>2
  <2> QED BY <2>4, <2>5, <1>2 DEF IsInjective, Range
<1> QED BY <1>2, <1>3, <1>4, <1>5 DEF Range, r

(* Taking the first element away. *)
LEMMA TailResult ==
  ASSUME NEW S, NEW q \in Seq(S), q # <<>>
  PROVE  /\ Head(q) \in S /\ Tail(q) \in Seq(S)
         /\ Range(q) = Range(Tail(q)) \cup {Head(q)}
         /\ IsInjective(q) => IsInjective(Tail(q)) /\ Head(q) \notin Range(Tail(q))
<1>1. /\ Head(q) = q[1] /\ Head(q) \in S
      /\ Tail(q) \in Seq(S) /\ Len(Tail(q)) = Len(q) - 1 /\ Len(q) >= 1
      /\ \A i \in 1..Len(q) - 1 : Tail(q)[i] = q[i + 1]
  OBVIOUS
<1> DEFINE r == Tail(q)
<1> HIDE DEF r
<1>2. /\ DOMAIN q = 1..Len(q) /\ DOMAIN r = 1..Len(q) - 1
      /\ \A i \in 1..Len(q) - 1 : r[i] = q[i + 1]
  BY <1>1 DEF r
<1>3. Range(q) = Range(r) \cup {q[1]}
  <2>1. ASSUME NEW i \in 1..Len(q) PROVE q[i] \in Range(r) \cup {q[1]}
    <3>1. CASE i = 1
      BY <3>1
    <3>2. CASE i # 1
      <4>1. i - 1 \in 1..Len(q) - 1 /\ r[i - 1] = q[i]
        BY <3>2, <1>2
      <4> QED BY <4>1, <1>2 DEF Range
    <3> QED BY <3>1, <3>2
  <2>2. ASSUME NEW i \in 1..Len(q) - 1 PROVE r[i] \in Range(q)
    <3>1. i + 1 \in 1..Len(q) /\ r[i] = q[i + 1]
      BY <1>1, <1>2
    <3> QED BY <3>1, <1>2 DEF Range
  <2>3. 1 \in DOMAIN q
    BY <1>1, <1>2
  <2>4. q[1] \in Range(q)
    BY <2>3 DEF Range
  <2>5. \A x \in Range(q) : x \in Range(r) \cup {q[1]}
    BY <2>1, <1>2 DEF Range
  <2>6. \A x \in Range(r) : x \in Range(q)
    BY <2>2, <1>2 DEF Range
  <2> QED BY <2>4, <2>5, <2>6
<1>4. ASSUME IsInjective(q) PROVE IsInjective(r) /\ q[1] \notin Range(r)
  <2>1. \A i, j \in 1..Len(q) : q[i] = q[j] => i = j
    BY <1>4, <1>2 DEF IsInjective
  <2>2. ASSUME NEW i \in 1..Len(q) - 1, NEW j \in 1..Len(q) - 1, r[i] = r[j]
        PROVE  i = j
    <3>1. i + 1 \in 1..Len(q) /\ j + 1 \in 1..Len(q) /\ q[i + 1] = q[j + 1]
      BY <2>2, <1>1, <1>2
    <3>2. i + 1 = j + 1
      BY <3>1, <2>1
    <3> QED BY <3>2
  <2>3. ASSUME NEW i \in 1..Len(q) - 1 PROVE r[i] # q[1]
    <3>1. i + 1 \in 1..Len(q) /\ 1 \in 1..Len(q) /\ r[i] = q[i + 1] /\ i + 1 # 1
      BY <1>1, <1>2
    <3> QED BY <3>1, <2>1
  <2> QED BY <2>2, <2>3, <1>2 DEF IsInjective, Range
<1> QED BY <1>1, <1>3, <1>4 DEF r

(* The head of an ordered list comes first, and the rest is still in order. *)
LEMMA AscendingTail ==
  ASSUME NEW S, NEW q \in Seq(S), q # <<>>, NEW key \in [S -> Int], Ascending(q, key)
  PROVE  /\ Ascending(Tail(q), key)
         /\ \A x \in Range(q) : key[Head(q)] <= key[x]
<1>1. /\ Head(q) = q[1] /\ Head(q) \in S /\ Len(q) >= 1
      /\ Tail(q) \in Seq(S) /\ Len(Tail(q)) = Len(q) - 1
      /\ \A i \in 1..Len(q) - 1 : Tail(q)[i] = q[i + 1]
  OBVIOUS
<1>2. ASSUME NEW i \in 1..Len(q) - 1, NEW j \in 1..Len(q) - 1, i < j
      PROVE  key[Tail(q)[i]] <= key[Tail(q)[j]]
  <2>1. /\ i + 1 \in 1..Len(q) /\ j + 1 \in 1..Len(q) /\ i + 1 < j + 1
        /\ Tail(q)[i] = q[i + 1] /\ Tail(q)[j] = q[j + 1]
    BY <1>1, <1>2
  <2> QED BY <2>1 DEF Ascending
<1>3. ASSUME NEW i \in 1..Len(q) PROVE key[q[1]] <= key[q[i]]
  <2>1. CASE i = 1
    BY <2>1
  <2>2. CASE i # 1
    BY <2>2 DEF Ascending
  <2> QED BY <2>1, <2>2
<1>4. DOMAIN q = 1..Len(q)
  OBVIOUS
<1> QED BY <1>1, <1>2, <1>3, <1>4 DEF Ascending, Range

-----------------------------------------------------------------------------
(* The inductive invariant: its part about the CPU and the ready list, and *)
(* its part about the sleepers and the threads being created.              *)
Placed(st, q) ==
  /\ IsInjective(q)
  /\ \A t \in Thread : st[t] = "ready" <=> t \in Range(q)

ReadyOrdered == Descending(ready_list, priority)

CpuInv ==
  /\ Placed(status, ready_list)
  /\ \A t \in Thread : status[t] = "running" <=> current = t
  /\ \A t \in destruction_req : status[t] = "dying"

(* No two threads are creating the same one. *)
UniqueCreator ==
  \A t, u \in Thread :
    pc[t] = "unblock_child" /\ pc[u] = "unblock_child" /\ child[t] = child[u] => t = u

(* A blocked thread is asleep, being created, or one of W, which are       *)
(* blocked for reasons the scheduler does not know.                        *)
BlockedInv(W) ==
  /\ IsInjective(block_list)
  /\ Ascending(block_list, endTick)
  /\ \A t \in Thread : status[t] = "blocked"
       <=> t \in Range(block_list) \/ BeingCreated(t) \/ t \in W
  /\ \A t \in Thread : BeingCreated(t) => t \notin Range(block_list)
  /\ \A t \in Thread : t \in W => t \notin Range(block_list) /\ ~BeingCreated(t)
  /\ UniqueCreator

SchedInv(L, W) == TypeInv(L) /\ CpuInv /\ BlockedInv(W)

(* Of the scheduler alone. *)
AloneInv == SchedInv(ThreadLabel, {}) /\ ReadyOrdered

LEMMA AloneExclusive == AloneInv => ElemExclusive
BY DEF AloneInv, SchedInv, CpuInv, BlockedInv, Placed, ElemExclusive

(* The ready list after an insertion. *)
LEMMA InsertReadyRange ==
  ASSUME NEW q \in Seq(Thread), NEW t \in Thread, NEW p
  PROVE  /\ Range(InsertReady(q, t, p)) = Range(q) \cup {t}
         /\ IsInjective(q) /\ t \notin Range(q) => IsInjective(InsertReady(q, t, p))
<1> DEFINE precedes == {i \in DOMAIN q : p[t] > p[q[i]]}
<1>1. precedes \in SUBSET (1..Len(q)) /\ InsertReady(q, t, p) = list_insert_ordered(q, t, precedes)
  BY DEF InsertReady
<1> HIDE DEF precedes
<1> QED BY <1>1, InsertOrderedRange

LEMMA InsertReadyResult ==
  ASSUME NEW q \in Seq(Thread), NEW t \in Thread, NEW p \in [Thread -> Priority]
  PROVE  /\ InsertReady(q, t, p) \in Seq(Thread)
         /\ Range(InsertReady(q, t, p)) = Range(q) \cup {t}
         /\ IsInjective(q) /\ t \notin Range(q) => IsInjective(InsertReady(q, t, p))
         /\ Descending(q, p) => Descending(InsertReady(q, t, p), p)
<1> DEFINE precedes == {i \in DOMAIN q : p[t] > p[q[i]]}
<1> DEFINE key == [u \in Thread |-> 0 - p[u]]
<1> DEFINE r == list_insert_ordered(q, t, precedes)
<1>1. \A u \in Thread : p[u] \in Int
  BY ThreadsAssumption DEF Priority
<1>2. DOMAIN q = 1..Len(q) /\ \A i \in 1..Len(q) : q[i] \in Thread
  OBVIOUS
<1>3. precedes \in SUBSET (1..Len(q))
  BY <1>2
<1>4. r \in Seq(Thread)
  BY <1>3, InsertOrderedType
<1>5. ASSUME Descending(q, p) PROVE Descending(r, p)
  <2>1. key \in [Thread -> Int] /\ \A u \in Thread : key[u] = 0 - p[u]
    BY <1>1
  <2>2. precedes = {i \in 1..Len(q) : key[t] < key[q[i]]}
    BY <1>1, <1>2, <2>1
  <2> HIDE DEF key, precedes
  <2>3. Ascending(q, key)
    <3>1. ASSUME NEW i \in 1..Len(q), NEW j \in 1..Len(q), i < j
          PROVE  key[q[i]] <= key[q[j]]
      <4>1. p[q[i]] >= p[q[j]]
        BY <1>5, <3>1 DEF Descending
      <4> QED BY <4>1, <1>1, <1>2, <2>1
    <3> QED BY <3>1 DEF Ascending
  <2>4. Ascending(r, key)
    BY <2>1, <2>2, <2>3, InsertKeepsOrder
  <2> HIDE DEF r
  <2>5. ASSUME NEW i \in 1..Len(r), NEW j \in 1..Len(r), i < j
        PROVE  p[r[i]] >= p[r[j]]
    <3>1. key[r[i]] <= key[r[j]]
      BY <2>4, <2>5 DEF Ascending
    <3>2. r[i] \in Thread /\ r[j] \in Thread
      BY <1>4
    <3> QED BY <3>1, <3>2, <1>1, <2>1
  <2> QED BY <2>5 DEF Descending
<1>6. InsertReady(q, t, p) = r
  BY DEF InsertReady
<1> HIDE DEF r
<1> QED BY <1>4, <1>5, <1>6, InsertReadyRange

(* The list of sleepers after an insertion. *)
LEMMA InsertSleeperResult ==
  ASSUME NEW q \in Seq(Thread), NEW t \in Thread, endTick \in [Thread -> Int]
  PROVE  /\ Range(InsertSleeper(q, t)) = Range(q) \cup {t}
         /\ IsInjective(q) /\ t \notin Range(q) => IsInjective(InsertSleeper(q, t))
         /\ Ascending(q, endTick) => Ascending(InsertSleeper(q, t), endTick)
<1> DEFINE precedes == {i \in DOMAIN q : endTick[t] < endTick[q[i]]}
<1>1. precedes \in SUBSET (1..Len(q))
      /\ precedes = {i \in 1..Len(q) : endTick[t] < endTick[q[i]]}
  OBVIOUS
<1>2. InsertSleeper(q, t) = list_insert_ordered(q, t, precedes)
  BY DEF InsertSleeper
<1> HIDE DEF precedes
<1> QED BY <1>1, <1>2, InsertOrderedRange, InsertKeepsOrder

(* The head of the ready list has the highest priority. *)
LEMMA DescendingTail ==
  ASSUME NEW q \in Seq(Thread), q # <<>>, NEW p \in [Thread -> Priority], Descending(q, p)
  PROVE  /\ Descending(Tail(q), p)
         /\ \A x \in Range(q) : p[Head(q)] >= p[x]
<1> DEFINE key == [u \in Thread |-> 0 - p[u]]
<1>1. \A u \in Thread : p[u] \in Int
  BY ThreadsAssumption DEF Priority
<1>2. key \in [Thread -> Int] /\ \A u \in Thread : key[u] = 0 - p[u]
  BY <1>1
<1>3. \A i \in 1..Len(q) : q[i] \in Thread
  OBVIOUS
<1> HIDE DEF key
<1>4. Ascending(q, key)
  <2>1. ASSUME NEW i \in 1..Len(q), NEW j \in 1..Len(q), i < j
        PROVE  key[q[i]] <= key[q[j]]
    <3>1. p[q[i]] >= p[q[j]]
      BY <2>1 DEF Descending
    <3> QED BY <3>1, <1>1, <1>2, <1>3, SMTT(30)
  <2> QED BY <2>1 DEF Ascending
<1>5. Ascending(Tail(q), key) /\ \A x \in Range(q) : key[Head(q)] <= key[x]
  BY <1>2, <1>4, AscendingTail
<1>6. Tail(q) \in Seq(Thread) /\ Head(q) \in Thread
  OBVIOUS
<1> DEFINE r == Tail(q)
<1>7. ASSUME NEW i \in 1..Len(r), NEW j \in 1..Len(r), i < j
      PROVE  p[r[i]] >= p[r[j]]
  <2>1. key[r[i]] <= key[r[j]]
    BY <1>5, <1>7 DEF Ascending
  <2>2. r[i] \in Thread /\ r[j] \in Thread
    BY <1>6
  <2> HIDE DEF r
  <2> QED BY <2>1, <2>2, <1>1, <1>2, SMTT(30)
<1>8. ASSUME NEW x \in Range(q) PROVE p[Head(q)] >= p[x]
  <2>1. x \in Thread
    BY <1>3, <1>8 DEF Range
  <2> QED BY <2>1, <1>1, <1>2, <1>5, <1>6
<1> QED BY <1>7, <1>8 DEF Descending

HighestRuns ==
  \A t \in Thread : status'[t] = "ready" =>
    current' # Idle /\ priority[current'] >= priority[t]

(* What schedule() leaves: the CPU and the ready list agree, and if the    *)
(* list was in order, nobody left in it outranks the one who runs.         *)
Dispatched(st, q) ==
  /\ Placed(status', ready_list')
  /\ \A t \in Thread : status'[t] = "running" <=> current' = t
  /\ \A t \in Thread :
       status'[t] = st[t] \/ (st[t] = "ready" /\ status'[t] = "running")
  /\ Descending(q, priority) => Descending(ready_list', priority) /\ HighestRuns

LEMMA ScheduleDispatches ==
  ASSUME NEW st \in [Thread -> Status], NEW q \in Seq(Thread), Placed(st, q),
         priority \in [Thread -> Priority],
         \A t \in Thread : st[t] # "running", schedule(st, q)
  PROVE  Dispatched(st, q)
<1>1. /\ current' = next_thread_to_run(q)
      /\ ready_list' = IF q = <<>> THEN q ELSE Tail(q)
      /\ \A t \in Thread : status'[t] = IF t = current' THEN "running" ELSE st[t]
  BY DEF schedule
<1>2. CASE q = <<>>
  <2>1. current' = Idle /\ ready_list' = q
    BY <1>1, <1>2 DEF next_thread_to_run
  <2>2. \A t \in Thread : status'[t] = st[t] /\ t # Idle
    BY <1>1, <2>1, ThreadsAssumption
  <2>3. Range(q) = {}
    BY <1>2 DEF Range
  <2>4. Placed(status', ready_list')
    BY <2>1, <2>2 DEF Placed
  <2>5. \A t \in Thread : status'[t] # "ready"
    BY <2>2, <2>3 DEF Placed
  <2>6. (Descending(q, priority) => Descending(ready_list', priority)) /\ HighestRuns
    BY <2>1, <2>5 DEF HighestRuns
  <2>7. \A t \in Thread : status'[t] = "running" <=> current' = t
    BY <2>1, <2>2
  <2> QED BY <2>2, <2>4, <2>5, <2>6, <2>7 DEF Dispatched
<1>3. CASE q # <<>>
  <2>1. /\ current' = Head(q) /\ ready_list' = Tail(q) /\ Head(q) \in Thread
        /\ Range(q) = Range(Tail(q)) \cup {Head(q)}
        /\ IsInjective(Tail(q)) /\ Head(q) \notin Range(Tail(q))
    BY <1>1, <1>3, TailResult DEF next_thread_to_run, Placed
  <2>2. Descending(q, priority) =>
          /\ Descending(Tail(q), priority)
          /\ \A x \in Range(q) : priority[Head(q)] >= priority[x]
    BY <1>3, DescendingTail
  <2>3. st[Head(q)] = "ready"
    BY <2>1 DEF Placed
  <2>4. ASSUME NEW t \in Thread PROVE status'[t] = "ready" <=> t \in Range(Tail(q))
    <3>1. CASE t = Head(q)
      BY <3>1, <2>1, <1>1
    <3>2. CASE t # Head(q)
      BY <3>2, <2>1, <1>1 DEF Placed
    <3> QED BY <3>1, <3>2
  <2>5. Placed(status', ready_list')
    BY <2>1, <2>4 DEF Placed
  <2>6. \A t \in Thread : status'[t] = "running" <=> current' = t
    BY <1>1
  <2>7. \A t \in Thread :
          status'[t] = st[t] \/ (st[t] = "ready" /\ status'[t] = "running")
    BY <1>1, <2>1, <2>3
  <2>8. ASSUME Descending(q, priority), NEW t \in Thread, status'[t] = "ready"
        PROVE  current' # Idle /\ priority[current'] >= priority[t]
    <3>1. t \in Range(q)
      BY <2>1, <2>4, <2>8
    <3> QED BY <3>1, <2>1, <2>2, <2>8, ThreadsAssumption
  <2>9. Descending(q, priority) => Descending(ready_list', priority)
    BY <2>1, <2>2
  <2> QED BY <2>5, <2>6, <2>7, <2>8, <2>9 DEF Dispatched, HighestRuns
<1> QED BY <1>2, <1>3

(* do_schedule() by the running thread t, which takes the status s and has *)
(* put itself into the ready list q when it yields; st is what the other   *)
(* statuses have become by then.                                           *)
LEMMA DoScheduleKeeps ==
  ASSUME CpuTypeOK, priority \in [Thread -> Priority],
         NEW t \in Thread, NEW s \in {"ready", "blocked", "dying"},
         NEW st \in [Thread -> Status], NEW q \in Seq(Thread), IsInjective(q),
         \A u \in Thread : u # t => (st[u] = "ready" <=> u \in Range(q)),
         t \in Range(q) <=> s = "ready",
         \A u \in Thread : u # t => st[u] # "running",
         \A u \in destruction_req : st[u] = "dying" /\ u # t,
         do_schedule(t, s, st, q)
  PROVE  /\ CpuInv'
         /\ \A u \in Thread : status'[u] = "blocked"
              <=> IF u = t THEN s = "blocked" ELSE st[u] = "blocked"
         /\ Descending(q, priority) => Descending(ready_list', priority) /\ HighestRuns
<1> DEFINE left == [u \in Thread |-> IF u = t THEN s
                                     ELSE IF u \in destruction_req THEN "freed"
                                     ELSE st[u]]
<1>1. schedule(left, q)
  BY DEF do_schedule
<1>2. destruction_req \in SUBSET Thread
  BY DEF CpuTypeOK
<1>3. left \in [Thread -> Status]
  BY DEF Status
<1>4. \A u \in Thread : left[u] = IF u = t THEN s
                                 ELSE IF u \in destruction_req THEN "freed"
                                 ELSE st[u]
  OBVIOUS
<1> HIDE DEF left
<1>5. ASSUME NEW u \in Thread PROVE left[u] = "ready" <=> u \in Range(q)
  <2>1. CASE u = t
    BY <2>1, <1>4
  <2>2. CASE u # t
    BY <2>2, <1>4
  <2> QED BY <2>1, <2>2
<1>6. Placed(left, q)
  BY <1>5 DEF Placed
<1>7. \A u \in Thread : left[u] # "running"
  BY <1>4
<1>8. Dispatched(left, q)
  BY <1>1, <1>3, <1>6, <1>7, ScheduleDispatches
<1>9. \A u \in Thread :
        status'[u] = left[u] \/ (left[u] = "ready" /\ status'[u] = "running")
  BY <1>8 DEF Dispatched
<1>10. \A u \in destruction_req' : status'[u] = "dying"
  <2>1. destruction_req' = IF s = "dying" /\ t # Main THEN {t} ELSE {}
    BY DEF do_schedule
  <2> QED BY <2>1, <1>4, <1>9
<1>11. ASSUME NEW u \in Thread
       PROVE  status'[u] = "blocked"
                <=> IF u = t THEN s = "blocked" ELSE st[u] = "blocked"
  <2>1. status'[u] = "blocked" <=> left[u] = "blocked"
    BY <1>9
  <2> QED BY <2>1, <1>4
<1>12. CpuInv'
  BY <1>8, <1>10 DEF Dispatched, CpuInv, Placed
<1> QED BY <1>8, <1>11, <1>12 DEF Dispatched

(* The running thread t calls do_schedule() with nothing changed. *)
LEMMA LeaveKeeps ==
  ASSUME CpuTypeOK, priority \in [Thread -> Priority], CpuInv,
         NEW t \in Thread, status[t] = "running", NEW s \in {"blocked", "dying"},
         do_schedule(t, s, status, ready_list)
  PROVE  /\ CpuInv'
         /\ \A u \in Thread : status'[u] = "blocked"
              <=> status[u] = "blocked" \/ (u = t /\ s = "blocked")
         /\ ReadyOrdered => Descending(ready_list', priority) /\ HighestRuns
<1>1. status \in [Thread -> Status] /\ ready_list \in Seq(Thread)
  BY DEF CpuTypeOK
<1>2. /\ IsInjective(ready_list)
      /\ \A u \in Thread : status[u] = "ready" <=> u \in Range(ready_list)
      /\ t \notin Range(ready_list)
      /\ \A u \in Thread : u # t => status[u] # "running"
      /\ \A u \in destruction_req : status[u] = "dying" /\ u # t
  BY DEF CpuInv, Placed
<1>3. \A u \in Thread : status'[u] = "blocked"
        <=> IF u = t THEN s = "blocked" ELSE status[u] = "blocked"
  BY <1>1, <1>2, DoScheduleKeeps
<1>4. CpuInv' /\ (ReadyOrdered => Descending(ready_list', priority) /\ HighestRuns)
  BY <1>1, <1>2, DoScheduleKeeps DEF ReadyOrdered
<1> QED BY <1>3, <1>4

(* thread_yield() by the running thread t. *)
LEMMA YieldKeeps ==
  ASSUME CpuTypeOK, priority \in [Thread -> Priority], CpuInv,
         NEW t \in Thread, status[t] = "running", thread_yield(t)
  PROVE  /\ CpuInv'
         /\ \A u \in Thread : status'[u] = "blocked" <=> status[u] = "blocked"
         /\ ReadyOrdered => Descending(ready_list', priority) /\ HighestRuns
<1> DEFINE q == InsertReady(ready_list, t, priority)
<1>1. status \in [Thread -> Status] /\ ready_list \in Seq(Thread)
  BY DEF CpuTypeOK
<1>2. /\ IsInjective(ready_list)
      /\ \A u \in Thread : status[u] = "ready" <=> u \in Range(ready_list)
      /\ t \notin Range(ready_list)
      /\ \A u \in Thread : u # t => status[u] # "running"
      /\ \A u \in destruction_req : status[u] = "dying" /\ u # t
  BY DEF CpuInv, Placed
<1>3. /\ q \in Seq(Thread) /\ IsInjective(q)
      /\ ReadyOrdered => Descending(q, priority)
      /\ Range(q) = Range(ready_list) \cup {t}
  BY <1>1, <1>2, InsertReadyResult DEF ReadyOrdered
<1>4. do_schedule(t, "ready", status, q)
  BY DEF thread_yield
<1> HIDE DEF q
<1>5. \A u \in Thread : status'[u] = "blocked"
        <=> IF u = t THEN "ready" = "blocked" ELSE status[u] = "blocked"
  BY <1>1, <1>2, <1>3, <1>4, DoScheduleKeeps
<1>6. CpuInv' /\ (Descending(q, priority) => Descending(ready_list', priority) /\ HighestRuns)
  BY <1>1, <1>2, <1>3, <1>4, DoScheduleKeeps
<1> QED BY <1>3, <1>5, <1>6

(* thread_unblock() of the blocked thread t. *)
LEMMA UnblockKeeps ==
  ASSUME CpuTypeOK, priority \in [Thread -> Priority], CpuInv,
         NEW t \in Thread, status[t] = "blocked", thread_unblock(t)
  PROVE  /\ CpuInv'
         /\ \A u \in Thread : status'[u] = "blocked" <=> status[u] = "blocked" /\ u # t
         /\ ReadyOrdered => Descending(ready_list', priority)
<1>1. /\ ready_list \in Seq(Thread) /\ status \in [Thread -> Status]
      /\ destruction_req \in SUBSET Thread
  BY DEF CpuTypeOK
<1>2. t \notin Range(ready_list) /\ IsInjective(ready_list)
  BY DEF CpuInv, Placed
<1>3. /\ IsInjective(ready_list') /\ Range(ready_list') = Range(ready_list) \cup {t}
      /\ ReadyOrdered => Descending(ready_list', priority)
  BY <1>1, <1>2, InsertReadyResult DEF thread_unblock, ReadyOrdered
<1>4. /\ \A u \in Thread : status'[u] = IF u = t THEN "ready" ELSE status[u]
      /\ current' = current /\ destruction_req' = destruction_req
  BY <1>1 DEF thread_unblock
<1>5. Placed(status', ready_list')
  <2>1. ASSUME NEW u \in Thread PROVE status'[u] = "ready" <=> u \in Range(ready_list')
    <3>1. status[u] = "ready" <=> u \in Range(ready_list)
      BY DEF CpuInv, Placed
    <3> QED BY <3>1, <1>3, <1>4
  <2> QED BY <2>1, <1>3 DEF Placed
<1>6. \A u \in Thread : status'[u] = "running" <=> current' = u
  BY <1>4 DEF CpuInv
<1>7. \A u \in destruction_req' : status'[u] = "dying"
  BY <1>1, <1>4 DEF CpuInv
<1>8. CpuInv'
  BY <1>5, <1>6, <1>7 DEF CpuInv
<1> QED BY <1>3, <1>4, <1>8

(* A step that leaves the sleepers, the creators and the blocked alone. *)
LEMMA BlockedFrame ==
  ASSUME NEW W, block_list \in Seq(Thread), BlockedInv(W), block_list' = block_list,
         \A t \in Range(block_list) : endTick'[t] = endTick[t],
         \A t \in Thread : pc'[t] = "unblock_child" <=> pc[t] = "unblock_child",
         \A t \in Thread : pc[t] = "unblock_child" => child'[t] = child[t],
         \A t \in Thread : status'[t] = "blocked" <=> status[t] = "blocked"
  PROVE  BlockedInv(W)'
<1>1. \A c \in Thread : BeingCreated(c)' <=> BeingCreated(c)
  BY DEF BeingCreated
<1>2. UniqueCreator'
  BY DEF BlockedInv, UniqueCreator
<1>3. Ascending(block_list', endTick')
  <2>1. \A i \in 1..Len(block_list) : block_list[i] \in Range(block_list)
    BY DEF Range
  <2> QED BY <2>1 DEF BlockedInv, Ascending
<1> QED BY <1>1, <1>2, <1>3 DEF BlockedInv

(* Only a live thread is running, and it is in no list. *)
LEMMA RunningThread ==
  ASSUME NEW W, CpuInv, BlockedInv(W), NEW t \in Thread, current = t
  PROVE  /\ status[t] = "running" /\ t \notin Range(ready_list)
         /\ t \notin Range(block_list) /\ ~BeingCreated(t) /\ t \notin W
BY DEF CpuInv, BlockedInv, Placed

LEMMA InitAloneInv == Init => AloneInv
<1> SUFFICES ASSUME Init PROVE AloneInv
  OBVIOUS
<1>1. TypeInv(ThreadLabel)
  BY InitTypeInv
<1>2. Range(ready_list) = {} /\ Range(block_list) = {}
  BY DEF Init, Range
<1>3. IsInjective(ready_list) /\ IsInjective(block_list)
  BY DEF Init, IsInjective
<1>4. Descending(ready_list, priority) /\ Ascending(block_list, endTick)
  BY DEF Init, Descending, Ascending
<1>5. CpuInv
  BY <1>2, <1>3, <1>4, ThreadsAssumption DEF Init, CpuInv, Placed
<1>6. UniqueCreator /\ \A c \in Thread : ~BeingCreated(c)
  BY DEF Init, UniqueCreator, BeingCreated
<1>7. BlockedInv({})
  BY <1>2, <1>3, <1>4, <1>6 DEF Init, BlockedInv
<1> QED BY <1>1, <1>4, <1>5, <1>7 DEF AloneInv, SchedInv, ReadyOrdered

(* Every step of a thread keeps the invariant. *)
LEMMA ThreadStepSchedInv ==
  ASSUME NEW L, ThreadLabel \subseteq L, NEW W, SchedInv(L, W),
         NEW t \in Thread, ThreadStep(t)
  PROVE  SchedInv(L, W)' /\ (ReadyOrdered => ReadyOrdered')
<1> USE DEF Goto, At, Runs, Calls
<1>1. TypeInv(L) /\ CpuInv /\ BlockedInv(W)
  BY DEF SchedInv
<1>2. /\ pc \in [Thread -> L] /\ child \in [Thread -> Thread \cup {None}]
      /\ status \in [Thread -> Status] /\ priority \in [Thread -> Priority]
      /\ endTick \in [Thread -> Int]
      /\ ready_list \in Seq(Thread) /\ block_list \in Seq(Thread)
      /\ destruction_req \in SUBSET Thread /\ CpuTypeOK
  BY <1>1 DEF TypeInv, ThreadTypeOK, CpuTypeOK
<1>3. SUFFICES CpuInv' /\ BlockedInv(W)' /\ (ReadyOrdered => ReadyOrdered')
  <2>1. TypeInv(L)'
    BY <1>1, ThreadStepTypeInv
  <2> QED BY <2>1 DEF SchedInv
<1>4. current = t
  BY DEF ThreadStep, CreateThread, CreateUnblock, CreatePreempt, YieldCPU, TimerSleep,
         insert_blockList, ThreadExit
<1>5. /\ status[t] = "running" /\ t \notin Range(ready_list)
      /\ t \notin Range(block_list) /\ ~BeingCreated(t) /\ t \notin W
  BY <1>1, <1>4, RunningThread
<1>6. ASSUME NEW c \in Thread, NEW p \in Priority, CreateThread(t, c, p)
      PROVE  CpuInv' /\ BlockedInv(W)' /\ (ReadyOrdered => ReadyOrdered')
  <2>1. /\ status[c] = "none" /\ status' = [status EXCEPT ![c] = "blocked"]
        /\ priority' = [priority EXCEPT ![c] = p]
        /\ child' = [child EXCEPT ![t] = c] /\ pc[t] = "run"
        /\ pc' = [pc EXCEPT ![t] = "unblock_child"]
        /\ current' = current /\ ready_list' = ready_list /\ block_list' = block_list
        /\ destruction_req' = destruction_req /\ endTick' = endTick
    BY <1>6 DEF CreateThread, listVars
  <2>2. c \notin Range(ready_list) /\ c \notin Range(block_list) /\ ~BeingCreated(c) /\ c \notin W
    BY <1>1, <2>1 DEF CpuInv, BlockedInv, Placed
  <2>3. \A u \in Thread : status'[u] = IF u = c THEN "blocked" ELSE status[u]
    BY <1>2, <2>1
  <2>4. Placed(status', ready_list')
    BY <1>1, <2>1, <2>2, <2>3 DEF CpuInv, Placed
  <2>5. ReadyOrdered => ReadyOrdered'
    <3>1. \A i \in 1..Len(ready_list) : ready_list[i] \in Range(ready_list)
      BY <1>2 DEF Range
    <3>2. \A i \in 1..Len(ready_list) :
            ready_list[i] \in Thread /\ ready_list[i] # c
      BY <1>2, <2>2, <3>1
    <3>3. \A i \in 1..Len(ready_list) : priority'[ready_list[i]] = priority[ready_list[i]]
      BY <1>2, <2>1, <3>2
    <3> QED BY <2>1, <3>3 DEF ReadyOrdered, Descending
  <2>6. \A u \in Thread : status'[u] = "running" <=> current' = u
    BY <1>1, <2>1, <2>3 DEF CpuInv
  <2>7. \A u \in destruction_req' : status'[u] = "dying"
    BY <1>1, <1>2, <2>1, <2>3 DEF CpuInv
  <2>8. CpuInv'
    BY <2>4, <2>6, <2>7 DEF CpuInv
  <2>9. \A u \in Thread : BeingCreated(u)' <=> BeingCreated(u) \/ u = c
    BY <1>2, <2>1 DEF BeingCreated
  <2>10. UniqueCreator'
    <3>1. \A u \in Thread : u # t => ~(pc[u] = "unblock_child" /\ child[u] = c)
      BY <2>2 DEF BeingCreated
    <3>2. \A u \in Thread : /\ pc'[u] = IF u = t THEN "unblock_child" ELSE pc[u]
                            /\ child'[u] = IF u = t THEN c ELSE child[u]
      BY <1>2, <2>1
    <3> QED BY <1>1, <3>1, <3>2 DEF BlockedInv, UniqueCreator
  <2>11. BlockedInv(W)'
    BY <1>1, <2>1, <2>2, <2>3, <2>9, <2>10 DEF BlockedInv
  <2> QED BY <2>5, <2>8, <2>11
<1>7. CASE CreateUnblock(t)
  <2> DEFINE c == child[t]
  <2>1. /\ pc[t] = "unblock_child" /\ thread_unblock(c)
        /\ pc' = [pc EXCEPT ![t] = "compare_child"]
        /\ priority' = priority /\ endTick' = endTick /\ block_list' = block_list
        /\ child' = child
    BY <1>7 DEF CreateUnblock
  <2>2. c \in Thread
    BY <1>1, <2>1 DEF TypeInv, ChildKnown
  <2>3. BeingCreated(c)
    BY <2>1, <2>2 DEF BeingCreated
  <2>4. status[c] = "blocked" /\ c \notin Range(block_list) /\ c \notin W
    BY <1>1, <2>2, <2>3 DEF BlockedInv
  <2>5. /\ CpuInv'
        /\ \A u \in Thread : status'[u] = "blocked" <=> status[u] = "blocked" /\ u # c
        /\ ReadyOrdered => ReadyOrdered'
    BY <1>1, <1>2, <2>1, <2>2, <2>4, UnblockKeeps DEF ReadyOrdered
  <2>6. \A u \in Thread : pc'[u] = "unblock_child" <=> pc[u] = "unblock_child" /\ u # t
    BY <1>2, <2>1
  <2>7. \A u \in Thread : BeingCreated(u)' <=> BeingCreated(u) /\ u # c
    BY <1>1, <2>1, <2>6 DEF BeingCreated, BlockedInv, UniqueCreator
  <2>8. UniqueCreator'
    BY <1>1, <2>1, <2>6 DEF BlockedInv, UniqueCreator
  <2> HIDE DEF c
  <2>9. BlockedInv(W)'
    BY <1>1, <2>1, <2>4, <2>5, <2>7, <2>8 DEF BlockedInv
  <2> QED BY <2>5, <2>9
<1>8. CASE CreatePreempt(t)
  <2>1. /\ thread_yield(t) \/ UNCHANGED cpuVars
        /\ pc[t] = "compare_child" /\ pc' = [pc EXCEPT ![t] = "run"]
        /\ child' = [child EXCEPT ![t] = None]
        /\ priority' = priority /\ endTick' = endTick /\ block_list' = block_list
    BY <1>8 DEF CreatePreempt
  <2>2. /\ CpuInv' /\ (ReadyOrdered => ReadyOrdered')
        /\ \A u \in Thread : status'[u] = "blocked" <=> status[u] = "blocked"
    <3>1. CASE thread_yield(t)
      BY <1>1, <1>2, <1>5, <2>1, <3>1, YieldKeeps DEF ReadyOrdered
    <3>2. CASE UNCHANGED cpuVars
      BY <1>1, <2>1, <3>2 DEF cpuVars, CpuInv, Placed, ReadyOrdered
    <3> QED BY <2>1, <3>1, <3>2
  <2>3. /\ \A u \in Thread : pc'[u] = "unblock_child" <=> pc[u] = "unblock_child"
        /\ \A u \in Thread : pc[u] = "unblock_child" => child'[u] = child[u]
    BY <1>2, <2>1
  <2>4. BlockedInv(W)'
    BY <1>1, <1>2, <2>1, <2>2, <2>3, BlockedFrame
  <2> QED BY <2>2, <2>4
<1>9. CASE YieldCPU(t)
  <2>1. /\ thread_yield(t) /\ pc' = pc /\ child' = child
        /\ priority' = priority /\ endTick' = endTick /\ block_list' = block_list
    BY <1>9 DEF YieldCPU
  <2>2. /\ CpuInv' /\ (ReadyOrdered => ReadyOrdered')
        /\ \A u \in Thread : status'[u] = "blocked" <=> status[u] = "blocked"
    BY <1>1, <1>2, <1>5, <2>1, YieldKeeps DEF ReadyOrdered
  <2>3. BlockedInv(W)'
    BY <1>1, <1>2, <2>1, <2>2, BlockedFrame
  <2> QED BY <2>2, <2>3
<1>10. ASSUME NEW n \in SleepTicks, TimerSleep(t, n)
       PROVE  CpuInv' /\ BlockedInv(W)' /\ (ReadyOrdered => ReadyOrdered')
  <2>1. /\ pc[t] = "run" /\ pc' = [pc EXCEPT ![t] = "insert_block"]
        /\ endTick' = [endTick EXCEPT ![t] = ticks + n]
        /\ UNCHANGED <<current, status, priority, ready_list, block_list, destruction_req, child>>
    BY <1>10 DEF TimerSleep, listVars
  <2>2. CpuInv' /\ (ReadyOrdered => ReadyOrdered')
    BY <1>1, <2>1 DEF CpuInv, Placed, ReadyOrdered
  <2>3. \A u \in Range(block_list) : endTick'[u] = endTick[u]
    <3>1. \A u \in Range(block_list) : u \in Thread /\ u # t
      BY <1>2, <1>5 DEF Range
    <3> QED BY <1>2, <2>1, <3>1
  <2>4. \A u \in Thread : pc'[u] = "unblock_child" <=> pc[u] = "unblock_child"
    BY <1>2, <2>1
  <2>5. BlockedInv(W)'
    BY <1>1, <1>2, <2>1, <2>3, <2>4, BlockedFrame
  <2> QED BY <2>2, <2>5
<1>11. CASE insert_blockList(t)
  <2>1. /\ pc[t] = "insert_block" /\ pc' = [pc EXCEPT ![t] = "run"]
        /\ block_list' = InsertSleeper(block_list, t)
        /\ do_schedule(t, "blocked", status, ready_list)
        /\ priority' = priority /\ endTick' = endTick /\ child' = child
    BY <1>11 DEF insert_blockList
  <2>3. /\ CpuInv' /\ (ReadyOrdered => ReadyOrdered')
        /\ \A u \in Thread : status'[u] = "blocked" <=> status[u] = "blocked" \/ u = t
    BY <1>1, <1>2, <1>5, <2>1, LeaveKeeps DEF ReadyOrdered
  <2>4. /\ Range(block_list') = Range(block_list) \cup {t}
        /\ IsInjective(block_list') /\ Ascending(block_list', endTick)
    BY <1>1, <1>2, <1>5, <2>1, InsertSleeperResult DEF BlockedInv
  <2>5. \A u \in Thread : pc'[u] = "unblock_child" <=> pc[u] = "unblock_child"
    BY <1>2, <2>1
  <2>6. /\ \A u \in Thread : BeingCreated(u)' <=> BeingCreated(u)
        /\ UniqueCreator'
    BY <1>1, <2>1, <2>5 DEF BeingCreated, BlockedInv, UniqueCreator
  <2>7. BlockedInv(W)'
    BY <1>1, <1>5, <2>1, <2>3, <2>4, <2>6 DEF BlockedInv
  <2> QED BY <2>3, <2>7
<1>12. CASE ThreadExit(t)
  <2>1. /\ do_schedule(t, "dying", status, ready_list)
        /\ UNCHANGED <<priority, endTick, block_list, pc, child>>
    BY <1>12 DEF ThreadExit
  <2>3. /\ CpuInv' /\ (ReadyOrdered => ReadyOrdered')
        /\ \A u \in Thread : status'[u] = "blocked" <=> status[u] = "blocked"
    BY <1>1, <1>2, <1>5, <2>1, LeaveKeeps DEF ReadyOrdered
  <2>4. BlockedInv(W)'
    BY <1>1, <1>2, <2>1, <2>3, BlockedFrame
  <2> QED BY <2>3, <2>4
<1> QED BY <1>6, <1>7, <1>8, <1>9, <1>10, <1>11, <1>12 DEF ThreadStep

(* So do the interrupts ... *)
LEMMA InterruptSchedInv ==
  ASSUME NEW L, NEW W, SchedInv(L, W), Interrupt
  PROVE  SchedInv(L, W)' /\ (ReadyOrdered => ReadyOrdered')
<1>1. TypeInv(L) /\ CpuInv /\ BlockedInv(W)
  BY DEF SchedInv
<1>2. /\ endTick \in [Thread -> Int] /\ block_list \in Seq(Thread)
      /\ current \in Thread \cup {Idle} /\ priority \in [Thread -> Priority]
      /\ CpuTypeOK
  BY <1>1 DEF TypeInv, ThreadTypeOK, CpuTypeOK
<1>3. SUFFICES CpuInv' /\ BlockedInv(W)' /\ (ReadyOrdered => ReadyOrdered')
  <2>1. TypeInv(L)'
    BY <1>1, InterruptTypeInv
  <2> QED BY <2>1 DEF SchedInv
<1>4. CASE TimerInterrupt
  <2>1. UNCHANGED <<current, status, priority, endTick, ready_list, block_list,
                    destruction_req, pc, child>>
    BY <1>4 DEF TimerInterrupt, listVars
  <2>2. CpuInv' /\ (ReadyOrdered => ReadyOrdered')
    BY <1>1, <2>1 DEF CpuInv, Placed, ReadyOrdered
  <2>3. BlockedInv(W)'
    BY <1>1, <1>2, <2>1, BlockedFrame
  <2> QED BY <2>2, <2>3
<1>5. CASE wake_up
  <2> DEFINE t == Head(block_list)
  <2>1. /\ block_list # <<>> /\ block_list' = Tail(block_list) /\ thread_unblock(t)
        /\ UNCHANGED <<priority, endTick, pc, child>>
    BY <1>5 DEF wake_up, Due
  <2>2. /\ t \in Thread /\ Range(block_list) = Range(block_list') \cup {t}
        /\ IsInjective(block_list') /\ t \notin Range(block_list')
    BY <1>1, <1>2, <2>1, TailResult DEF BlockedInv
  <2>3. Ascending(block_list', endTick)
    BY <1>1, <1>2, <2>1, AscendingTail DEF BlockedInv
  <2> HIDE DEF t
  <2>4. status[t] = "blocked" /\ ~BeingCreated(t) /\ t \notin W
    BY <1>1, <2>2 DEF BlockedInv
  <2>5. /\ CpuInv'
        /\ \A u \in Thread : status'[u] = "blocked" <=> status[u] = "blocked" /\ u # t
        /\ ReadyOrdered => ReadyOrdered'
    BY <1>1, <1>2, <2>1, <2>2, <2>4, UnblockKeeps DEF ReadyOrdered
  <2>6. (\A u \in Thread : BeingCreated(u)' <=> BeingCreated(u)) /\ UniqueCreator'
    BY <1>1, <2>1 DEF BeingCreated, BlockedInv, UniqueCreator
  <2>7. BlockedInv(W)'
    BY <1>1, <2>1, <2>2, <2>3, <2>4, <2>5, <2>6 DEF BlockedInv, Ascending
  <2> QED BY <2>5, <2>7
<1>6. CASE IntrReturn
  <2>1. UNCHANGED <<priority, endTick, block_list, pc, child>>
    BY <1>6 DEF IntrReturn
  <2>2. /\ CpuInv' /\ (ReadyOrdered => ReadyOrdered')
        /\ \A u \in Thread : status'[u] = "blocked" <=> status[u] = "blocked"
    <3>1. CASE yield_on_return /\ current # Idle
      <4>1. current \in Thread /\ thread_yield(current)
        BY <1>2, <1>6, <3>1 DEF IntrReturn
      <4>2. status[current] = "running"
        BY <1>1, <4>1 DEF CpuInv
      <4> QED BY <1>1, <1>2, <2>1, <4>1, <4>2, YieldKeeps DEF ReadyOrdered
    <3>2. CASE ~(yield_on_return /\ current # Idle)
      BY <1>1, <1>6, <2>1, <3>2 DEF IntrReturn, cpuVars, CpuInv, Placed, ReadyOrdered
    <3> QED BY <3>1, <3>2
  <2>3. BlockedInv(W)'
    BY <1>1, <1>2, <2>1, <2>2, BlockedFrame
  <2> QED BY <2>2, <2>3
<1> QED BY <1>4, <1>5, <1>6 DEF Interrupt

(* ... and the idle thread. *)
LEMMA IdleDispatches ==
  ASSUME CpuTypeOK, priority \in [Thread -> Priority], CpuInv, idle
  PROVE  Dispatched(status, ready_list)
<1>1. status \in [Thread -> Status] /\ ready_list \in Seq(Thread)
  BY DEF CpuTypeOK
<1>2. \A t \in Thread : status[t] # "running"
  BY ThreadsAssumption DEF idle, Runs, CpuInv
<1>3. Placed(status, ready_list) /\ schedule(status, ready_list)
  BY DEF CpuInv, idle
<1> QED BY <1>1, <1>2, <1>3, ScheduleDispatches

LEMMA IdleSchedInv ==
  ASSUME NEW L, NEW W, SchedInv(L, W), idle
  PROVE  SchedInv(L, W)' /\ (ReadyOrdered => ReadyOrdered')
<1>1. TypeInv(L) /\ CpuInv /\ BlockedInv(W)
  BY DEF SchedInv
<1>2. /\ CpuTypeOK /\ priority \in [Thread -> Priority]
      /\ block_list \in Seq(Thread) /\ destruction_req \in SUBSET Thread
  BY <1>1 DEF TypeInv, ThreadTypeOK, CpuTypeOK
<1>3. Dispatched(status, ready_list)
  BY <1>1, <1>2, IdleDispatches
<1>4. UNCHANGED <<priority, endTick, block_list, destruction_req, pc, child>>
  BY DEF idle
<1>5. \A t \in Thread :
        status'[t] = status[t] \/ (status[t] = "ready" /\ status'[t] = "running")
  BY <1>3 DEF Dispatched
<1>6. \A t \in Thread : status'[t] = "blocked" <=> status[t] = "blocked"
  BY <1>5
<1>7. \A t \in destruction_req' : status'[t] = "dying"
  BY <1>1, <1>2, <1>4, <1>5 DEF CpuInv
<1>8. CpuInv'
  BY <1>3, <1>7 DEF Dispatched, CpuInv, Placed
<1>9. ReadyOrdered => ReadyOrdered'
  BY <1>3, <1>4 DEF Dispatched, ReadyOrdered
<1>10. BlockedInv(W)'
  BY <1>1, <1>2, <1>4, <1>6, BlockedFrame
<1>11. TypeInv(L)'
  BY <1>1, IdleTypeInv
<1> QED BY <1>8, <1>9, <1>10, <1>11 DEF SchedInv

LEMMA StutterSchedInv ==
  ASSUME NEW L, NEW W, SchedInv(L, W), UNCHANGED threadVars
  PROVE  SchedInv(L, W)' /\ (ReadyOrdered => ReadyOrdered')
<1>1. TypeInv(L) /\ CpuInv /\ BlockedInv(W)
  BY DEF SchedInv
<1>2. UNCHANGED <<current, status, priority, endTick, ready_list, block_list,
                  destruction_req, pc, child>>
  BY DEF threadVars, listVars
<1>3. TypeInv(L)'
  BY <1>1, StutterTypeInv
<1>4. CpuInv' /\ (ReadyOrdered => ReadyOrdered')
  BY <1>1, <1>2 DEF CpuInv, Placed, ReadyOrdered
<1>5. BlockedInv(W)'
  BY <1>1, <1>2, BlockedFrame DEF TypeInv, ThreadTypeOK
<1> QED BY <1>3, <1>4, <1>5 DEF SchedInv

LEMMA AloneStep ==
  ASSUME AloneInv, [Next]_threadVars
  PROVE  AloneInv'
<1>1. SchedInv(ThreadLabel, {}) /\ ReadyOrdered
  BY DEF AloneInv
<1>2. SchedInv(ThreadLabel, {})' /\ (ReadyOrdered => ReadyOrdered')
  <2>1. CASE \E t \in Thread : ThreadStep(t)
    BY <1>1, <2>1, ThreadStepSchedInv
  <2>2. CASE Interrupt
    BY <1>1, <2>2, InterruptSchedInv
  <2>3. CASE idle
    BY <1>1, <2>3, IdleSchedInv
  <2>4. CASE UNCHANGED threadVars
    BY <1>1, <2>4, StutterSchedInv
  <2> QED BY <2>1, <2>2, <2>3, <2>4 DEF Next
<1> QED BY <1>1, <1>2 DEF AloneInv

LEMMA AloneInvHolds == Spec => []AloneInv
<1>1. AloneInv /\ [Next]_threadVars => AloneInv'
  BY AloneStep
<1> QED BY <1>1, InitAloneInv, PTL DEF Spec

(* A thread is in the one place its status says, and in no list twice.     *)
THEOREM ThreadsElemExclusive == Spec => []ElemExclusive
BY AloneInvHolds, AloneExclusive, PTL

-----------------------------------------------------------------------------
(* The CPU changes hands in schedule() only. *)
LEMMA DispatchStep ==
  ASSUME AloneInv, Next, current' # current
  PROVE  \A t \in Thread : status'[t] = "ready" =>
           current' # Idle /\ priority'[current'] >= priority'[t]
<1>1. TypeInv(ThreadLabel) /\ CpuInv /\ ReadyOrdered
  BY DEF AloneInv, SchedInv
<1>2. /\ current \in Thread \cup {Idle} /\ CpuTypeOK
      /\ priority \in [Thread -> Priority]
  BY <1>1 DEF TypeInv, ThreadTypeOK, CpuTypeOK
<1>4. ASSUME NEW t \in Thread, thread_yield(t), current = t, priority' = priority
      PROVE  \A u \in Thread : status'[u] = "ready" =>
               current' # Idle /\ priority'[current'] >= priority'[u]
  <2>1. status[t] = "running"
    BY <1>1, <1>4 DEF CpuInv
  <2> QED BY <1>1, <1>2, <1>4, <2>1, YieldKeeps DEF HighestRuns
<1>5. ASSUME NEW t \in Thread, NEW s \in {"blocked", "dying"}, current = t,
             do_schedule(t, s, status, ready_list), priority' = priority
      PROVE  \A u \in Thread : status'[u] = "ready" =>
               current' # Idle /\ priority'[current'] >= priority'[u]
  <2>1. status[t] = "running"
    BY <1>1, <1>5 DEF CpuInv
  <2> QED BY <1>1, <1>2, <1>5, <2>1, LeaveKeeps DEF HighestRuns
<1>6. ASSUME NEW t \in Thread, ThreadStep(t)
      PROVE  \A u \in Thread : status'[u] = "ready" =>
               current' # Idle /\ priority'[current'] >= priority'[u]
  <2> USE DEF At, Runs, Calls
  <2>1. ASSUME NEW c \in Thread, NEW p \in Priority, CreateThread(t, c, p) PROVE FALSE
    BY <2>1 DEF CreateThread
  <2>2. CASE CreateUnblock(t)
    BY <2>2 DEF CreateUnblock, thread_unblock
  <2>3. CASE CreatePreempt(t)
    <3>1. thread_yield(t) /\ current = t /\ priority' = priority
      BY <2>3 DEF CreatePreempt, cpuVars
    <3> QED BY <1>4, <3>1
  <2>4. CASE YieldCPU(t)
    <3>1. thread_yield(t) /\ current = t /\ priority' = priority
      BY <2>4 DEF YieldCPU
    <3> QED BY <1>4, <3>1
  <2>5. ASSUME NEW n \in SleepTicks, TimerSleep(t, n) PROVE FALSE
    BY <2>5 DEF TimerSleep
  <2>6. CASE insert_blockList(t)
    <3>1. /\ do_schedule(t, "blocked", status, ready_list) /\ current = t
          /\ priority' = priority
      BY <2>6 DEF insert_blockList
    <3> QED BY <1>5, <3>1
  <2>7. CASE ThreadExit(t)
    <3>1. /\ do_schedule(t, "dying", status, ready_list) /\ current = t
          /\ priority' = priority
      BY <2>7 DEF ThreadExit
    <3> QED BY <1>5, <3>1
  <2> QED BY <1>6, <2>1, <2>2, <2>3, <2>4, <2>5, <2>6, <2>7 DEF ThreadStep
<1>7. CASE Interrupt
  <2>1. CASE TimerInterrupt
    BY <2>1 DEF TimerInterrupt
  <2>2. CASE wake_up
    BY <2>2 DEF wake_up, thread_unblock
  <2>3. CASE IntrReturn
    <3>1. /\ thread_yield(current) /\ current \in Thread /\ priority' = priority
      BY <1>2, <2>3 DEF IntrReturn, cpuVars
    <3> QED BY <1>4, <3>1
  <2> QED BY <1>7, <2>1, <2>2, <2>3 DEF Interrupt
<1>8. CASE idle
  <2>1. Dispatched(status, ready_list) /\ priority' = priority
    BY <1>1, <1>2, <1>8, IdleDispatches DEF idle
  <2> QED BY <1>1, <2>1 DEF Dispatched, HighestRuns, ReadyOrdered
<1> QED BY <1>6, <1>7, <1>8 DEF Next

(* Whoever gets the CPU has the highest priority of all that are ready.    *)
THEOREM ThreadsDispatchHighest == Spec => DispatchHighest
<1>1. AloneInv /\ [Next]_threadVars =>
        [current' # current =>
           \A t \in Thread : status'[t] = "ready" =>
             current' # Idle /\ priority'[current'] >= priority'[t]]_threadVars
  BY DispatchStep DEF threadVars
<1> QED BY <1>1, AloneInvHolds, PTL DEF Spec, DispatchHighest

(* Only wake_up takes a thread off the list, and it takes the head when    *)
(* that is due.                                                            *)
LEMMA WakeStep ==
  ASSUME AloneInv, Next, NEW t \in Range(block_list), t \notin Range(block_list')
  PROVE  endTick[t] <= ticks
<1>1. block_list \in Seq(Thread) /\ endTick \in [Thread -> Int]
  BY DEF AloneInv, SchedInv, TypeInv, ThreadTypeOK
<1>2. block_list' # block_list
  OBVIOUS
<1>3. ASSUME NEW u \in Thread, ThreadStep(u) PROVE FALSE
  <2>1. CASE insert_blockList(u)
    <3>1. Range(block_list') = Range(block_list) \cup {u}
      BY <1>1, <2>1, InsertSleeperResult DEF insert_blockList
    <3> QED BY <3>1
  <2>2. CASE ~insert_blockList(u)
    BY <1>2, <1>3, <2>2 DEF ThreadStep, CreateThread, CreateUnblock, CreatePreempt,
       YieldCPU, TimerSleep, ThreadExit, listVars
  <2> QED BY <2>1, <2>2
<1>4. CASE wake_up
  <2>1. /\ block_list # <<>> /\ endTick[Head(block_list)] <= ticks
        /\ block_list' = Tail(block_list)
    BY <1>4 DEF wake_up, Due
  <2>2. Range(block_list) = Range(block_list') \cup {Head(block_list)}
    BY <1>1, <2>1, TailResult
  <2> QED BY <2>1, <2>2
<1>5. ~TimerInterrupt /\ ~IntrReturn /\ ~idle
  BY <1>2 DEF TimerInterrupt, IntrReturn, idle, listVars
<1> QED BY <1>3, <1>4, <1>5 DEF Next, Interrupt

(* No sleeper leaves the list before its tick. *)
THEOREM ThreadsNeverWokenEarly == Spec => NeverWokenEarly
<1>1. AloneInv /\ [Next]_threadVars =>
        [\A t \in Range(block_list) :
           t \notin Range(block_list') => endTick[t] <= ticks]_threadVars
  BY WakeStep DEF threadVars
<1> QED BY <1>1, AloneInvHolds, PTL DEF Spec, NeverWokenEarly

(* The handler returns when the head is not due, and then no one is,       *)
(* because the list is in order.                                           *)
LEMMA ReturnStep ==
  ASSUME AloneInv, Next, intr = "timer", intr' = "none"
  PROVE  \A t \in Range(block_list') : endTick'[t] > ticks'
<1>1. /\ block_list \in Seq(Thread) /\ endTick \in [Thread -> Int]
      /\ ticks \in Int /\ Ascending(block_list, endTick)
  BY ThreadsAssumption DEF AloneInv, SchedInv, TypeInv, ThreadTypeOK, BlockedInv
<1>2. \A t \in Thread : ~ThreadStep(t)
  BY DEF ThreadStep, CreateThread, CreateUnblock, CreatePreempt, YieldCPU, TimerSleep,
     insert_blockList, ThreadExit, At, Runs, Calls
<1>3. ~TimerInterrupt /\ ~wake_up /\ ~idle
  BY DEF TimerInterrupt, wake_up, idle, Interruptible, Runs
<1>4. IntrReturn
  BY <1>2, <1>3 DEF Next, Interrupt
<1>5. UNCHANGED <<block_list, endTick, ticks>> /\ ~Due
  BY <1>4 DEF IntrReturn
<1>6. CASE block_list = <<>>
  BY <1>5, <1>6 DEF Range
<1>7. CASE block_list # <<>>
  <2>1. Head(block_list) \in Thread
    BY <1>1, <1>7
  <2>2. endTick[Head(block_list)] > ticks
    BY <1>1, <1>5, <1>7, <2>1 DEF Due
  <2>3. \A t \in Range(block_list) : endTick[Head(block_list)] <= endTick[t]
    BY <1>1, <1>7, AscendingTail
  <2>4. \A t \in Range(block_list) : t \in Thread
    BY <1>1 DEF Range
  <2> QED BY <1>1, <1>5, <2>1, <2>2, <2>3, <2>4
<1> QED BY <1>6, <1>7

(* When the timer interrupt returns, nobody who is due is left asleep.     *)
THEOREM ThreadsNoneOverslept == Spec => NoneOverslept
<1>1. AloneInv /\ [Next]_threadVars =>
        [intr = "timer" /\ intr' = "none" =>
           \A t \in Range(block_list') : endTick'[t] > ticks']_threadVars
  BY ReturnStep DEF threadVars
<1> QED BY <1>1, AloneInvHolds, PTL DEF Spec, NoneOverslept
=============================================================================
