---------------------------- MODULE WaitersProofs ----------------------------
(***************************************************************************)
(* The waiters of semaphores, for any number of threads, locks and         *)
(* semaphores: the one elem of a thread is never in two lists, sema_up     *)
(* wakes a waiter of the highest priority, whatever was donated meanwhile, *)
(* no wake-up is lost, the locks never deadlock, and without ticks the     *)
(* holder of the one lock has its waiters' priority while it holds it.     *)
(***************************************************************************)
EXTENDS SynchProofs, FiniteSetTheorems

Waiting == {t \in Thread : \E s \in Semaphore : WaitsFor(t, s)}

(* A waiter is in sema_down, for the semaphore whose list it is in. *)
WaitersInv ==
  /\ \A s \in Semaphore : IsInjective(waiters[s])
  /\ \A t \in Thread, s \in Semaphore : WaitsFor(t, s) => pc[t] = "retry" /\ obj[t] = s

ElemInv == SynchTypeInv /\ CpuInv /\ BlockedInv(Waiting) /\ WaitersInv

LEMMA ElemInvExclusive == ElemInv => SynchElemExclusive
<1> SUFFICES ASSUME ElemInv PROVE SynchElemExclusive
  OBVIOUS
<1>1. \A t \in Thread : t \in Waiting <=> \E s \in Semaphore : WaitsFor(t, s)
  BY DEF Waiting
<1> QED BY <1>1 DEF ElemInv, CpuInv, BlockedInv, WaitersInv, Placed, SynchElemExclusive

LEMMA ElemInvTypes ==
  ASSUME ElemInv
  PROVE  /\ TypeInv(SynchLabel) /\ CpuTypeOK /\ priority \in [Thread -> Priority]
         /\ status \in [Thread -> Status] /\ ready_list \in Seq(Thread)
         /\ block_list \in Seq(Thread) /\ destruction_req \in SUBSET Thread
         /\ current \in Thread \cup {Idle}
         /\ pc \in [Thread -> SynchLabel] /\ obj \in [Thread -> Semaphore \cup {None}]
         /\ waiters \in [Semaphore -> Seq(Thread)] /\ value \in [Semaphore -> Nat]
         /\ donations \in [Thread -> Seq(Thread)]
BY DEF ElemInv, SynchTypeInv, TypeInv, LockTypeOK, ThreadTypeOK, CpuTypeOK

LEMMA InitElemInv == SynchInit => ElemInv
<1> SUFFICES ASSUME SynchInit PROVE ElemInv
  OBVIOUS
<1>1. SynchTypeInv /\ AloneInv
  BY InitSynchTypeInv, InitAloneInv DEF SynchInit
<1>2. \A s \in Semaphore : waiters[s] = <<>>
  BY DEF SynchInit
<1>3. \A s \in Semaphore : Range(waiters[s]) = {} /\ IsInjective(waiters[s])
  BY <1>2 DEF Range, IsInjective
<1>4. WaitersInv /\ Waiting = {}
  BY <1>3 DEF WaitersInv, Waiting, WaitsFor
<1> QED BY <1>1, <1>4 DEF ElemInv, AloneInv, SchedInv, BlockedInv

(* A step that leaves the waiters alone, and the pc and obj of those who   *)
(* wait.                                                                   *)
LEMMA WaitersFrame ==
  ASSUME ElemInv, waiters' = waiters,
         \A t \in Waiting : pc'[t] = pc[t] /\ obj'[t] = obj[t]
  PROVE  Waiting' = Waiting /\ WaitersInv'
<1>1. \A t \in Thread, s \in Semaphore : WaitsFor(t, s)' <=> WaitsFor(t, s)
  BY DEF WaitsFor
<1>2. Waiting' = Waiting
  BY <1>1 DEF Waiting
<1>3. \A t \in Thread, s \in Semaphore : WaitsFor(t, s) => t \in Waiting
  BY DEF Waiting
<1>4. \A t \in Thread, s \in Semaphore :
        WaitsFor(t, s)' => pc'[t] = "retry" /\ obj'[t] = s
  BY <1>1, <1>3 DEF ElemInv, WaitersInv
<1>5. \A s \in Semaphore : IsInjective(waiters'[s])
  BY DEF ElemInv, WaitersInv
<1> QED BY <1>2, <1>4, <1>5 DEF WaitersInv

(* list_push_back adds its element and nothing else. *)
LEMMA AppendRange ==
  ASSUME NEW S, NEW q \in Seq(S), NEW e \in S, e \notin Range(q)
  PROVE  /\ Range(Append(q, e)) = Range(q) \cup {e}
         /\ IsInjective(q) => IsInjective(Append(q, e))
<1>1. Len(q) + 1 \in 1..Len(q) + 1
  OBVIOUS
<1> DEFINE r == InsertAt(q, Len(q) + 1, e)
<1>2. /\ r \in Seq(S) /\ Len(r) = Len(q) + 1
      /\ \A i \in 1..Len(q) + 1 : r[i] = IF i = Len(q) + 1 THEN e ELSE q[i]
  BY <1>1, InsertAtElements
<1>3. Range(r) = Range(q) \cup {e} /\ (IsInjective(q) => IsInjective(r))
  BY <1>1, InsertAtRange
<1> HIDE DEF r
<1>4. r = Append(q, e)
  BY <1>2
<1> QED BY <1>3, <1>4

(* The running thread does not wait. *)
LEMMA RunnerFree ==
  ASSUME ElemInv, NEW t \in Thread, current = t
  PROVE  /\ status[t] = "running" /\ t \notin Range(ready_list)
         /\ t \notin Range(block_list) /\ ~BeingCreated(t) /\ t \notin Waiting
BY DEF ElemInv, CpuInv, BlockedInv, Placed

(* Steps of a thread that touch neither the CPU nor a list. *)
LEMMA LocalKeeps ==
  ASSUME ElemInv, SynchTypeInv', NEW t \in Thread, current = t,
         UNCHANGED <<cpuVars, endTick, block_list, child, waiters>>,
         pc[t] # "unblock_child", pc'[t] # "unblock_child",
         \A u \in Thread : u # t => pc'[u] = pc[u] /\ obj'[u] = obj[u]
  PROVE  ElemInv'
<1>1. t \notin Waiting
  BY RunnerFree
<1>2. Waiting' = Waiting /\ WaitersInv'
  BY <1>1, WaitersFrame DEF Waiting
<1>3. UNCHANGED <<current, status, ready_list, destruction_req>>
  BY DEF cpuVars
<1>4. CpuInv'
  BY <1>3 DEF ElemInv, CpuInv, Placed
<1> DEFINE W == Waiting
<1>5. /\ BlockedInv(W)
      /\ \A u \in Thread : pc'[u] = "unblock_child" <=> pc[u] = "unblock_child"
      /\ \A u \in Thread : status'[u] = "blocked" <=> status[u] = "blocked"
  BY <1>3 DEF ElemInv
<1>6. PICK w : w = Waiting
  OBVIOUS
<1>7. BlockedInv(w)
  BY <1>5, <1>6
<1>8. BlockedInv(w)'
  BY <1>5, <1>7, ElemInvTypes, BlockedFrame
<1>9. BlockedInv(Waiting)'
  BY <1>2, <1>6, <1>8 DEF BlockedInv
<1> QED BY <1>2, <1>4, <1>9 DEF ElemInv

(* Steps of the scheduler. *)
LEMMA SchedulerKeeps ==
  ASSUME ElemInv, SynchTypeInv', waiters' = waiters,
         \A u \in Waiting : pc'[u] = pc[u] /\ obj'[u] = obj[u],
         (\E t \in Thread : ThreadStep(t)) \/ Interrupt \/ idle \/ UNCHANGED threadVars
  PROVE  ElemInv'
<1>1. PICK W : W = Waiting
  OBVIOUS
<1>2. SchedInv(SynchLabel, W) /\ ThreadLabel \subseteq SynchLabel
  BY <1>1, ElemInvTypes DEF ElemInv, SchedInv, SynchLabel
<1>3. SchedInv(SynchLabel, W)'
  BY <1>2, ThreadStepSchedInv, InterruptSchedInv, IdleSchedInv, StutterSchedInv
<1>4. Waiting' = W /\ WaitersInv'
  BY <1>1, WaitersFrame
<1>5. BlockedInv(Waiting)'
  BY <1>3, <1>4 DEF SchedInv, BlockedInv
<1> QED BY <1>3, <1>4, <1>5 DEF ElemInv, SchedInv

(* What a thread does to its own pc. *)
LEMMA ThreadStepPc ==
  ASSUME pc \in [Thread -> SynchLabel], NEW t \in Thread, ThreadStep(t)
  PROVE  current = t /\ \A u \in Thread : u # t => pc'[u] = pc[u]
<1>1. current = t
  BY DEF ThreadStep, CreateThread, CreateUnblock, CreatePreempt, YieldCPU, TimerSleep,
         insert_blockList, ThreadExit, At, Runs, Calls
<1>2. pc' = pc \/ \E label : pc' = [pc EXCEPT ![t] = label]
  BY DEF ThreadStep, CreateThread, CreateUnblock, CreatePreempt, YieldCPU, TimerSleep,
         insert_blockList, ThreadExit, Goto
<1> QED BY <1>1, <1>2

LEMMA ScheduleStepKeeps ==
  ASSUME ElemInv, SynchTypeInv', NEW t \in Thread,
         \/ \E c \in Thread, p \in Priority : Create(t, c, p)
         \/ Schedules(t)
         \/ Exit(t)
  PROVE  ElemInv'
<1>1. ThreadStep(t) /\ waiters' = waiters /\ obj' = obj
  BY DEF Create, Schedules, Exit, ThreadStep, synchVars, objectVars, localVars
<1>2. current = t /\ \A u \in Thread : u # t => pc'[u] = pc[u]
  <2>1. pc \in [Thread -> SynchLabel]
    BY ElemInvTypes
  <2> QED BY <1>1, <2>1, ThreadStepPc
<1>3. t \notin Waiting
  BY <1>2, RunnerFree
<1> QED BY <1>1, <1>2, <1>3, SchedulerKeeps DEF Waiting

LEMMA BackgroundKeeps ==
  ASSUME ElemInv, SynchTypeInv', Timer \/ Idling \/ UNCHANGED vars
  PROVE  ElemInv'
<1>1. waiters' = waiters /\ obj' = obj /\ pc' = pc
  BY DEF Timer, Idling, Interrupt, TimerInterrupt, wake_up, IntrReturn, idle,
         vars, threadVars, synchVars, objectVars, localVars
<1> QED BY <1>1, SchedulerKeeps DEF Timer, Idling, vars

LEMMA PanicKeeps ==
  ASSUME ElemInv, SynchTypeInv', NEW why, Panic(why)
  PROVE  ElemInv'
<1>1. waiters' = waiters /\ obj' = obj /\ pc' = pc /\ UNCHANGED threadVars
  BY DEF Panic, threadVars, objectVars, localVars
<1> QED BY <1>1, SchedulerKeeps

LEMMA SetYieldKeeps ==
  ASSUME ElemInv, SynchTypeInv', NEW t \in Thread, SetYield(t)
  PROVE  ElemInv'
<1>1. /\ current = t /\ thread_yield(t) /\ pc[t] = "set_yield"
      /\ pc' = [pc EXCEPT ![t] = "run"]
      /\ UNCHANGED <<priority, endTick, block_list, child, waiters, obj>>
  BY DEF SetYield, At, Runs, Goto, timerVars, synchVars, objectVars, localVars
<1>2. status[t] = "running" /\ t \notin Waiting
  BY <1>1, RunnerFree
<1>3. CpuInv' /\ \A u \in Thread : status'[u] = "blocked" <=> status[u] = "blocked"
  BY <1>1, <1>2, ElemInvTypes, YieldKeeps DEF ElemInv
<1>4. \A u \in Thread : u # t => pc'[u] = pc[u]
  BY <1>1, ElemInvTypes
<1>5. \A u \in Thread : pc'[u] = "unblock_child" <=> pc[u] = "unblock_child"
  BY <1>1, ElemInvTypes
<1>6. PICK W : W = Waiting
  OBVIOUS
<1>7. BlockedInv(W)'
  <2>1. BlockedInv(W)
    BY <1>6 DEF ElemInv
  <2> QED BY <2>1, <1>1, <1>3, <1>5, ElemInvTypes, BlockedFrame
<1>8. Waiting' = W /\ WaitersInv'
  BY <1>1, <1>2, <1>4, <1>6, WaitersFrame DEF Waiting
<1>9. BlockedInv(Waiting)'
  BY <1>7, <1>8 DEF BlockedInv
<1> QED BY <1>3, <1>8, <1>9 DEF ElemInv

(* Blocking in sema_down. *)
LEMMA SemaDownKeeps ==
  ASSUME ElemInv, SynchTypeInv', NEW t \in Thread, SemaDown(t)
  PROVE  ElemInv'
<1> DEFINE s == obj[t]
<1>1. /\ current = t /\ pc[t] \in {"down", "retry"}
      /\ UNCHANGED <<priority, endTick, block_list, child>>
  BY DEF SemaDown, Runs, timerVars
<1>2. /\ status[t] = "running" /\ t \notin Range(ready_list)
      /\ t \notin Range(block_list) /\ ~BeingCreated(t) /\ t \notin Waiting
  BY <1>1, RunnerFree
<1>3. s \in Semaphore
  BY <1>1 DEF ElemInv, SynchTypeInv, LocalsKnown
<1>4. CASE ~MustWait(t, s)
  <2>1. /\ UNCHANGED cpuVars /\ waiters' = waiters
        /\ pc' = [pc EXCEPT ![t] = IF s \in Lock THEN "acquired" ELSE "run"]
        /\ obj' = IF s \in Lock THEN obj ELSE [obj EXCEPT ![t] = None]
    BY <1>4 DEF SemaDown, Goto
  <2>2. pc'[t] # "unblock_child" /\ \A u \in Thread : u # t => pc'[u] = pc[u] /\ obj'[u] = obj[u]
    BY <2>1, ElemInvTypes
  <2> QED BY <1>1, <2>1, <2>2, LocalKeeps
<1>5. CASE MustWait(t, s)
  <2> DEFINE st == [status EXCEPT ![t] = "blocked"]
  <2>1. /\ waiters' = [waiters EXCEPT ![s] = Append(@, t)]
        /\ schedule(st, ready_list) /\ destruction_req' = destruction_req
        /\ pc' = [pc EXCEPT ![t] = "retry"] /\ obj' = obj
    BY <1>5 DEF SemaDown, Goto, thread_block
  <2>2. \A u \in Thread : st[u] = IF u = t THEN "blocked" ELSE status[u]
    BY ElemInvTypes
  <2>3. st \in [Thread -> Status]
    BY ElemInvTypes DEF Status
  <2> HIDE DEF st
  <2>4. Placed(st, ready_list) /\ \A u \in Thread : st[u] # "running"
    BY <1>1, <1>2, <2>2 DEF ElemInv, CpuInv, Placed
  <2>5. Dispatched(st, ready_list)
    BY <2>1, <2>3, <2>4, ElemInvTypes, ScheduleDispatches
  <2>6. \A u \in Thread :
          status'[u] = st[u] \/ (st[u] = "ready" /\ status'[u] = "running")
    BY <2>5 DEF Dispatched
  <2>7. \A u \in destruction_req' : status'[u] = "dying"
    <3>1. \A u \in destruction_req : u \in Thread /\ status[u] = "dying"
      BY ElemInvTypes DEF ElemInv, CpuInv
    <3> QED BY <1>2, <2>1, <2>2, <2>6, <3>1
  <2>8. CpuInv'
    BY <2>5, <2>7 DEF Dispatched, CpuInv, Placed
  <2>9. \A u \in Thread : status'[u] = "blocked" <=> status[u] = "blocked" \/ u = t
    BY <2>2, <2>6
  <2>10. \A u \in Thread : pc'[u] = IF u = t THEN "retry" ELSE pc[u]
    BY <2>1, ElemInvTypes
  <2>11. /\ waiters[s] \in Seq(Thread) /\ waiters'[s] = Append(waiters[s], t)
         /\ \A k \in Semaphore : k # s => waiters'[k] = waiters[k]
    BY <1>3, <2>1, ElemInvTypes
  <2>12. /\ Range(waiters'[s]) = Range(waiters[s]) \cup {t}
         /\ IsInjective(waiters'[s])
    <3>1. t \notin Range(waiters[s]) /\ IsInjective(waiters[s])
      BY <1>2, <1>3 DEF Waiting, WaitsFor, ElemInv, WaitersInv
    <3> QED BY <2>11, <3>1, AppendRange
  <2>13. \A u \in Thread, k \in Semaphore :
           WaitsFor(u, k)' <=> WaitsFor(u, k) \/ (u = t /\ k = s)
    <3>1. ASSUME NEW u \in Thread, NEW k \in Semaphore
          PROVE  WaitsFor(u, k)' <=> WaitsFor(u, k) \/ (u = t /\ k = s)
      <4>1. CASE k = s
        BY <4>1, <2>12 DEF WaitsFor
      <4>2. CASE k # s
        BY <4>2, <2>11 DEF WaitsFor
      <4> QED BY <4>1, <4>2
    <3> QED BY <3>1
  <2>14. \A u \in Thread : u \in Waiting' <=> u \in Waiting \/ u = t
    BY <1>3, <2>13 DEF Waiting
  <2>15. WaitersInv'
    <3>1. \A k \in Semaphore : IsInjective(waiters'[k])
      BY <2>11, <2>12 DEF ElemInv, WaitersInv
    <3> QED BY <2>1, <2>10, <2>13, <3>1 DEF ElemInv, WaitersInv
  <2>16. /\ \A u \in Thread : BeingCreated(u)' <=> BeingCreated(u)
         /\ UniqueCreator'
    BY <1>1, <2>10 DEF BeingCreated, ElemInv, BlockedInv, UniqueCreator
  <2>17. BlockedInv(Waiting)'
    BY <1>1, <1>2, <2>9, <2>14, <2>16 DEF ElemInv, BlockedInv, Ascending
  <2> QED BY <2>8, <2>15, <2>17 DEF ElemInv
<1> QED BY <1>4, <1>5

-----------------------------------------------------------------------------
(* sema_up. *)

(* The blocked thread n enters the ready list, in some order. *)
LEMMA ReadiedKeeps ==
  ASSUME CpuTypeOK, CpuInv, NEW n \in Thread, status[n] = "blocked", NEW p,
         ready_list' = InsertReady(ready_list, n, p),
         status' = [status EXCEPT ![n] = "ready"],
         UNCHANGED <<current, destruction_req>>
  PROVE  CpuInv'
<1>1. /\ ready_list \in Seq(Thread) /\ status \in [Thread -> Status]
      /\ destruction_req \in SUBSET Thread
  BY DEF CpuTypeOK
<1>2. n \notin Range(ready_list) /\ IsInjective(ready_list)
  BY DEF CpuInv, Placed
<1>3. IsInjective(ready_list') /\ Range(ready_list') = Range(ready_list) \cup {n}
  BY <1>1, <1>2, InsertReadyRange
<1>4. \A u \in Thread : status'[u] = IF u = n THEN "ready" ELSE status[u]
  BY <1>1
<1>5. ASSUME NEW u \in Thread PROVE status'[u] = "ready" <=> u \in Range(ready_list')
  <2>1. status[u] = "ready" <=> u \in Range(ready_list)
    BY DEF CpuInv, Placed
  <2> QED BY <2>1, <1>3, <1>4
<1>6. Placed(status', ready_list')
  BY <1>3, <1>5 DEF Placed
<1> QED BY <1>1, <1>4, <1>6 DEF CpuInv

(* The waiter that sema_up wakes, and whom it leaves. *)
LEMMA WokenWaiter ==
  ASSUME ElemInv, NEW s \in Semaphore, waiters[s] # <<>>
  PROVE  LET k == list_max(waiters[s], priority)
             n == waiters[s][k]
             rest == RemoveAt(waiters[s], k)
         IN  /\ n \in Thread /\ WaitsFor(n, s) /\ status[n] = "blocked"
             /\ Range(rest) = Range(waiters[s]) \ {n} /\ IsInjective(rest)
             /\ \A u \in Range(waiters[s]) : priority[u] <= priority[n]
<1> DEFINE k == list_max(waiters[s], priority)
<1> DEFINE n == waiters[s][k]
<1> DEFINE rest == RemoveAt(waiters[s], k)
<1>1. waiters[s] \in Seq(Thread) /\ priority \in [Thread -> PRI_MIN..PRI_MAX]
  BY ElemInvTypes DEF Priority
<1>2. k \in 1..Len(waiters[s]) /\ \A j \in 1..Len(waiters[s]) : priority[waiters[s][j]] <= priority[n]
  BY <1>1, ThreadsAssumption, MaxPosition
<1> HIDE DEF k
<1>3. n \in Thread /\ n \in Range(waiters[s])
  BY <1>1, <1>2 DEF Range
<1>4. WaitsFor(n, s)
  BY <1>3 DEF WaitsFor
<1>5. n \in Waiting
  BY <1>3, <1>4 DEF Waiting
<1>6. status[n] = "blocked"
  BY <1>3, <1>5 DEF ElemInv, BlockedInv
<1>7. IsInjective(waiters[s])
  BY DEF ElemInv, WaitersInv
<1>8. /\ Range(rest) \subseteq Range(waiters[s])
      /\ Range(waiters[s]) \subseteq Range(rest) \cup {n}
      /\ IsInjective(rest) /\ n \notin Range(rest)
  BY <1>1, <1>2, <1>7, RemoveAtRange
<1>9. Range(rest) = Range(waiters[s]) \ {n}
  BY <1>8
<1>10. \A u \in Range(waiters[s]) : priority[u] <= priority[n]
  BY <1>1, <1>2, SMTT(30) DEF Range
<1> QED BY <1>3, <1>4, <1>6, <1>8, <1>9, <1>10 DEF k

(* What sema_up does to the CPU. *)
LEMMA WakeCpu ==
  ASSUME ElemInv, NEW s \in Semaphore, NEW inInterrupt, waiters[s] # <<>>,
         WakeWaiter(s, inInterrupt)
  PROVE  LET n == waiters[s][list_max(waiters[s], priority)]
         IN  /\ CpuInv'
             /\ \A u \in Thread : status'[u] = "blocked" <=> status[u] = "blocked" /\ u # n
<1> DEFINE n == waiters[s][list_max(waiters[s], priority)]
<1> DEFINE woken == [status EXCEPT ![n] = "ready"]
<1>1. n \in Thread /\ status[n] = "blocked"
  BY WokenWaiter
<1>2. CpuInv /\ CpuTypeOK /\ priority \in [Thread -> Priority]
  BY ElemInvTypes DEF ElemInv
<1>3. CASE current = Idle
  <2>1. thread_unblock(n)
    BY <1>3 DEF WakeWaiter
  <2> HIDE DEF n
  <2> QED BY <1>1, <1>2, <2>1, UnblockKeeps DEF n
<1>4. CASE current # Idle
  <2>1. current \in Thread
    BY <1>4, ElemInvTypes
  <2>2. \/ do_schedule(current, "ready", woken,
             InsertReady(InsertReady(ready_list, n, priority'), current, priority'))
        \/ /\ ready_list' = InsertReady(ready_list, n, priority')
           /\ status' = woken
           /\ UNCHANGED <<current, destruction_req>>
    BY <1>4 DEF WakeWaiter
  <2> HIDE DEF n
  <2>3. woken \in [Thread -> Status] /\ \A u \in Thread : woken[u] = IF u = n THEN "ready" ELSE status[u]
    BY <1>1, ElemInvTypes DEF Status
  <2>4. CASE /\ ready_list' = InsertReady(ready_list, n, priority')
             /\ status' = woken
             /\ UNCHANGED <<current, destruction_req>>
    <3>1. CpuInv'
      BY <1>1, <1>2, <2>4, ReadiedKeeps
    <3> QED BY <1>1, <2>3, <2>4, <3>1 DEF n
  <2>5. CASE do_schedule(current, "ready", woken,
               InsertReady(InsertReady(ready_list, n, priority'), current, priority'))
    <3> DEFINE q1 == InsertReady(ready_list, n, priority')
    <3> DEFINE q2 == InsertReady(q1, current, priority')
    <3>1. /\ ready_list \in Seq(Thread) /\ IsInjective(ready_list)
          /\ \A u \in Thread : status[u] = "ready" <=> u \in Range(ready_list)
          /\ status[current] = "running"
      BY <1>2, <2>1, ElemInvTypes DEF CpuInv, Placed
    <3>2. q1 \in Seq(Thread) /\ IsInjective(q1) /\ Range(q1) = Range(ready_list) \cup {n}
      BY <1>1, <3>1, InsertReadyType, InsertReadyRange
    <3> HIDE DEF q1
    <3>3. current \notin Range(q1)
      BY <1>1, <2>1, <3>1, <3>2
    <3>4. q2 \in Seq(Thread) /\ IsInjective(q2) /\ Range(q2) = Range(q1) \cup {current}
      BY <2>1, <3>2, <3>3, InsertReadyType, InsertReadyRange
    <3>5. do_schedule(current, "ready", woken, q2)
      BY <2>5 DEF q1
    <3> HIDE DEF q2, woken
    <3>6. \A u \in Thread : u # current => (woken[u] = "ready" <=> u \in Range(q2))
      BY <2>3, <3>1, <3>2, <3>4
    <3>7. \A u \in Thread : u # current => woken[u] # "running"
      BY <1>2, <2>3 DEF CpuInv
    <3>8. \A u \in destruction_req : woken[u] = "dying" /\ u # current
      <4>1. \A u \in destruction_req : u \in Thread /\ status[u] = "dying"
        BY <1>2, ElemInvTypes DEF CpuInv
      <4> QED BY <1>1, <2>3, <3>1, <4>1
    <3>9. current \in Range(q2) <=> "ready" = "ready"
      BY <3>4
    <3> DEFINE t == current
    <3>10. t \in Thread
      BY <2>1
    <3>11. /\ CpuInv'
           /\ \A u \in Thread : status'[u] = "blocked"
                <=> IF u = current THEN "ready" = "blocked" ELSE woken[u] = "blocked"
      BY <1>2, <2>1, <2>3, <3>4, <3>5, <3>6, <3>7, <3>8, <3>9, DoScheduleKeeps
    <3>12. \A u \in Thread : status'[u] = "blocked" <=> status[u] = "blocked" /\ u # n
      BY <2>3, <3>1, <3>11
    <3> QED BY <3>11, <3>12 DEF n
  <2> QED BY <2>2, <2>4, <2>5
<1> QED BY <1>3, <1>4

(* sema_up moves the pc and the argument of the thread that runs at most. *)
LEMMA SemaUpKeeps ==
  ASSUME ElemInv, SynchTypeInv', NEW s \in Semaphore, NEW inInterrupt, sema_up(s, inInterrupt),
         \A u \in Thread : u # current => pc'[u] = pc[u] /\ obj'[u] = obj[u],
         \A u \in Thread : pc'[u] = "unblock_child" <=> pc[u] = "unblock_child"
  PROVE  ElemInv'
<1>1. UNCHANGED <<endTick, block_list, child>>
  BY DEF sema_up, timerVars
<1>2. \A u \in Waiting : u \in Thread /\ u # current
  BY RunnerFree DEF Waiting
<1>3. PICK W : W = Waiting
  OBVIOUS
<1>4. CASE waiters[s] = <<>>
  <2>1. UNCHANGED <<current, status, ready_list, destruction_req>> /\ waiters' = waiters
    BY <1>4 DEF sema_up, cpuVars
  <2>2. CpuInv'
    BY <2>1 DEF ElemInv, CpuInv, Placed
  <2>3. Waiting' = W /\ WaitersInv'
    BY <1>2, <1>3, <2>1, WaitersFrame
  <2>4. BlockedInv(W)
    BY <1>3 DEF ElemInv
  <2>5. BlockedInv(W)'
    BY <1>1, <2>1, <2>4, ElemInvTypes, BlockedFrame
  <2>6. BlockedInv(Waiting)'
    BY <2>3, <2>5 DEF BlockedInv
  <2> QED BY <2>2, <2>3, <2>6 DEF ElemInv
<1>5. CASE waiters[s] # <<>>
  <2> DEFINE k == list_max(waiters[s], priority)
  <2> DEFINE n == waiters[s][k]
  <2>1. WakeWaiter(s, inInterrupt)
    BY <1>5 DEF sema_up
  <2>2. /\ waiters'[s] = RemoveAt(waiters[s], k)
        /\ \A r \in Semaphore : r # s => waiters'[r] = waiters[r]
    BY <2>1, ElemInvTypes DEF WakeWaiter
  <2>3. /\ CpuInv'
        /\ \A u \in Thread : status'[u] = "blocked" <=> status[u] = "blocked" /\ u # n
    BY <1>5, <2>1, WakeCpu
  <2>4. /\ n \in Thread /\ WaitsFor(n, s) /\ status[n] = "blocked"
        /\ Range(waiters'[s]) = Range(waiters[s]) \ {n} /\ IsInjective(waiters'[s])
    BY <1>5, <2>2, WokenWaiter
  <2> HIDE DEF n
  <2>5. ASSUME NEW u \in Thread, NEW r \in Semaphore
        PROVE  WaitsFor(u, r)' <=> WaitsFor(u, r) /\ u # n
    <3>1. CASE r = s
      BY <2>4, <3>1 DEF WaitsFor
    <3>2. CASE r # s
      <4>1. WaitsFor(u, r)' <=> WaitsFor(u, r)
        BY <2>2, <3>2 DEF WaitsFor
      <4>2. WaitsFor(u, r) => u # n
        BY <2>4, <3>2 DEF ElemInv, WaitersInv
      <4> QED BY <4>1, <4>2
    <3> QED BY <3>1, <3>2
  <2>6. \A u \in Thread : u \in Waiting' <=> u \in Waiting /\ u # n
    BY <2>5 DEF Waiting
  <2>7. WaitersInv'
    <3>1. \A r \in Semaphore : IsInjective(waiters'[r])
      BY <2>2, <2>4 DEF ElemInv, WaitersInv
    <3>2. ASSUME NEW u \in Thread, NEW r \in Semaphore, WaitsFor(u, r)'
          PROVE  pc'[u] = "retry" /\ obj'[u] = r
      <4>1. WaitsFor(u, r) /\ u \in Waiting
        BY <2>5, <3>2 DEF Waiting
      <4>2. pc'[u] = pc[u] /\ obj'[u] = obj[u]
        BY <1>2, <4>1
      <4> QED BY <4>1, <4>2 DEF ElemInv, WaitersInv
    <3> QED BY <3>1, <3>2 DEF WaitersInv
  <2>8. /\ \A u \in Thread : BeingCreated(u)' <=> BeingCreated(u)
        /\ UniqueCreator'
    BY <1>1 DEF BeingCreated, ElemInv, BlockedInv, UniqueCreator
  <2>9. n \in Waiting
    BY <2>4 DEF Waiting
  <2>10. BlockedInv(Waiting)'
    BY <1>1, <2>3, <2>4, <2>6, <2>8, <2>9 DEF ElemInv, BlockedInv, Ascending
  <2> QED BY <2>3, <2>7, <2>10 DEF ElemInv
<1> QED BY <1>4, <1>5

(* The three that call sema_up; the fault of the first leaves all as it is. *)
LEMMA UpKeeps ==
  ASSUME ElemInv, SynchTypeInv',
         \/ \E t \in Thread, s \in Sema : SemaUp(t, s)
         \/ \E t \in Thread : ReleaseUp(t)
         \/ Device
  PROVE  ElemInv'
<1>1. ASSUME NEW t \in Thread, NEW s \in Sema, SemaUp(t, s) PROVE ElemInv'
  <2>1. pc' = pc /\ obj' = obj /\ s \in Semaphore
    BY <1>1 DEF SemaUp, localVars, Semaphore
  <2>2. CASE WalksFreedDonor(s)
    <3>1. /\ current = t /\ pc[t] # "unblock_child"
          /\ UNCHANGED <<cpuVars, endTick, block_list, child, waiters>>
      BY <1>1, <2>2 DEF SemaUp, Calls, At, Runs, timerVars, objectVars
    <3> QED BY <2>1, <3>1, LocalKeeps
  <2>3. CASE ~WalksFreedDonor(s)
    <3>1. sema_up(s, FALSE)
      BY <1>1, <2>3 DEF SemaUp
    <3> QED BY <2>1, <3>1, SemaUpKeeps
  <2> QED BY <2>2, <2>3
<1>2. ASSUME NEW t \in Thread, ReleaseUp(t) PROVE ElemInv'
  <2>1. current = t /\ pc[t] = "release" /\ obj[t] \in Semaphore
    BY <1>2 DEF ReleaseUp, At, Runs, ElemInv, SynchTypeInv, LocalsKnown, Semaphore
  <2>2. CASE Panic("freed donor")
    BY <2>2, PanicKeeps
  <2>3. CASE /\ sema_up(obj[t], FALSE)
             /\ obj' = [obj EXCEPT ![t] = None]
             /\ Goto(t, "run")
    <3>1. /\ \A u \in Thread : u # t => pc'[u] = pc[u] /\ obj'[u] = obj[u]
          /\ pc'[t] = "run"
      BY <2>3, ElemInvTypes DEF Goto
    <3>2. \A u \in Thread : pc'[u] = "unblock_child" <=> pc[u] = "unblock_child"
      BY <2>1, <3>1
    <3> QED BY <2>1, <2>3, <3>1, <3>2, SemaUpKeeps
  <2> QED BY <1>2, <2>2, <2>3 DEF ReleaseUp
<1>3. ASSUME NEW s \in Sema, InterruptUp(s) PROVE ElemInv'
  <2>1. CASE Panic("freed donor")
    BY <2>1, PanicKeeps
  <2>2. CASE sema_up(s, TRUE) /\ UNCHANGED <<pc, obj, ops>>
    BY <2>2, SemaUpKeeps DEF Semaphore
  <2> QED BY <1>3, <2>1, <2>2 DEF InterruptUp
<1> QED BY <1>1, <1>2, <1>3 DEF Device

-----------------------------------------------------------------------------
(* The other operations move the pc of the thread that runs. *)

Walks(t) ==
  /\ current = t /\ pc[t] \notin {"unblock_child", "retry"}
  /\ UNCHANGED <<cpuVars, endTick, block_list, child, waiters>>
  /\ value' = value \/ \E l \in Lock : value' = [value EXCEPT ![l] = @ - 1]
  /\ \E label \in SynchLabel \ {"unblock_child"} : Goto(t, label)
  /\ obj' = obj \/ \E s : obj' = [obj EXCEPT ![t] = s]

LEMMA WalkKeeps ==
  ASSUME ElemInv, SynchTypeInv', NEW t \in Thread, Walks(t)
  PROVE  ElemInv'
<1>1. pc'[t] # "unblock_child" /\ \A u \in Thread : u # t => pc'[u] = pc[u]
  BY ElemInvTypes DEF Walks, Goto
<1>2. \A u \in Thread : u # t => obj'[u] = obj[u]
  BY ElemInvTypes DEF Walks
<1> QED BY <1>1, <1>2, LocalKeeps DEF Walks

LEMMA LockStepWalks ==
  ASSUME NEW t \in Thread, pc \in [Thread -> SynchLabel], LockStep(t), ~ReleaseUp(t)
  PROVE  Walks(t) \/ \E why : Panic(why)
<1> USE DEF Walks, At, Calls, Runs, Local, Goto, timerVars, objectVars, donorVars, localVars,
            SynchLabel, ThreadLabel
<1>1. ASSUME NEW l \in Lock, LockAcquire(t, l) PROVE Walks(t)
  BY <1>1 DEF LockAcquire, EnterAcquire
<1>2. ASSUME NEW l \in Lock, LockTryAcquire(t, l) PROVE Walks(t)
  <2>1. CASE value[l] > 0
    BY <1>2, <2>1 DEF LockTryAcquire
  <2>2. CASE ~(value[l] > 0)
    <3>1. pc' = [pc EXCEPT ![t] = "run"]
      BY <1>2, <2>2 DEF LockTryAcquire
    <3> QED BY <1>2, <2>2, <3>1 DEF LockTryAcquire
  <2> QED BY <2>1, <2>2
<1>3. ASSUME NEW l \in Lock, LockRelease(t, l) PROVE Walks(t)
  BY <1>3 DEF LockRelease
<1>4. ASSUME TestHolder(t) PROVE Walks(t)
  BY <1>4 DEF TestHolder
<1>5. ASSUME ComparePriority(t) PROVE Walks(t) \/ \E why : Panic(why)
  BY <1>5 DEF ComparePriority
<1>6. ASSUME PushDonation(t) PROVE Walks(t) \/ \E why : Panic(why)
  BY <1>6 DEF PushDonation
<1>7. ASSUME DonateStart(t) PROVE Walks(t)
  BY <1>7 DEF DonateStart, FollowTo
<1>8. ASSUME DonateSet(t) PROVE Walks(t) \/ \E why : Panic(why)
  BY <1>8 DEF DonateSet
<1>9. ASSUME DonateTest(t) PROVE Walks(t) \/ \E why : Panic(why)
  BY <1>9 DEF DonateTest
<1>10. ASSUME DonateNext(t) PROVE Walks(t) \/ \E why : Panic(why)
  BY <1>10 DEF DonateNext, FollowTo
<1>11. ASSUME SetHolder(t) PROVE Walks(t)
  BY <1>11 DEF SetHolder
<1> HIDE DEF Walks
<1> QED BY <1>1, <1>2, <1>3, <1>4, <1>5, <1>6, <1>7, <1>8, <1>9, <1>10, <1>11 DEF LockStep

LEMMA PriorityStepWalks ==
  ASSUME NEW t \in Thread,
         \/ \E s \in Sema : SemaDownCall(t, s)
         \/ PriorityStep(t) /\ ~SetYield(t)
  PROVE  Walks(t)
<1> USE DEF Walks, At, Calls, Runs, Local, Goto, timerVars, objectVars, donorVars, localVars,
            SynchLabel, ThreadLabel
<1>1. ASSUME NEW s \in Sema, SemaDownCall(t, s) PROVE Walks(t)
  BY <1>1 DEF SemaDownCall, EnterDown
<1>2. ASSUME NEW p, SetOrigin(t, p) PROVE Walks(t)
  BY <1>2 DEF SetOrigin
<1>3. ASSUME SetOwnPriority(t) PROVE Walks(t)
  BY <1>3 DEF SetOwnPriority
<1>4. ASSUME SetDonatedPriority(t) PROVE Walks(t)
  BY <1>4 DEF SetDonatedPriority
<1> HIDE DEF Walks
<1> QED BY <1>1, <1>2, <1>3, <1>4 DEF PriorityStep

LEMMA ElemStep ==
  ASSUME ElemInv, [SynchNext]_vars
  PROVE  ElemInv'
<1>1. SynchTypeInv'
  BY SynchStepTypeInv DEF ElemInv
<1>2. ASSUME NEW t \in Thread, SynchThreadStep(t) PROVE ElemInv'
  <2>1. CASE LockStep(t)
    <3>1. CASE ReleaseUp(t)
      BY <1>1, <3>1, UpKeeps
    <3>2. CASE ~ReleaseUp(t)
      BY <1>1, <2>1, <3>2, ElemInvTypes, LockStepWalks, WalkKeeps, PanicKeeps
    <3> QED BY <3>1, <3>2
  <2>2. CASE SemaStep(t)
    BY <1>1, <2>2, ElemInvTypes, UpKeeps, SemaDownKeeps, PriorityStepWalks, WalkKeeps DEF SemaStep
  <2>3. CASE PriorityStep(t)
    BY <1>1, <2>3, ElemInvTypes, SetYieldKeeps, PriorityStepWalks, WalkKeeps
  <2>4. CASE \/ \E c \in Thread, p \in Priority : Create(t, c, p)
             \/ Schedules(t)
             \/ Exit(t)
    BY <1>1, <2>4, ScheduleStepKeeps
  <2> QED BY <1>2, <2>1, <2>2, <2>3, <2>4 DEF SynchThreadStep
<1>3. CASE Timer \/ Idling \/ UNCHANGED vars
  BY <1>1, <1>3, BackgroundKeeps
<1>4. CASE Device
  BY <1>1, <1>4, UpKeeps
<1> QED BY <1>2, <1>3, <1>4 DEF SynchNext

LEMMA ElemInvHolds == SynchSpec => []ElemInv
<1>1. ElemInv /\ [SynchNext]_vars => ElemInv'
  BY ElemStep
<1> QED BY <1>1, InitElemInv, PTL DEF SynchSpec

(* The one elem of a thread is never in two lists, with any number of      *)
(* semaphores whose waiters it may be among.                               *)
THEOREM SynchElemIsExclusive == SynchSpec => []SynchElemExclusive
<1>1. ElemInv => SynchElemExclusive
  BY ElemInvExclusive
<1> QED BY <1>1, ElemInvHolds, PTL

-----------------------------------------------------------------------------
(* Whom sema_up wakes. *)

Blocks == \E t \in Thread : obj[t] \in Semaphore
            /\ waiters' = [waiters EXCEPT ![obj[t]] = Append(@, t)]
Wakes == \E s \in Semaphore : waiters[s] # <<>>
            /\ waiters' = [waiters EXCEPT ![s] = RemoveAt(@, list_max(waiters[s], priority))]

LEMMA UpWakes ==
  ASSUME NEW s \in Semaphore, NEW inInterrupt, sema_up(s, inInterrupt)
  PROVE  waiters' = waiters \/ Wakes
BY DEF sema_up, WakeWaiter, Wakes

(* Only sema_down and sema_up touch the waiters. *)
LEMMA WaitersChange ==
  ASSUME ElemInv, SynchNext
  PROVE  waiters' = waiters \/ Blocks \/ Wakes
<1>1. ASSUME NEW why, Panic(why) PROVE waiters' = waiters
  BY <1>1 DEF Panic, objectVars
<1>2. ASSUME NEW t \in Thread, SynchThreadStep(t) PROVE waiters' = waiters \/ Blocks \/ Wakes
  <2>1. CASE LockStep(t) /\ ~ReleaseUp(t)
    BY <1>1, <2>1, ElemInvTypes, LockStepWalks DEF Walks
  <2>2. CASE ReleaseUp(t)
    <3>1. obj[t] \in Semaphore
      BY <2>2 DEF ReleaseUp, At, ElemInv, SynchTypeInv, LocalsKnown, Semaphore
    <3> QED BY <1>1, <2>2, <3>1, UpWakes DEF ReleaseUp
  <2>3. ASSUME NEW s \in Sema, SemaUp(t, s) PROVE waiters' = waiters \/ Wakes
    BY <2>3, UpWakes DEF SemaUp, objectVars, Semaphore
  <2>4. CASE SemaDown(t)
    <3>1. obj[t] \in Semaphore
      BY <2>4 DEF SemaDown, ElemInv, SynchTypeInv, LocalsKnown
    <3> QED BY <2>4, <3>1 DEF SemaDown, Blocks
  <2>5. CASE \E s \in Sema : SemaDownCall(t, s)
    BY <2>5, ElemInvTypes, PriorityStepWalks DEF Walks
  <2>6. CASE PriorityStep(t)
    <3>1. CASE SetYield(t)
      BY <3>1 DEF SetYield, synchVars, objectVars
    <3> QED BY <2>6, <3>1, ElemInvTypes, PriorityStepWalks DEF Walks
  <2>7. CASE \/ \E c \in Thread, p \in Priority : Create(t, c, p)
             \/ Schedules(t)
             \/ Exit(t)
    BY <2>7 DEF Create, Schedules, Exit, synchVars, objectVars
  <2> QED BY <1>2, <2>1, <2>2, <2>3, <2>4, <2>5, <2>6, <2>7 DEF SynchThreadStep, SemaStep
<1>3. CASE Timer \/ Idling
  BY <1>3 DEF Timer, Idling, synchVars, objectVars
<1>4. ASSUME NEW s \in Sema, InterruptUp(s) PROVE waiters' = waiters \/ Wakes
  BY <1>1, <1>4, UpWakes DEF InterruptUp, Semaphore
<1> QED BY <1>2, <1>3, <1>4 DEF SynchNext, Device

LEMMA HighestStep ==
  ASSUME ElemInv, SynchNext, NEW s \in Semaphore,
         NEW t \in Range(waiters[s]), t \notin Range(waiters'[s]),
         NEW u \in Range(waiters'[s])
  PROVE  priority[u] <= priority[t]
<1>1. waiters'[s] # waiters[s]
  OBVIOUS
<1>2. CASE Blocks
  <2>1. PICK b \in Thread : waiters' = [waiters EXCEPT ![obj[b]] = Append(@, b)]
    BY <1>2 DEF Blocks
  <2>2. waiters[s] \in Seq(Thread) /\ waiters'[s] = Append(waiters[s], b)
    BY <1>1, <2>1, ElemInvTypes
  <2>3. PICK i \in 1..Len(waiters[s]) : waiters[s][i] = t
    BY DEF Range
  <2>4. i \in DOMAIN waiters'[s] /\ waiters'[s][i] = t
    BY <2>2, <2>3
  <2> QED BY <2>4 DEF Range
<1>3. CASE Wakes
  <2>1. PICK r \in Semaphore :
          /\ waiters[r] # <<>>
          /\ waiters' = [waiters EXCEPT ![r] = RemoveAt(@, list_max(waiters[r], priority))]
    BY <1>3 DEF Wakes
  <2> DEFINE k == list_max(waiters[s], priority)
  <2> DEFINE n == waiters[s][k]
  <2>2. waiters[s] # <<>> /\ waiters'[s] = RemoveAt(waiters[s], k)
    BY <1>1, <2>1, ElemInvTypes
  <2>3. /\ Range(waiters'[s]) = Range(waiters[s]) \ {n}
        /\ \A w \in Range(waiters[s]) : priority[w] <= priority[n]
    BY <2>2, WokenWaiter
  <2> QED BY <2>3
<1> QED BY <1>1, <1>2, <1>3, WaitersChange

(* sema_up wakes a waiter of the highest priority, and no other leaves the *)
(* list: the maximum is looked for when the semaphore is raised, so that a *)
(* donation made while the waiter was in the list counts.                  *)
THEOREM SynchHighestWaiterWoken == SynchSpec => HighestWaiterWoken
<1>1. ElemInv /\ [SynchNext]_vars =>
        [\A s \in Semaphore : \A t \in Range(waiters[s]) :
           t \notin Range(waiters'[s]) =>
             \A u \in Range(waiters'[s]) : priority[u] <= priority[t]]_vars
  BY HighestStep
<1> QED BY <1>1, ElemInvHolds, PTL DEF SynchSpec, HighestWaiterWoken

-----------------------------------------------------------------------------
(* No wake-up is lost.  The woken have left the list of s and will test it *)
(* again; a permit enters with one of them and leaves with one at most.    *)

Woken(s) == {t \in Thread : pc[t] = "retry" /\ obj[t] = s /\ ~WaitsFor(t, s)}
Covered(s) == waiters[s] # <<>> => value[s] <= Cardinality(Woken(s))

LEMMA WokenSize ==
  ASSUME NEW s
  PROVE  IsFiniteSet(Woken(s)) /\ Cardinality(Woken(s)) \in Nat
<1>1. Woken(s) \in SUBSET Thread
  BY DEF Woken
<1>2. IsFiniteSet(Woken(s))
  BY <1>1, FiniteThreads, FS_Subset
<1> QED BY <1>2, FS_CardinalityType

LEMMA WokenSizeNext ==
  ASSUME NEW s
  PROVE  IsFiniteSet(Woken(s)') /\ Cardinality(Woken(s)') \in Nat
<1>1. Woken(s)' \in SUBSET Thread
  BY DEF Woken
<1>2. IsFiniteSet(Woken(s)')
  BY <1>1, FiniteThreads, FS_Subset
<1> QED BY <1>2, FS_CardinalityType

(* What a step may do to the permits of s and to those who will test it. *)
Quiet(s) ==
  /\ waiters'[s] = waiters[s] /\ value'[s] <= value[s]
  /\ Woken(s) \subseteq Woken(s)'
TakenFrom(s) == \E t \in Thread :
  /\ waiters'[s] = waiters[s] /\ value'[s] = value[s] - 1
  /\ Woken(s) \ {t} \subseteq Woken(s)'
GivenTo(s) == \E n \in Thread \ Woken(s) :
  /\ waiters[s] # <<>> /\ value'[s] = value[s] + 1
  /\ Woken(s) \cup {n} \subseteq Woken(s)'
Accounted(s) ==
  Quiet(s) \/ TakenFrom(s) \/ GivenTo(s) \/ waiters'[s] = <<>> \/ value'[s] = 0

LEMMA AccountedCovers ==
  ASSUME NEW s, value[s] \in Nat, value'[s] \in Nat, Covered(s), Accounted(s)
  PROVE  Covered(s)'
<1> SUFFICES ASSUME waiters'[s] # <<>> PROVE value'[s] <= Cardinality(Woken(s)')
  BY DEF Covered
<1>1. IsFiniteSet(Woken(s)) /\ Cardinality(Woken(s)) \in Nat
  BY WokenSize
<1>2. IsFiniteSet(Woken(s)') /\ Cardinality(Woken(s)') \in Nat
  BY WokenSizeNext
<1>3. \A T : T \subseteq Woken(s)' => IsFiniteSet(T) /\ Cardinality(T) <= Cardinality(Woken(s)')
  BY <1>2, FS_Subset
<1>4. CASE Quiet(s)
  <2>1. Cardinality(Woken(s)) <= Cardinality(Woken(s)')
    BY <1>3, <1>4 DEF Quiet
  <2>2. value[s] <= Cardinality(Woken(s)) /\ value'[s] <= value[s]
    BY <1>4 DEF Quiet, Covered
  <2> QED BY <1>1, <1>2, <2>1, <2>2
<1>5. CASE TakenFrom(s)
  <2>1. PICK t \in Thread : /\ waiters'[s] = waiters[s] /\ value'[s] = value[s] - 1
                            /\ Woken(s) \ {t} \subseteq Woken(s)'
    BY <1>5 DEF TakenFrom
  <2>2. Cardinality(Woken(s) \ {t}) <= Cardinality(Woken(s)')
    BY <1>3, <2>1
  <2>3. Cardinality(Woken(s) \ {t})
          = IF t \in Woken(s) THEN Cardinality(Woken(s)) - 1 ELSE Cardinality(Woken(s))
    BY <1>1, FS_RemoveElement
  <2>4. value[s] <= Cardinality(Woken(s))
    BY <2>1 DEF Covered
  <2> QED BY <1>1, <1>2, <2>1, <2>2, <2>3, <2>4
<1>6. CASE GivenTo(s)
  <2>1. PICK n \in Thread \ Woken(s) :
          /\ waiters[s] # <<>> /\ value'[s] = value[s] + 1
          /\ Woken(s) \cup {n} \subseteq Woken(s)'
    BY <1>6 DEF GivenTo
  <2>2. Cardinality(Woken(s) \cup {n}) <= Cardinality(Woken(s)')
    BY <1>3, <2>1
  <2>3. Cardinality(Woken(s) \cup {n}) = Cardinality(Woken(s)) + 1
    BY <1>1, <2>1, FS_AddElement
  <2>4. value[s] <= Cardinality(Woken(s))
    BY <2>1 DEF Covered
  <2> QED BY <1>1, <1>2, <2>1, <2>2, <2>3, <2>4
<1>7. CASE value'[s] = 0
  BY <1>2, <1>7
<1> QED BY <1>4, <1>5, <1>6, <1>7 DEF Accounted

(* Steps that neither wake nor block, and take at most a permit of a lock  *)
(* that is free: only the running thread moves, and it was not waiting.    *)
LEMMA UnchangedQuiet ==
  ASSUME waiters' = waiters,
         \A u \in Thread : pc[u] = "retry" => pc'[u] = "retry" /\ obj'[u] = obj[u],
         NEW s \in Semaphore, value'[s] <= value[s]
  PROVE  Quiet(s)
BY DEF Quiet, Woken, WaitsFor

LEMMA WalkAccounts ==
  ASSUME ElemInv, NEW t \in Thread, Walks(t), NEW s \in Semaphore
  PROVE  Quiet(s)
<1>1. \A u \in Thread : pc[u] = "retry" => pc'[u] = "retry" /\ obj'[u] = obj[u]
  BY ElemInvTypes DEF Walks, Goto
<1>2. value'[s] <= value[s]
  <2>1. value[s] \in Nat /\ (value'[s] = value[s] \/ value'[s] = value[s] - 1)
    BY ElemInvTypes DEF Walks
  <2> QED BY <2>1
<1> QED BY <1>1, <1>2, UnchangedQuiet DEF Walks

LEMMA SchedulerAccounts ==
  ASSUME ElemInv, NEW s \in Semaphore,
         \/ \E t \in Thread : \/ \E c \in Thread, p \in Priority : Create(t, c, p)
                              \/ Schedules(t) \/ Exit(t) \/ SetYield(t)
         \/ Timer \/ Idling \/ \E why : Panic(why)
  PROVE  Quiet(s)
<1>1. UNCHANGED <<waiters, obj, value>>
  BY DEF Create, Schedules, Exit, SetYield, Timer, Idling, Panic, synchVars, objectVars, localVars
<1>2. \A u \in Thread : pc[u] = "retry" => pc'[u] = "retry"
  <2>1. \/ pc' = pc
        \/ \E t \in Thread : pc[t] # "retry" /\ \E label : pc' = [pc EXCEPT ![t] = label]
    <3>1. ASSUME NEW t \in Thread, NEW c \in Thread, NEW p, Create(t, c, p)
          PROVE  pc[t] # "retry" /\ \E label : pc' = [pc EXCEPT ![t] = label]
      BY <3>1 DEF Create, CreateThread, Calls, At, Goto
    <3>2. ASSUME NEW t \in Thread, Schedules(t)
          PROVE  pc' = pc \/ (pc[t] # "retry" /\ \E label : pc' = [pc EXCEPT ![t] = label])
      BY <3>2 DEF Schedules, CreateUnblock, CreatePreempt, YieldCPU, TimerSleep,
         insert_blockList, Calls, At, Goto
    <3>3. ASSUME NEW t \in Thread, Exit(t) \/ SetYield(t)
          PROVE  pc' = pc \/ (pc[t] # "retry" /\ \E label : pc' = [pc EXCEPT ![t] = label])
      BY <3>3 DEF Exit, ThreadExit, SetYield, At, Goto
    <3>4. CASE Timer \/ Idling \/ \E why : Panic(why)
      BY <3>4 DEF Timer, Idling, Interrupt, TimerInterrupt, wake_up, IntrReturn, idle,
         Panic, threadVars
    <3> QED BY <3>1, <3>2, <3>3, <3>4
  <2> QED BY <2>1, ElemInvTypes
<1>3. value'[s] <= value[s]
  BY <1>1, ElemInvTypes
<1> QED BY <1>1, <1>2, <1>3, UnchangedQuiet

LEMMA DownAccounts ==
  ASSUME ElemInv, NEW t \in Thread, SemaDown(t), NEW s \in Semaphore
  PROVE  Accounted(s)
<1>1. obj[t] \in Semaphore
  BY DEF SemaDown, ElemInv, SynchTypeInv, LocalsKnown
<1>2. CASE ~MustWait(t, obj[t])
  <2>1. /\ waiters' = waiters /\ value' = [value EXCEPT ![obj[t]] = @ - 1]
        /\ \A u \in Thread : u # t => pc'[u] = pc[u] /\ obj'[u] = obj[u]
    BY <1>2, ElemInvTypes DEF SemaDown, Goto
  <2>2. CASE s = obj[t]
    <3>1. value'[s] = value[s] - 1
      BY <2>1, <2>2, ElemInvTypes
    <3>2. Woken(s) \ {t} \subseteq Woken(s)'
      BY <2>1 DEF Woken, WaitsFor
    <3> QED BY <2>1, <3>1, <3>2 DEF Accounted, TakenFrom
  <2>3. CASE s # obj[t]
    <3>1. value'[s] = value[s] /\ value[s] \in Nat
      BY <2>1, <2>3, ElemInvTypes
    <3>2. Woken(s) \subseteq Woken(s)'
      BY <2>1, <2>3 DEF Woken, WaitsFor
    <3> QED BY <2>1, <3>1, <3>2 DEF Accounted, Quiet
  <2> QED BY <2>2, <2>3
<1>3. CASE MustWait(t, obj[t])
  <2>1. /\ waiters' = [waiters EXCEPT ![obj[t]] = Append(@, t)] /\ value' = value
        /\ pc' = [pc EXCEPT ![t] = "retry"] /\ obj' = obj
    BY <1>3 DEF SemaDown, Goto
  <2>2. CASE s = obj[t]
    BY <1>3, <2>1, <2>2 DEF MustWait, Accounted
  <2>3. CASE s # obj[t]
    <3>1. value'[s] = value[s] /\ value[s] \in Nat /\ waiters'[s] = waiters[s]
      BY <2>1, <2>3, ElemInvTypes
    <3>2. Woken(s) \subseteq Woken(s)'
      BY <2>1, <2>3, <3>1, ElemInvTypes DEF Woken, WaitsFor
    <3> QED BY <3>1, <3>2 DEF Accounted, Quiet
  <2> QED BY <2>2, <2>3
<1> QED BY <1>2, <1>3

LEMMA RaiseAccounts ==
  ASSUME ElemInv, NEW r \in Semaphore, NEW inInterrupt, sema_up(r, inInterrupt),
         \A u \in Thread : pc[u] = "retry" => pc'[u] = "retry" /\ obj'[u] = obj[u],
         NEW s \in Semaphore
  PROVE  Accounted(s)
<1>1. value' = [value EXCEPT ![r] = @ + 1] /\ value \in [Semaphore -> Nat]
  BY ElemInvTypes DEF sema_up
<1>2. \A k \in Semaphore : k # r => waiters'[k] = waiters[k]
  BY ElemInvTypes DEF sema_up, WakeWaiter
<1>3. CASE s # r
  <2>1. value'[s] = value[s] /\ value[s] \in Nat /\ waiters'[s] = waiters[s]
    BY <1>1, <1>2, <1>3
  <2>2. Woken(s) \subseteq Woken(s)'
    BY <2>1 DEF Woken, WaitsFor
  <2> QED BY <2>1, <2>2 DEF Accounted, Quiet
<1>4. CASE s = r /\ waiters[s] = <<>>
  BY <1>4 DEF sema_up, Accounted
<1>5. CASE s = r /\ waiters[s] # <<>>
  <2> DEFINE k == list_max(waiters[s], priority)
  <2> DEFINE n == waiters[s][k]
  <2>1. waiters'[s] = RemoveAt(waiters[s], k)
    BY <1>5, ElemInvTypes DEF sema_up, WakeWaiter
  <2>2. /\ n \in Thread /\ WaitsFor(n, s)
        /\ Range(waiters'[s]) = Range(waiters[s]) \ {n}
    BY <1>5, <2>1, WokenWaiter
  <2> HIDE DEF n
  <2>3. pc[n] = "retry" /\ obj[n] = s
    BY <2>2 DEF ElemInv, WaitersInv
  <2>4. n \notin Woken(s) /\ n \in Woken(s)'
    BY <2>2, <2>3 DEF Woken, WaitsFor
  <2>5. Woken(s) \subseteq Woken(s)'
    BY <2>2 DEF Woken, WaitsFor
  <2>6. value'[s] = value[s] + 1
    BY <1>1, <1>5
  <2> QED BY <1>5, <2>2, <2>4, <2>5, <2>6 DEF Accounted, GivenTo
<1> QED BY <1>3, <1>4, <1>5

LEMMA UpAccounts ==
  ASSUME ElemInv, NEW s \in Semaphore,
         \/ \E t \in Thread, r \in Sema : SemaUp(t, r)
         \/ \E t \in Thread : ReleaseUp(t)
         \/ Device
  PROVE  Accounted(s)
<1>1. ASSUME NEW why, Panic(why) PROVE Accounted(s)
  BY <1>1, SchedulerAccounts DEF Accounted
<1>2. ASSUME NEW t \in Thread, NEW r \in Sema, SemaUp(t, r) PROVE Accounted(s)
  <2>1. pc' = pc /\ obj' = obj /\ r \in Semaphore
    BY <1>2 DEF SemaUp, localVars, Semaphore
  <2>2. CASE WalksFreedDonor(r)
    <3>1. waiters' = waiters /\ value' = value
      BY <1>2, <2>2 DEF SemaUp, objectVars
    <3>2. value'[s] <= value[s]
      BY <3>1, ElemInvTypes
    <3> QED BY <2>1, <3>1, <3>2, UnchangedQuiet DEF Accounted
  <2>3. CASE ~WalksFreedDonor(r)
    <3>1. sema_up(r, FALSE)
      BY <1>2, <2>3 DEF SemaUp
    <3> QED BY <2>1, <3>1, RaiseAccounts
  <2> QED BY <2>2, <2>3
<1>3. ASSUME NEW t \in Thread, ReleaseUp(t) PROVE Accounted(s)
  <2>1. pc[t] = "release" /\ obj[t] \in Semaphore
    BY <1>3 DEF ReleaseUp, At, ElemInv, SynchTypeInv, LocalsKnown, Semaphore
  <2>2. CASE /\ sema_up(obj[t], FALSE)
             /\ obj' = [obj EXCEPT ![t] = None]
             /\ Goto(t, "run")
    <3>1. \A u \in Thread : pc[u] = "retry" => pc'[u] = "retry" /\ obj'[u] = obj[u]
      BY <2>1, <2>2, ElemInvTypes DEF Goto
    <3> QED BY <2>1, <2>2, <3>1, RaiseAccounts
  <2> QED BY <1>1, <1>3, <2>2 DEF ReleaseUp
<1>4. ASSUME NEW r \in Sema, InterruptUp(r) PROVE Accounted(s)
  <2>1. CASE sema_up(r, TRUE) /\ UNCHANGED <<pc, obj, ops>>
    BY <2>1, RaiseAccounts DEF Semaphore
  <2> QED BY <1>1, <1>4, <2>1 DEF InterruptUp
<1> QED BY <1>2, <1>3, <1>4 DEF Device

LEMMA StepAccounts ==
  ASSUME ElemInv, [SynchNext]_vars, NEW s \in Semaphore
  PROVE  Accounted(s)
<1>1. ASSUME NEW t \in Thread, Walks(t) \/ \E why : Panic(why) PROVE Accounted(s)
  BY <1>1, WalkAccounts, SchedulerAccounts DEF Accounted
<1>2. ASSUME NEW t \in Thread, SynchThreadStep(t) PROVE Accounted(s)
  <2>1. CASE LockStep(t)
    <3>1. CASE ReleaseUp(t)
      BY <3>1, UpAccounts
    <3>2. CASE ~ReleaseUp(t)
      BY <1>1, <2>1, <3>2, ElemInvTypes, LockStepWalks
    <3> QED BY <3>1, <3>2
  <2>2. CASE SemaStep(t)
    BY <1>1, <2>2, UpAccounts, DownAccounts, PriorityStepWalks DEF SemaStep
  <2>3. CASE PriorityStep(t)
    <3>1. CASE SetYield(t)
      BY <3>1, SchedulerAccounts DEF Accounted
    <3> QED BY <1>1, <2>3, <3>1, PriorityStepWalks
  <2>4. CASE \/ \E c \in Thread, p \in Priority : Create(t, c, p)
             \/ Schedules(t)
             \/ Exit(t)
    BY <2>4, SchedulerAccounts DEF Accounted
  <2> QED BY <1>2, <2>1, <2>2, <2>3, <2>4 DEF SynchThreadStep
<1>3. CASE Timer \/ Idling
  BY <1>3, SchedulerAccounts DEF Accounted
<1>4. CASE Device
  BY <1>4, UpAccounts
<1>5. CASE UNCHANGED vars
  <2>1. UNCHANGED <<waiters, pc, obj, value>>
    BY <1>5 DEF vars, threadVars, synchVars, objectVars, localVars
  <2>2. value'[s] <= value[s]
    BY <2>1, ElemInvTypes
  <2> QED BY <2>1, <2>2, UnchangedQuiet DEF Accounted
<1> QED BY <1>2, <1>3, <1>4, <1>5 DEF SynchNext

LEMMA WakeupInit == SynchInit => NoLostWakeup
BY DEF SynchInit, NoLostWakeup

(* No wake-up is lost: while threads wait, each permit of the semaphore    *)
(* belongs to a thread that sema_up has woken and that tests it again.     *)
THEOREM SynchNoLostWakeup == SynchSpec => []NoLostWakeup
<1>1. ElemInv /\ ElemInv' /\ NoLostWakeup /\ [SynchNext]_vars => NoLostWakeup'
  <2> SUFFICES ASSUME ElemInv, ElemInv', NoLostWakeup, [SynchNext]_vars
               PROVE  NoLostWakeup'
    OBVIOUS
  <2>1. ASSUME NEW s \in Semaphore PROVE Covered(s)'
    <3>1. value[s] \in Nat
      BY ElemInvTypes
    <3>2. value'[s] \in Nat
      BY DEF ElemInv, SynchTypeInv, LockTypeOK
    <3>3. Covered(s)
      BY DEF NoLostWakeup, Covered, Woken
    <3> QED BY <3>1, <3>2, <3>3, StepAccounts, AccountedCovers
  <2> QED BY <2>1 DEF NoLostWakeup, Covered, Woken
<1> QED BY <1>1, WakeupInit, ElemInvHolds, PTL DEF SynchSpec

-----------------------------------------------------------------------------
(* Threads never all wait for each other.  A thread asks for a lock that   *)
(* ranks above all it holds, and one that holds a lock or is inside a call *)
(* is neither dead nor still being created: so the owner of the highest    *)
(* lock that is waited for waits for no lock.                              *)

Live == {"running", "ready", "blocked"}

OwesNothing(t) == pc[t] = "run" /\ Holds(t) = {}

(* t is on its way to the permit of a lock. *)
Asking(t) == pc[t] \in InLockAcquire \cup {"down", "retry"} /\ obj[t] \in Lock
InOrder(t) == Asking(t) => \A k \in Holds(t) : Rank[k] < Rank[obj[t]]

OrderInv ==
  \A t \in Thread :
    /\ status[t] \in Live \/ OwesNothing(t)
    /\ BeingCreated(t) => OwesNothing(t)
    /\ InOrder(t)

NoLockDeadlock ==
  (\E t \in Thread, l \in Lock : WaitsFor(t, l)) =>
    \E u \in Thread : \/ status[u] \in {"running", "ready"}
                      \/ u \in Range(block_list)
                      \/ \E s \in Sema : WaitsFor(u, s)

LEMMA InitOrderInv == SynchInit => OrderInv
<1> SUFFICES ASSUME SynchInit PROVE OrderInv
  OBVIOUS
<1>1. \A t \in Thread : pc[t] = "run" /\ holder \in [Lock -> {None}]
  BY DEF SynchInit, Init
<1>2. \A t \in Thread : OwesNothing(t)
  BY <1>1, ThreadsAssumption DEF OwesNothing, Holds
<1> QED BY <1>1, <1>2 DEF OrderInv, InOrder, Asking, InLockAcquire

(* What the scheduler does to the statuses: nobody dies but the thread     *)
(* that exits.                                                             *)
StatusLives == \A u \in Thread : status[u] \in Live => status'[u] \in Live

LEMMA ScheduleLives ==
  ASSUME NEW st, NEW q, schedule(st, q), NEW u \in Thread, st[u] \in Live
  PROVE  status'[u] \in Live
BY DEF schedule, Live

LEMMA DoScheduleLives ==
  ASSUME CpuInv, destruction_req \in SUBSET Thread, NEW t, NEW s, NEW st, NEW q,
         do_schedule(t, s, st, q), NEW u \in Thread,
         status[u] \in Live, st[u] \in Live, u = t => s \in Live
  PROVE  status'[u] \in Live
<1> DEFINE left == [v \in Thread |-> IF v = t THEN s
                                     ELSE IF v \in destruction_req THEN "freed"
                                     ELSE st[v]]
<1>1. schedule(left, q)
  BY DEF do_schedule
<1>2. u \notin destruction_req
  BY DEF CpuInv, Live
<1>3. left[u] \in Live
  BY <1>2
<1> HIDE DEF left
<1> QED BY <1>1, <1>3, ScheduleLives

LEMMA YieldLives ==
  ASSUME CpuInv, destruction_req \in SUBSET Thread, NEW t, thread_yield(t)
  PROVE  StatusLives
BY DoScheduleLives DEF thread_yield, StatusLives, Live

LEMMA UnblockLives ==
  ASSUME status \in [Thread -> Status], NEW t, thread_unblock(t)
  PROVE  StatusLives
BY DEF thread_unblock, StatusLives, Live

LEMMA SemaUpLives ==
  ASSUME ElemInv, NEW s, NEW inInterrupt, sema_up(s, inInterrupt)
  PROVE  StatusLives
<1>1. /\ CpuInv /\ destruction_req \in SUBSET Thread /\ status \in [Thread -> Status]
  BY ElemInvTypes DEF ElemInv
<1>2. CASE waiters[s] = <<>>
  BY <1>2 DEF sema_up, cpuVars, StatusLives
<1>3. CASE WakeWaiter(s, inInterrupt)
  <2> DEFINE n == waiters[s][list_max(waiters[s], priority)]
  <2> DEFINE woken == [status EXCEPT ![n] = "ready"]
  <2>1. \A u \in Thread : status[u] \in Live => woken[u] \in Live
    BY <1>1 DEF Live
  <2>2. \/ thread_unblock(n) \/ status' = woken
        \/ \E q : do_schedule(current, "ready", woken, q)
    BY <1>3 DEF WakeWaiter
  <2> HIDE DEF n, woken
  <2>3. CASE thread_unblock(n)
    BY <1>1, <2>3, UnblockLives
  <2>4. CASE status' = woken
    BY <2>1, <2>4 DEF StatusLives
  <2>5. ASSUME NEW q, do_schedule(current, "ready", woken, q) PROVE StatusLives
    BY <1>1, <2>1, <2>5, DoScheduleLives DEF StatusLives, Live
  <2> QED BY <2>2, <2>3, <2>4, <2>5
<1> QED BY <1>2, <1>3 DEF sema_up

LEMMA InterruptLives ==
  ASSUME ElemInv, Interrupt \/ idle
  PROVE  StatusLives
<1>1. /\ CpuInv /\ destruction_req \in SUBSET Thread /\ status \in [Thread -> Status]
  BY ElemInvTypes DEF ElemInv
<1>2. CASE TimerInterrupt
  BY <1>2 DEF TimerInterrupt, StatusLives
<1>3. CASE wake_up
  BY <1>1, <1>3, UnblockLives DEF wake_up
<1>4. CASE IntrReturn
  BY <1>1, <1>4, YieldLives DEF IntrReturn, StatusLives, cpuVars
<1>5. CASE idle
  BY <1>5, ScheduleLives DEF idle, StatusLives
<1> QED BY <1>2, <1>3, <1>4, <1>5 DEF Interrupt

(* A step moves only the thread that runs, creates from unused pages and   *)
(* ends only a thread that owes nothing.                                   *)
LEMMA OrderFrame ==
  ASSUME ElemInv, OrderInv,
         \A u \in Thread : u # current =>
           pc'[u] = pc[u] /\ obj'[u] = obj[u] /\ Holds(u)' = Holds(u),
         \A u \in Thread : status[u] \in Live => status'[u] \in Live \/ OwesNothing(u)',
         \A u \in Thread : BeingCreated(u)' => BeingCreated(u) \/ status[u] = "none",
         \A u \in Thread : u = current => InOrder(u)'
  PROVE  OrderInv'
<1>1. ASSUME NEW u \in Thread, u # current
      PROVE  /\ status'[u] \in Live \/ OwesNothing(u)'
             /\ BeingCreated(u)' => OwesNothing(u)'
             /\ InOrder(u)'
  <2>1. OwesNothing(u)' <=> OwesNothing(u)
    BY <1>1 DEF OwesNothing
  <2>2. InOrder(u)' <=> InOrder(u)
    BY <1>1 DEF InOrder, Asking
  <2>3. status[u] = "none" => OwesNothing(u)
    BY DEF OrderInv, Live
  <2> QED BY <2>1, <2>2, <2>3 DEF OrderInv
<1>2. ASSUME NEW u \in Thread, u = current
      PROVE  /\ status'[u] \in Live \/ OwesNothing(u)'
             /\ ~BeingCreated(u)'
             /\ InOrder(u)'
  <2>1. status[u] = "running" /\ ~BeingCreated(u)
    BY <1>2, RunnerFree
  <2> QED BY <1>2, <2>1 DEF Live
<1> QED BY <1>1, <1>2 DEF OrderInv

(* A step of the thread t that runs, by what it does to the four things    *)
(* that OrderInv speaks of.                                                *)
Moves(t) ==
  /\ current = t
  /\ \A u \in Thread : u # t => pc'[u] = pc[u] /\ obj'[u] = obj[u]

LEMMA OrderMove ==
  ASSUME ElemInv, OrderInv, NEW t \in Thread, Moves(t), holder' = holder,
         StatusLives, pc'[t] # "unblock_child" \/ pc'[t] = pc[t], child' = child,
         InOrder(t)'
  PROVE  OrderInv'
<1>1. \A u \in Thread : Holds(u)' = Holds(u)
  BY DEF Holds
<1>2. \A u \in Thread : BeingCreated(u)' => BeingCreated(u)
  BY DEF BeingCreated, Moves
<1> QED BY <1>1, <1>2, OrderFrame DEF Moves, StatusLives

(* One that neither asks for a lock nor touches the statuses.              *)
LEMMA OrderLocal ==
  ASSUME ElemInv, OrderInv, NEW t \in Thread, Moves(t), holder' = holder,
         Local, pc'[t] # "unblock_child", InOrder(t)'
  PROVE  OrderInv'
BY OrderMove DEF Local, cpuVars, StatusLives

(* Steps that leave pc, obj and holder alone. *)
LEMMA OrderStill ==
  ASSUME ElemInv, OrderInv, UNCHANGED <<pc, obj, holder, child>>, StatusLives
  PROVE  OrderInv'
<1>1. \A u \in Thread : Holds(u)' = Holds(u)
  BY DEF Holds
<1>2. \A u \in Thread : BeingCreated(u)' => BeingCreated(u)
  BY DEF BeingCreated
<1>3. \A u \in Thread : InOrder(u)' <=> InOrder(u)
  BY <1>1 DEF InOrder, Asking
<1> QED BY <1>1, <1>2, <1>3, OrderFrame DEF StatusLives, OrderInv

(* lock_acquire asks for a lock above those it holds; the steps to its     *)
(* sema_down and the loop of sema_down ask for the same one.               *)
LEMMA StillAsking ==
  ASSUME OrderInv, NEW t \in Thread, holder' = holder, obj' = obj,
         pc[t] \in InLockAcquire \cup {"down", "retry"}
  PROVE  InOrder(t)'
BY DEF OrderInv, InOrder, Asking, Holds

LEMMA NotAsking ==
  ASSUME NEW t \in Thread, pc'[t] \notin InLockAcquire \cup {"down", "retry"}
  PROVE  InOrder(t)'
BY DEF InOrder, Asking

LEMMA LockStepOrder ==
  ASSUME ElemInv, IInv, OrderInv, NEW t \in Thread, LockStep(t)
  PROVE  OrderInv'
<1>0. pc \in [Thread -> SynchLabel] /\ obj \in [Thread -> Semaphore \cup {None}]
      /\ holder \in [Lock -> Thread \cup {None}]
  BY ElemInvTypes DEF IInv, SynchTypeInv, LockTypeOK
<1>1. ASSUME NEW why, Panic(why) PROVE OrderInv'
  BY <1>1, OrderStill DEF Panic, threadVars, objectVars, localVars, StatusLives
<1>2. ASSUME NEW l \in Lock, LockAcquire(t, l) PROVE OrderInv'
  <2>1. /\ Moves(t) /\ pc'[t] = "holder" /\ obj'[t] = l /\ holder' = holder /\ Local
        /\ \A k \in Holds(t) : Rank[k] < Rank[l]
    BY <1>0, <1>2 DEF LockAcquire, EnterAcquire, Calls, At, Runs, Goto, Moves, objectVars
  <2>2. Holds(t)' = Holds(t)
    BY <2>1 DEF Holds
  <2>3. InOrder(t)'
    BY <2>1, <2>2 DEF InOrder
  <2> QED BY <2>1, <2>3, OrderLocal
<1>3. ASSUME NEW l \in Lock, LockTryAcquire(t, l) PROVE OrderInv'
  <2>1. Moves(t) /\ pc'[t] \in {"run", "acquired"} /\ holder' = holder /\ Local
    BY <1>0, <1>3 DEF LockTryAcquire, Calls, At, Runs, Goto, Moves
  <2>2. InOrder(t)'
    BY <2>1, NotAsking DEF InLockAcquire
  <2> QED BY <2>1, <2>2, OrderLocal
<1>4. ASSUME NEW l \in Lock, LockRelease(t, l) PROVE OrderInv'
  <2>1. /\ Moves(t) /\ pc'[t] = "release" /\ holder[l] = t
        /\ holder' = [holder EXCEPT ![l] = None] /\ Local
    BY <1>0, <1>4 DEF LockRelease, At, Runs, Goto, Moves
  <2>2. InOrder(t)'
    BY <2>1, NotAsking DEF InLockAcquire
  <2>3. \A u \in Thread : u # t => Holds(u)' = Holds(u)
    BY <1>0, <2>1, ThreadsAssumption DEF Holds
  <2>4. \A u \in Thread : BeingCreated(u)' => BeingCreated(u)
    BY <2>1 DEF Moves, BeingCreated, Local
  <2> QED BY <2>1, <2>2, <2>3, <2>4, OrderFrame DEF Moves, Local, cpuVars
<1>5. CASE \/ TestHolder(t) \/ ComparePriority(t) \/ PushDonation(t)
           \/ DonateStart(t) \/ DonateSet(t) \/ DonateTest(t) \/ DonateNext(t)
  <2>1. \/ \E why : Panic(why)
        \/ /\ Moves(t) /\ holder' = holder /\ obj' = obj /\ Local
           /\ pc[t] \in InLockAcquire /\ pc'[t] # "unblock_child"
    BY <1>0, <1>5 DEF TestHolder, ComparePriority, PushDonation, DonateStart, DonateSet,
       DonateTest, DonateNext, FollowTo, At, Runs, Goto, Moves, objectVars, localVars,
       InLockAcquire
  <2> QED BY <1>1, <2>1, StillAsking, OrderLocal
<1>6. CASE SetHolder(t)
  <2>1. /\ Moves(t) /\ pc[t] = "acquired" /\ pc'[t] = "run" /\ Local
        /\ holder' = [holder EXCEPT ![obj[t]] = t]
    BY <1>0, <1>6 DEF SetHolder, At, Runs, Goto, Moves
  <2>2. obj[t] \in Lock /\ Owns(t, obj[t])
    BY <2>1 DEF IInv, SynchTypeInv, LocalsKnown, Owns
  <2>3. \A u \in Thread : holder[obj[t]] = u => u = t
    BY <2>2, OneOwner DEF IInv, Owns
  <2>4. \A u \in Thread : u # t => Holds(u)' = Holds(u)
    BY <1>0, <2>1, <2>2, <2>3 DEF Holds
  <2>5. InOrder(t)'
    BY <2>1, NotAsking DEF InLockAcquire
  <2>6. \A u \in Thread : BeingCreated(u)' => BeingCreated(u)
    BY <2>1 DEF Moves, BeingCreated, Local
  <2> QED BY <2>1, <2>4, <2>5, <2>6, OrderFrame DEF Moves, Local, cpuVars
<1>7. CASE ReleaseUp(t)
  <2>1. CASE sema_up(obj[t], FALSE) /\ obj' = [obj EXCEPT ![t] = None] /\ Goto(t, "run")
    <3>1. Moves(t) /\ pc'[t] = "run"
      BY <1>0, <1>7, <2>1 DEF ReleaseUp, At, Runs, Goto, Moves
    <3>2. holder' = holder /\ child' = child /\ StatusLives
      BY <2>1, SemaUpLives DEF sema_up
    <3>3. InOrder(t)'
      BY <3>1, NotAsking DEF InLockAcquire
    <3> QED BY <3>1, <3>2, <3>3, OrderMove
  <2> QED BY <1>1, <1>7, <2>1 DEF ReleaseUp
<1> QED BY <1>2, <1>3, <1>4, <1>5, <1>6, <1>7 DEF LockStep

LEMMA SemaStepOrder ==
  ASSUME ElemInv, IInv, OrderInv, NEW t \in Thread, SemaStep(t) \/ PriorityStep(t)
  PROVE  OrderInv'
<1>0. pc \in [Thread -> SynchLabel] /\ obj \in [Thread -> Semaphore \cup {None}]
      /\ CpuInv /\ destruction_req \in SUBSET Thread /\ status \in [Thread -> Status]
  BY ElemInvTypes DEF ElemInv
<1>1. ASSUME NEW s \in Sema, SemaDownCall(t, s) PROVE OrderInv'
  <2>1. /\ Moves(t) /\ pc'[t] = "down" /\ obj'[t] = s /\ holder' = holder /\ Local
    BY <1>0, <1>1 DEF SemaDownCall, EnterDown, Calls, At, Runs, Goto, Moves, objectVars
  <2>2. InOrder(t)'
    BY <2>1, SynchAssumption DEF InOrder, Asking
  <2> QED BY <2>1, <2>2, OrderLocal
<1>2. ASSUME NEW s \in Sema, SemaUp(t, s) PROVE OrderInv'
  <2>1. UNCHANGED <<pc, obj, holder, child>> /\ StatusLives
    <3>1. CASE WalksFreedDonor(s)
      BY <1>2, <3>1 DEF SemaUp, StatusLives, cpuVars, objectVars, localVars
    <3>2. CASE ~WalksFreedDonor(s)
      <4>1. sema_up(s, FALSE) /\ UNCHANGED <<pc, obj>>
        BY <1>2, <3>2 DEF SemaUp
      <4> QED BY <4>1, SemaUpLives DEF sema_up
    <3> QED BY <3>1, <3>2
  <2> QED BY <2>1, OrderStill
<1>3. CASE SemaDown(t)
  <2>1. /\ Moves(t) /\ holder' = holder /\ child' = child
        /\ pc[t] \in {"down", "retry"} /\ pc'[t] \in {"retry", "acquired", "run"}
        /\ pc'[t] = "retry" => obj' = obj
    BY <1>0, <1>3 DEF SemaDown, Runs, Goto, Moves
  <2>2. InOrder(t)'
    <3>1. CASE pc'[t] = "retry"
      BY <2>1, <3>1, StillAsking
    <3>2. CASE pc'[t] # "retry"
      BY <2>1, <3>2, NotAsking DEF InLockAcquire
    <3> QED BY <3>1, <3>2
  <2>3. StatusLives
    <3>1. CASE thread_block(t)
      <4> DEFINE st == [status EXCEPT ![t] = "blocked"]
      <4>1. schedule(st, ready_list)
        BY <3>1 DEF thread_block
      <4>2. \A u \in Thread : status[u] \in Live => st[u] \in Live
        BY <1>0 DEF Live
      <4> HIDE DEF st
      <4> QED BY <4>1, <4>2, ScheduleLives DEF StatusLives
    <3>2. CASE UNCHANGED cpuVars
      BY <3>2 DEF cpuVars, StatusLives
    <3> QED BY <1>3, <3>1, <3>2 DEF SemaDown
  <2> QED BY <2>1, <2>2, <2>3, OrderMove
<1>4. CASE PriorityStep(t) /\ ~SetYield(t)
  <2>1. Moves(t) /\ holder' = holder /\ Local
        /\ pc'[t] \in {"set_priority", "set_donated", "set_yield"}
    BY <1>0, <1>4 DEF PriorityStep, SetOrigin, SetOwnPriority, SetDonatedPriority,
       Calls, At, Runs, Goto, Moves, objectVars, localVars
  <2> QED BY <2>1, NotAsking, OrderLocal DEF InLockAcquire
<1>5. CASE SetYield(t)
  <2>1. /\ Moves(t) /\ pc'[t] = "run" /\ holder' = holder /\ child' = child
        /\ thread_yield(t)
    BY <1>0, <1>5 DEF SetYield, At, Runs, Goto, Moves, synchVars, objectVars, localVars
  <2> QED BY <1>0, <2>1, NotAsking, YieldLives, OrderMove DEF InLockAcquire
<1> QED BY <1>1, <1>2, <1>3, <1>4, <1>5 DEF SemaStep

LEMMA ScheduleStepOrder ==
  ASSUME ElemInv, OrderInv, NEW t \in Thread,
         \/ \E c \in Thread, p \in Priority : Create(t, c, p)
         \/ Schedules(t)
         \/ Exit(t)
  PROVE  OrderInv'
<1>0. pc \in [Thread -> SynchLabel] /\ CpuInv /\ destruction_req \in SUBSET Thread
      /\ status \in [Thread -> Status] /\ child \in [Thread -> Thread \cup {None}]
  BY ElemInvTypes DEF ElemInv, TypeInv, ThreadTypeOK
<1>1. UNCHANGED <<obj, holder>> /\ ThreadStep(t)
  BY DEF Create, Schedules, Exit, ThreadStep, synchVars, objectVars, localVars
<1>2. Moves(t)
  BY <1>0, <1>1, ThreadStepPc DEF Moves
<1>3. \A u \in Thread : Holds(u)' = Holds(u)
  BY <1>1 DEF Holds
<1>4. pc'[t] \in ThreadLabel
  BY <1>0, <1>1 DEF ThreadStep, CreateThread, CreateUnblock, CreatePreempt, YieldCPU, TimerSleep,
     insert_blockList, ThreadExit, Calls, At, Goto, ThreadLabel
<1>5. InOrder(t)'
  BY <1>4, NotAsking DEF ThreadLabel, InLockAcquire
<1>6. ASSUME NEW c \in Thread, NEW p \in Priority, Create(t, c, p) PROVE OrderInv'
  <2>1. /\ status[c] = "none" /\ status' = [status EXCEPT ![c] = "blocked"]
        /\ child' = [child EXCEPT ![t] = c]
    BY <1>6 DEF Create, CreateThread
  <2>2. \A u \in Thread : BeingCreated(u)' => BeingCreated(u) \/ status[u] = "none"
    BY <1>0, <1>2, <2>1 DEF BeingCreated, Moves
  <2>3. StatusLives
    BY <1>0, <2>1 DEF StatusLives, Live
  <2> QED BY <1>1, <1>2, <1>3, <1>5, <2>2, <2>3, OrderFrame DEF Moves, StatusLives
<1>7. CASE Exit(t)
  <2>1. do_schedule(t, "dying", status, ready_list) /\ pc[t] = "run" /\ Holds(t) = {}
        /\ pc' = pc /\ child' = child
    BY <1>7 DEF Exit, ThreadExit, At
  <2>2. OwesNothing(t)'
    BY <1>3, <2>1 DEF OwesNothing
  <2>3. \A u \in Thread : u # t /\ status[u] \in Live => status'[u] \in Live
    BY <1>0, <2>1, DoScheduleLives
  <2>4. \A u \in Thread : BeingCreated(u)' => BeingCreated(u)
    BY <2>1 DEF BeingCreated
  <2> QED BY <1>1, <1>2, <1>3, <1>5, <2>2, <2>3, <2>4, OrderFrame DEF Moves
<1>8. CASE Schedules(t)
  <2>1. StatusLives
    <3>1. CASE CreateUnblock(t)
      BY <1>0, <3>1, UnblockLives DEF CreateUnblock
    <3>2. CASE CreatePreempt(t)
      BY <1>0, <3>2, YieldLives DEF CreatePreempt, StatusLives, cpuVars
    <3>3. CASE YieldCPU(t)
      BY <1>0, <3>3, YieldLives DEF YieldCPU
    <3>4. CASE \E n \in SleepTicks : TimerSleep(t, n)
      BY <3>4 DEF TimerSleep, StatusLives
    <3>5. CASE insert_blockList(t)
      BY <1>0, <3>5, DoScheduleLives DEF insert_blockList, StatusLives, Live
    <3> QED BY <1>8, <3>1, <3>2, <3>3, <3>4, <3>5 DEF Schedules
  <2>2. /\ pc'[t] # "unblock_child"
        /\ \A u \in Thread : u # t => child'[u] = child[u]
    BY <1>0, <1>8 DEF Schedules, CreateUnblock, CreatePreempt, YieldCPU, TimerSleep,
       insert_blockList, Calls, At, Goto
  <2>3. \A u \in Thread : BeingCreated(u)' => BeingCreated(u)
    BY <1>2, <2>2 DEF BeingCreated, Moves
  <2> QED BY <1>1, <1>2, <1>3, <1>5, <2>1, <2>3, OrderFrame DEF Moves, StatusLives
<1> QED BY <1>6, <1>7, <1>8

LEMMA OrderStep ==
  ASSUME ElemInv, IInv, OrderInv, [SynchNext]_vars
  PROVE  OrderInv'
<1>1. ASSUME NEW why, Panic(why) PROVE OrderInv'
  BY <1>1, OrderStill DEF Panic, threadVars, objectVars, localVars, StatusLives
<1>2. ASSUME NEW t \in Thread, SynchThreadStep(t) PROVE OrderInv'
  BY <1>2, LockStepOrder, SemaStepOrder, ScheduleStepOrder DEF SynchThreadStep
<1>3. CASE Timer \/ Idling
  <2>1. UNCHANGED <<pc, obj, holder, child>> /\ (Interrupt \/ idle)
    BY <1>3 DEF Timer, Idling, synchVars, objectVars, localVars, Interrupt, TimerInterrupt,
       wake_up, IntrReturn, idle
  <2> QED BY <2>1, InterruptLives, OrderStill
<1>4. ASSUME NEW s \in Sema, InterruptUp(s) PROVE OrderInv'
  <2>1. CASE sema_up(s, TRUE) /\ UNCHANGED <<pc, obj, ops>>
    <3>1. UNCHANGED <<pc, obj, holder, child>>
      BY <2>1 DEF sema_up
    <3> QED BY <2>1, <3>1, SemaUpLives, OrderStill
  <2> QED BY <1>1, <1>4, <2>1 DEF InterruptUp
<1>5. CASE UNCHANGED vars
  BY <1>5, OrderStill DEF vars, threadVars, synchVars, objectVars, localVars, StatusLives
<1> QED BY <1>2, <1>3, <1>4, <1>5 DEF SynchNext, Device

LEMMA OrderInvHolds == SynchSpec => []OrderInv
<1>1. ElemInv /\ IInv /\ OrderInv /\ [SynchNext]_vars => OrderInv'
  BY OrderStep
<1> QED BY <1>1, InitOrderInv, ElemInvHolds, Invariance, PTL DEF SynchSpec

(* A finite set of numbers has a greatest one. *)
LEMMA GreatestElement ==
  ASSUME NEW S \in SUBSET Nat, IsFiniteSet(S), S # {}
  PROVE  \E m \in S : \A n \in S : n <= m
<1> DEFINE Unbounded(R) == IsFiniteSet(R) /\ R # {} /\ ~\E m \in R : \A n \in R : n <= m
<1> DEFINE Sizes == {k \in Nat : \E R \in SUBSET Nat : Unbounded(R) /\ Cardinality(R) = k}
<1>1. Sizes = {}
  <2> SUFFICES ASSUME Sizes # {} PROVE FALSE
    OBVIOUS
  <2>1. PICK k \in Sizes : \A j \in Sizes : k <= j
    <3>1. Sizes \in SUBSET Nat
      OBVIOUS
    <3> HIDE DEF Sizes
    <3> QED BY <3>1, LeastElement
  <2>2. PICK R \in SUBSET Nat : Unbounded(R) /\ Cardinality(R) = k
    OBVIOUS
  <2>3. PICK x \in R : TRUE
    BY <2>2
  <2> DEFINE Q == R \ {x}
  <2>4. IsFiniteSet(Q) /\ Cardinality(Q) = Cardinality(R) - 1
    BY <2>2, <2>3, FS_RemoveElement
  <2>5. Cardinality(Q) \in Nat
    BY <2>4, FS_CardinalityType
  <2>6. Q \in SUBSET Nat /\ x \in Nat
    BY <2>2, <2>3
  <2>7. ~Unbounded(Q)
    <3>1. k \in Nat /\ Cardinality(Q) = k - 1
      BY <2>2, <2>4
    <3>2. Cardinality(Q) \notin Sizes
      <4> HIDE DEF Sizes, Q
      <4> QED BY <2>1, <2>5, <3>1
    <3> QED BY <2>5, <2>6, <3>2
  <2>8. CASE Q = {}
    <3>1. \A n \in R : n <= x
      BY <2>6, <2>8
    <3> QED BY <2>2, <2>3, <3>1
  <2>9. CASE Q # {}
    <3>1. PICK m \in Q : \A n \in Q : n <= m
      BY <2>4, <2>7, <2>9
    <3>2. m \in Nat /\ m \in R
      BY <2>6, <3>1
    <3>3. CASE x <= m
      <4>1. \A n \in R : n <= m
        BY <3>1, <3>3
      <4> QED BY <2>2, <3>2, <4>1
    <3>4. CASE m <= x
      <4>1. ASSUME NEW n \in R PROVE n <= x
        <5>1. CASE n = x
          BY <5>1, <2>6
        <5>2. CASE n # x
          <6>1. n \in Nat /\ n <= m
            BY <5>2, <3>1, <2>6
          <6> QED BY <6>1, <3>2, <3>4, <2>6
        <5> QED BY <5>1, <5>2
      <4> QED BY <2>2, <2>3, <4>1
    <3> QED BY <2>6, <3>2, <3>3, <3>4
  <2> QED BY <2>8, <2>9
<1>2. Cardinality(S) \in Nat
  BY FS_CardinalityType
<1>3. Cardinality(S) \notin Sizes
  BY <1>1
<1>4. ~Unbounded(S)
  BY <1>2, <1>3
<1> QED BY <1>4

(* The image of a finite set is finite. *)
LEMMA ImageFinite ==
  ASSUME NEW S, IsFiniteSet(S), NEW f
  PROVE  IsFiniteSet({f[x] : x \in S})
<1> DEFINE T == {f[x] : x \in S}
<1> DEFINE g == [x \in S |-> f[x]]
<1>1. g \in Surjection(S, T)
  BY DEF Surjection
<1> HIDE DEF g, T
<1>2. IsFiniteSet(T)
  BY <1>1, FS_Surjection
<1> QED BY <1>2 DEF T

(* A thread that owes something and is blocked is in one of three lists,   *)
(* the one of the new threads excluded.                                    *)
LEMMA BlockedOwing ==
  ASSUME ElemInv, OrderInv, NEW t \in Thread, ~OwesNothing(t)
  PROVE  \/ status[t] \in {"running", "ready"}
         \/ t \in Range(block_list)
         \/ \E s \in Semaphore : WaitsFor(t, s)
BY DEF ElemInv, BlockedInv, Waiting, OrderInv, Live

LEMMA OrderPreventsDeadlock ==
  ASSUME ElemInv, IInv, OrderInv, NoLostWakeup
  PROVE  NoLockDeadlock
<1> DEFINE Goes(u) == \/ status[u] \in {"running", "ready"}
                      \/ u \in Range(block_list)
                      \/ \E s \in Sema : WaitsFor(u, s)
<1> DEFINE Wanted == {l \in Lock : \E t \in Thread : WaitsFor(t, l)}
<1> SUFFICES ASSUME Wanted # {}, \A u \in Thread : ~Goes(u)
             PROVE  FALSE
  BY DEF NoLockDeadlock
<1> DEFINE Ranks == {Rank[l] : l \in Wanted}
<1>1. IsFiniteSet(Wanted)
  <2>1. \A t \in Thread, l \in Lock : WaitsFor(t, l) => obj[t] = l
    BY DEF ElemInv, WaitersInv, Semaphore
  <2>2. Wanted \subseteq {obj[t] : t \in Thread}
    BY <2>1
  <2>3. IsFiniteSet({obj[t] : t \in Thread})
    BY FiniteThreads, ImageFinite
  <2> HIDE DEF Wanted
  <2> QED BY <2>2, <2>3, FS_Subset
<1>2. \A l \in Lock : Rank[l] \in Nat
  BY SynchAssumption
<1>3. IsFiniteSet(Ranks)
  <2> HIDE DEF Wanted
  <2> QED BY <1>1, ImageFinite
<1>4. Ranks \in SUBSET Nat /\ Ranks # {}
  BY <1>2
<1>5. PICK l \in Wanted : \A k \in Wanted : Rank[k] <= Rank[l]
  <2>1. PICK r \in Ranks : \A n \in Ranks : n <= r
    <3> HIDE DEF Ranks
    <3> QED BY <1>3, <1>4, GreatestElement
  <2> QED BY <2>1
<1>6. l \in Lock /\ l \in Semaphore
  BY DEF Semaphore
<1>7. waiters[l] # <<>>
  BY DEF WaitsFor, Range
<1>8. \A t \in Thread : ~OwesNothing(t) => \E s \in Lock : WaitsFor(t, s)
  BY BlockedOwing DEF Semaphore
<1>9. CASE value[l] = 0
  <2>1. PICK t \in Thread : Owns(t, l)
    BY <1>6, <1>9 DEF IInv, LockPermit, Owns
  <2>2. ~OwesNothing(t)
    BY <1>6, <2>1 DEF Owns, OwesNothing, Holds
  <2>3. PICK s \in Lock : WaitsFor(t, s)
    BY <1>8, <2>2
  <2>4. pc[t] = "retry" /\ obj[t] = s
    BY <2>3 DEF ElemInv, WaitersInv, Semaphore
  <2>5. l \in Holds(t)
    BY <1>6, <2>1, <2>4 DEF Owns, Holds
  <2>6. Rank[l] < Rank[s]
    BY <2>4, <2>5 DEF OrderInv, InOrder, Asking
  <2>7. Rank[s] <= Rank[l]
    BY <1>5, <2>3
  <2> QED BY <1>2, <1>6, <2>6, <2>7
<1>10. CASE value[l] = 1
  <2>1. 1 <= Cardinality(Woken(l))
    BY <1>6, <1>7, <1>10 DEF NoLostWakeup, Woken
  <2>2. Woken(l) # {}
    BY <2>1, FS_EmptySet
  <2>3. PICK t \in Thread : pc[t] = "retry" /\ obj[t] = l /\ ~WaitsFor(t, l)
    BY <2>2 DEF Woken
  <2>4. PICK s \in Lock : WaitsFor(t, s)
    BY <1>8, <2>3 DEF OwesNothing
  <2>5. obj[t] = s
    BY <2>4 DEF ElemInv, WaitersInv, Semaphore
  <2> QED BY <2>3, <2>4, <2>5
<1> QED BY <1>6, <1>9, <1>10 DEF IInv, LockPermit

(* The locks alone never deadlock, whatever the kernel does besides: while *)
(* a thread waits for a lock, some thread runs, is ready, sleeps until its *)
(* tick or waits for a semaphore that somebody else may up.                *)
THEOREM LocksNeverDeadlock == SynchSpec => []NoLockDeadlock
<1>1. ElemInv /\ IInv /\ OrderInv /\ NoLostWakeup => NoLockDeadlock
  BY OrderPreventsDeadlock
<1> QED BY <1>1, ElemInvHolds, Invariance, OrderInvHolds, SynchNoLostWakeup, PTL

(* Without timer_sleep nobody sleeps.                                      *)
NobodySleeps == block_list = <<>> /\ \A t \in Thread : pc[t] # "insert_block"

LEMMA SleeplessStep ==
  ASSUME SleepTicks = {}, ElemInv, NobodySleeps, [SynchNext]_vars
  PROVE  NobodySleeps'
<1>0. pc \in [Thread -> SynchLabel] /\ SynchLabel \cap {"insert_block"} = {"insert_block"}
  BY ElemInvTypes DEF SynchLabel, ThreadLabel
<1>1. ASSUME UNCHANGED <<block_list, pc>> PROVE NobodySleeps'
  BY <1>1 DEF NobodySleeps
<1>2. ASSUME NEW t \in Thread, NEW label, label # "insert_block", Goto(t, label),
             block_list' = block_list
      PROVE  NobodySleeps'
  BY <1>0, <1>2 DEF NobodySleeps, Goto
<1>3. ASSUME NEW why, Panic(why) PROVE NobodySleeps'
  BY <1>1, <1>3 DEF Panic, threadVars, listVars
<1>4. ASSUME NEW t \in Thread, SynchThreadStep(t) PROVE NobodySleeps'
  <2>1. CASE \E c \in Thread, p \in Priority : Create(t, c, p)
    <3>1. Goto(t, "unblock_child") /\ block_list' = block_list
      BY <2>1 DEF Create, CreateThread, listVars
    <3> QED BY <1>2, <3>1
  <2>2. CASE Schedules(t) \/ Exit(t)
    <3>1. block_list' = block_list /\ (pc' = pc \/ \E label \in {"compare_child", "run"} : Goto(t, label))
      BY <2>2 DEF Schedules, Exit, ThreadExit, CreateUnblock, CreatePreempt, YieldCPU,
         TimerSleep, insert_blockList, At, NobodySleeps
    <3> QED BY <1>1, <1>2, <3>1
  <2>3. CASE \/ LockStep(t) /\ ~ReleaseUp(t)
             \/ PriorityStep(t)
             \/ SemaDown(t)
             \/ \E s \in Sema : SemaDownCall(t, s)
    <3>1. \/ \E why : Panic(why)
          \/ block_list' = block_list /\ pc' = pc
          \/ block_list' = block_list /\ \E label \in SynchLabel \ {"insert_block"} : Goto(t, label)
      BY <2>3 DEF LockStep, LockAcquire, EnterAcquire, LockTryAcquire, LockRelease, TestHolder,
         ComparePriority, PushDonation, DonateStart, DonateSet, DonateTest, DonateNext, FollowTo,
         SetHolder, PriorityStep, SetOrigin, SetOwnPriority, SetDonatedPriority, SetYield,
         SemaDown, SemaDownCall, EnterDown, Local, timerVars, SynchLabel, ThreadLabel
    <3> QED BY <1>1, <1>2, <1>3, <3>1
  <2>4. CASE ReleaseUp(t)
    BY <1>2, <1>3, <2>4 DEF ReleaseUp, sema_up, timerVars
  <2>5. CASE \E s \in Sema : SemaUp(t, s)
    BY <1>1, <2>5 DEF SemaUp, sema_up, timerVars
  <2> QED BY <1>4, <2>1, <2>2, <2>3, <2>4, <2>5 DEF SynchThreadStep, SemaStep
<1>5. CASE Timer \/ Idling
  <2>1. block_list' = block_list /\ pc' = pc
    BY <1>5 DEF Timer, Idling, Interrupt, TimerInterrupt, wake_up, IntrReturn, idle, Due,
       NobodySleeps, listVars
  <2> QED BY <1>1, <2>1
<1>6. ASSUME NEW s \in Sema, InterruptUp(s) PROVE NobodySleeps'
  BY <1>1, <1>3, <1>6 DEF InterruptUp, sema_up, timerVars
<1>7. CASE UNCHANGED vars
  BY <1>1, <1>7 DEF vars, threadVars, listVars
<1> QED BY <1>4, <1>5, <1>6, <1>7 DEF SynchNext, Device

(* Threads that use locks only, and do not sleep, never all wait for each  *)
(* other.                                                                  *)
THEOREM SynchNoDeadlock ==
  ASSUME SleepTicks = {}, Sema = {}
  PROVE  SynchSpec => []NoDeadlock
<1>1. SynchInit => NobodySleeps
  BY DEF SynchInit, Init, NobodySleeps
<1>2. ElemInv /\ NobodySleeps /\ [SynchNext]_vars => NobodySleeps'
  BY SleeplessStep
<1>3. NobodySleeps /\ NoLockDeadlock => NoDeadlock
  BY DEF NobodySleeps, NoLockDeadlock, NoDeadlock, Range
<1> QED BY <1>1, <1>2, <1>3, ElemInvHolds, LocksNeverDeadlock, PTL DEF SynchSpec

-----------------------------------------------------------------------------
(***************************************************************************)
(* Donation, for one lock in the kernel without ticks: any number of       *)
(* threads, priorities and other semaphores, and any sequence of calls but *)
(* thread_set_priority.  TLC finds HolderRunsAtWaiterPriority violated     *)
(* when there are ticks, or two locks, or calls of thread_set_priority,    *)
(* and DonationRelinquished when there are ticks or two locks.             *)
(***************************************************************************)

(* Between two steps only the thread that runs is inside an operation; the *)
(* others are between two calls or in the loop of sema_down.               *)
OnlyRunnerInside ==
  /\ intr = "none"
  /\ \A t \in Thread :
       /\ t # current => pc[t] \in {"run", "retry"}
       /\ pc[t] \notin {"chain_next", "set_priority", "set_donated", "set_yield"}
       /\ t \in Range(block_list) => pc[t] = "run"
       /\ pc[t] = "compare_child" => status[child[t]] = "ready"

(* wait_on_lock is the lock that a thread asks for. *)
LockNoted(t) == wait_on_lock[t] = IF Asking(t) THEN obj[t] ELSE None
WaitOnLockInv == \A t \in Thread : LockNoted(t)

(* A donor of u waits for the lock that u owns, or is about to. *)
InDonation == {"chain_start", "chain_set", "chain_test", "down"}
DonorOf(d, u) ==
  /\ priority[d] > priority_origin[u]
  /\ obj[d] \in Lock /\ Owns(u, obj[d])
  /\ WaitsFor(d, obj[d]) \/ (d = current /\ pc[d] \in InDonation)

DonorsInv == \A u \in Thread :
  /\ priority[u] >= priority_origin[u]
  /\ Range(donations[u]) = {} => priority[u] = priority_origin[u]
  /\ \A d \in Range(donations[u]) : DonorOf(d, u)

(* How far the donation of t to the holder h of its lock has come. *)
Progress(t, h) ==
  /\ pc[t] \in {"donate", "chain_start", "chain_set"} => priority[t] > priority[h]
  /\ pc[t] \in {"chain_test", "down"} => priority[h] >= priority[t]
  /\ pc[t] \in {"chain_start", "chain_set", "chain_test"} => t \in Range(donations[h])
RunnerInv == \A t, h \in Thread :
  current = t /\ Asking(t) /\ holder[obj[t]] = h => Progress(t, h)

AtHolder(t) == pc[t] \in {"chain_set", "chain_test"} => chain[t] = holder[obj[t]]
ChainInv == \A t \in Thread : AtHolder(t)

(* Whoever owns a lock is not outranked by those who want it. *)
OwnerInv == \A x, t \in Thread, l \in Lock :
  Owns(x, l) /\ pc[t] = "retry" /\ obj[t] = l => priority[x] >= priority[t]

(* While a lock is free, a waiter of the highest priority has been woken.  *)
FreeLockInv == \A l \in Lock, t \in Thread :
  value[l] = 1 /\ WaitsFor(t, l) =>
    \E w \in Woken(l) : priority[w] >= priority[t]

(* Threads that own no lock, whose place in the ready list counts. *)
Free == {t \in Thread : \A l \in Lock : ~Owns(t, l)}

(* The ready list is in order but for the threads that were donated to     *)
(* while they were in it.                                                  *)
OrderedBut(q, p, S) ==
  \A i, j \in 1..Len(q) : i < j /\ q[j] \in S => p[q[i]] >= p[q[j]]
Beaten(t, u) ==
  status[u] = "ready" /\ ~(pc[t] = "compare_child" /\ child[t] = u) =>
    priority[t] >= priority[u]
ReadyInv ==
  /\ OrderedBut(ready_list, priority, Free)
  /\ \A t \in Thread, u \in Free : current = t => Beaten(t, u)

DonationInv ==
  /\ OnlyRunnerInside /\ WaitOnLockInv /\ DonorsInv /\ RunnerInv /\ ChainInv
  /\ OwnerInv /\ FreeLockInv /\ ReadyInv

-----------------------------------------------------------------------------
(* list_push_back, whatever the list holds. *)
LEMMA AppendElement ==
  ASSUME NEW S, NEW q \in Seq(S), NEW e \in S
  PROVE  Append(q, e) \in Seq(S) /\ Range(Append(q, e)) = Range(q) \cup {e}
<1>1. Len(q) + 1 \in 1..Len(q) + 1
  OBVIOUS
<1> DEFINE r == InsertAt(q, Len(q) + 1, e)
<1>2. /\ r \in Seq(S) /\ Len(r) = Len(q) + 1
      /\ \A i \in 1..Len(q) + 1 : r[i] = IF i = Len(q) + 1 THEN e ELSE q[i]
  BY <1>1, InsertAtElements
<1>3. Range(r) = Range(q) \cup {e}
  BY <1>1, InsertAtRange
<1> HIDE DEF r
<1>4. r = Append(q, e)
  BY <1>2
<1> QED BY <1>2, <1>3, <1>4

(* list_without takes the elements of G away and no other. *)
LEMMA WithoutElements ==
  ASSUME NEW S, NEW q \in Seq(S), NEW G
  PROVE  /\ list_without(q, G) \in Seq(S)
         /\ Range(list_without(q, G)) = Range(q) \ G
<1> DEFINE f == CHOOSE f : f = Kept(q, G, f, Len(q))
<1>1. list_without(q, G) = f[Len(q)]
  BY DEF list_without, Kept
<1>2. f = Kept(q, G, f, Len(q))
  BY KeptExists
<1> HIDE DEF f
<1> DEFINE Part(n) == {q[j] : j \in 1..n} \ G
<1> DEFINE Good(n) == f[n] \in Seq(S) /\ Range(f[n]) = Part(n)
<1> DEFINE Bad == {i \in 0..Len(q) : ~Good(i)}
<1>3. Bad = {}
  <2> SUFFICES ASSUME Bad # {} PROVE FALSE
    OBVIOUS
  <2>1. PICK n \in Bad : \A m \in Bad : n <= m
    <3>1. Bad \in SUBSET Nat
      OBVIOUS
    <3> HIDE DEF Bad
    <3> QED BY <3>1, LeastElement
  <2>2. n \in 0..Len(q) /\ ~Good(n)
    OBVIOUS
  <2>3. f[n] = IF n = 0 THEN <<>>
               ELSE IF q[n] \in G THEN f[n - 1]
               ELSE Append(f[n - 1], q[n])
    BY <1>2, <2>2 DEF Kept
  <2>4. n # 0
    <3> SUFFICES ASSUME n = 0 PROVE FALSE
      OBVIOUS
    <3>1. f[n] = <<>> /\ Part(n) = {}
      BY <2>3
    <3>2. Range(<<>>) = {} /\ <<>> \in Seq(S)
      BY DEF Range
    <3> QED BY <2>2, <3>1, <3>2
  <2>5. n - 1 \in 0..Len(q) /\ n - 1 \notin Bad
    <3>1. n - 1 \in 0..Len(q) /\ n \in Int
      BY <2>2, <2>4
    <3> HIDE DEF Bad
    <3> QED BY <2>1, <3>1
  <2>6. Good(n - 1) /\ q[n] \in S
    BY <2>2, <2>4, <2>5
  <2>7. Part(n) = Part(n - 1) \cup ({q[n]} \ G)
    <3>1. 1..n = 1..(n - 1) \cup {n}
      BY <2>2, <2>4
    <3> QED BY <3>1
  <2>8. PICK p : p = f[n - 1]
    OBVIOUS
  <2>9. p \in Seq(S) /\ Range(p) = Part(n - 1)
    BY <2>6, <2>8
  <2>10. CASE q[n] \in G
    <3>1. f[n] = p /\ Part(n) = Part(n - 1)
      BY <2>3, <2>4, <2>7, <2>8, <2>10
    <3> HIDE DEF Part
    <3> QED BY <2>2, <2>9, <3>1
  <2>11. CASE q[n] \notin G
    <3>1. f[n] = Append(p, q[n]) /\ Part(n) = Part(n - 1) \cup {q[n]}
      BY <2>3, <2>4, <2>7, <2>8, <2>11
    <3>2. Append(p, q[n]) \in Seq(S) /\ Range(Append(p, q[n])) = Range(p) \cup {q[n]}
      BY <2>6, <2>9, AppendElement
    <3> HIDE DEF Part
    <3> QED BY <2>2, <2>9, <3>1, <3>2
  <2> QED BY <2>10, <2>11
<1>4. Len(q) \in 0..Len(q)
  OBVIOUS
<1>5. Good(Len(q))
  BY <1>3, <1>4
<1>6. Part(Len(q)) = Range(q) \ G
  BY DEF Range
<1> QED BY <1>1, <1>5, <1>6

(* The ready list and a set S of threads whose place in it counts. *)
LEMMA InsertReadyOrdered ==
  ASSUME NEW q \in Seq(Thread), NEW t \in Thread, NEW p \in [Thread -> Priority],
         NEW S, OrderedBut(q, p, S)
  PROVE  OrderedBut(InsertReady(q, t, p), p, S)
<1> DEFINE precedes == {i \in DOMAIN q : p[t] > p[q[i]]}
<1> DEFINE n == IF precedes = {} THEN Len(q) + 1 ELSE Min(precedes)
<1>0. \A u \in Thread : p[u] \in Int
  BY ThreadsAssumption DEF Priority
<1>1. DOMAIN q = 1..Len(q) /\ \A i \in 1..Len(q) : q[i] \in Thread
  OBVIOUS
<1>2. precedes \in SUBSET (1..Len(q)) /\ precedes \in SUBSET Nat
  BY <1>1
<1>3. n \in 1..Len(q) + 1
  <2> HIDE DEF precedes
  <2> QED BY <1>2, InsertPosition
<1>4. ASSUME NEW i \in 1..Len(q), i < n PROVE p[q[i]] >= p[t]
  <2>1. i \notin precedes
    <3> SUFFICES ASSUME i \in precedes PROVE FALSE
      OBVIOUS
    <3>1. precedes # {} /\ Min(precedes) <= i
      <4> HIDE DEF precedes
      <4> QED BY <1>2, MinInSet
    <3>2. n <= i
      BY <3>1
    <3> HIDE DEF n
    <3> QED BY <1>3, <1>4, <3>2
  <2>2. ~(p[t] > p[q[i]])
    BY <2>1, <1>1
  <2> QED BY <2>2, <1>0, <1>1
<1>5. ASSUME NEW i \in 1..Len(q), n <= i, q[i] \in S PROVE p[t] >= p[q[i]]
  <2>1. precedes # {}
    BY <1>5
  <2>2. n \in precedes
    <3>1. Min(precedes) \in precedes
      <4> HIDE DEF precedes
      <4> QED BY <1>2, <2>1, MinInSet
    <3> QED BY <2>1, <3>1
  <2>3. n \in 1..Len(q) /\ p[t] > p[q[n]]
    BY <2>2, <1>1
  <2> HIDE DEF n
  <2>4. p[q[n]] >= p[q[i]]
    BY <1>0, <1>1, <1>5, <2>3 DEF OrderedBut
  <2> QED BY <2>3, <2>4, <1>0, <1>1
<1>6. InsertReady(q, t, p) = InsertAt(q, n, t)
  BY DEF InsertReady, list_insert_ordered
<1> HIDE DEF n
<1> DEFINE r == InsertAt(q, n, t)
<1>7. /\ r \in Seq(Thread) /\ Len(r) = Len(q) + 1
      /\ \A i \in 1..Len(q) + 1 :
           r[i] = IF i < n THEN q[i] ELSE IF i = n THEN t ELSE q[i - 1]
  BY <1>3, InsertAtElements
<1> HIDE DEF r
<1>8. ASSUME NEW i \in 1..Len(q) + 1, NEW j \in 1..Len(q) + 1, i < j, r[j] \in S
      PROVE  p[r[i]] >= p[r[j]]
  <2>1. CASE j < n
    <3>1. i \in 1..Len(q) /\ j \in 1..Len(q) /\ r[i] = q[i] /\ r[j] = q[j]
      BY <2>1, <1>3, <1>7, <1>8, SMTT(30)
    <3> QED BY <3>1, <1>8 DEF OrderedBut
  <2>2. CASE j = n
    <3>1. i \in 1..Len(q) /\ i < n /\ r[i] = q[i] /\ r[j] = t
      BY <2>2, <1>3, <1>7, <1>8
    <3> QED BY <3>1, <1>4
  <2>3. CASE i = n
    <3>1. j - 1 \in 1..Len(q) /\ n <= j - 1 /\ r[i] = t /\ r[j] = q[j - 1]
      BY <2>3, <1>3, <1>7, <1>8
    <3> QED BY <3>1, <1>5, <1>8
  <2>4. CASE i < n /\ n < j
    <3>1. /\ i \in 1..Len(q) /\ i < n /\ r[i] = q[i]
          /\ j - 1 \in 1..Len(q) /\ n <= j - 1 /\ r[j] = q[j - 1]
      BY <2>4, <1>3, <1>7, <1>8
    <3>2. p[q[i]] >= p[t] /\ p[t] >= p[q[j - 1]]
      BY <3>1, <1>4, <1>5, <1>8
    <3>3. p[q[i]] >= p[q[j - 1]]
      BY <3>1, <3>2, <1>0, <1>1
    <3> QED BY <3>1, <3>3
  <2>5. CASE n < i
    <3>1. /\ i - 1 \in 1..Len(q) /\ r[i] = q[i - 1]
          /\ j - 1 \in 1..Len(q) /\ r[j] = q[j - 1] /\ i - 1 < j - 1
      BY <2>5, <1>3, <1>7, <1>8
    <3> QED BY <3>1, <1>8 DEF OrderedBut
  <2> QED BY <2>1, <2>2, <2>3, <2>4, <2>5, <1>3, <1>8
<1>9. OrderedBut(r, p, S)
  BY <1>7, <1>8 DEF OrderedBut
<1> QED BY <1>6, <1>9 DEF r

(* The switch takes the head: no thread of S left in the list outranks it. *)
LEMMA SwitchOrdered ==
  ASSUME NEW st, NEW q \in Seq(Thread), schedule(st, q), Placed(status', ready_list'),
         NEW p \in [Thread -> Priority], NEW S, OrderedBut(q, p, S)
  PROVE  /\ OrderedBut(ready_list', p, S)
         /\ \A t, u \in Thread :
              current' = t /\ u \in S /\ status'[u] = "ready" => p[t] >= p[u]
<1>1. current' = next_thread_to_run(q) /\ ready_list' = IF q = <<>> THEN q ELSE Tail(q)
  BY DEF schedule
<1>2. CASE q = <<>>
  <2>1. ready_list' = <<>> /\ Range(<<>>) = {}
    BY <1>1, <1>2 DEF Range
  <2>2. \A u \in Thread : status'[u] # "ready"
    BY <2>1 DEF Placed
  <2> QED BY <2>1, <2>2 DEF OrderedBut
<1>3. CASE q # <<>>
  <2>1. /\ Head(q) = q[1] /\ Len(q) >= 1 /\ Len(q) \in Nat
        /\ Tail(q) \in Seq(Thread) /\ Len(Tail(q)) = Len(q) - 1
        /\ \A i \in 1..Len(q) - 1 : Tail(q)[i] = q[i + 1]
    BY <1>3
  <2>2. PICK r : r = Tail(q)
    OBVIOUS
  <2>3. /\ r \in Seq(Thread) /\ Len(r) = Len(q) - 1
        /\ \A i \in 1..Len(q) - 1 : r[i] = q[i + 1]
        /\ ready_list' = r /\ current' = q[1]
    BY <1>1, <1>3, <2>1, <2>2 DEF next_thread_to_run
  <2>4. ASSUME NEW i \in 1..Len(r), NEW j \in 1..Len(r), i < j, r[j] \in S
        PROVE  p[r[i]] >= p[r[j]]
    <3>1. /\ i + 1 \in 1..Len(q) /\ j + 1 \in 1..Len(q) /\ i + 1 < j + 1
          /\ r[i] = q[i + 1] /\ r[j] = q[j + 1]
      BY <2>1, <2>3, <2>4
    <3> QED BY <3>1, <2>4 DEF OrderedBut
  <2>5. ASSUME NEW t \in Thread, NEW u \in Thread,
               current' = t, u \in S, status'[u] = "ready"
        PROVE  p[t] >= p[u]
    <3>1. u \in Range(r)
      BY <2>3, <2>5 DEF Placed
    <3>2. PICK i \in 1..Len(r) : r[i] = u
      BY <2>3, <3>1 DEF Range
    <3>3. 1 \in 1..Len(q) /\ i + 1 \in 1..Len(q) /\ 1 < i + 1 /\ q[i + 1] = u
      BY <2>1, <2>3, <3>2
    <3> QED BY <2>3, <2>5, <3>3 DEF OrderedBut
  <2> QED BY <2>3, <2>4, <2>5 DEF OrderedBut
<1> QED BY <1>2, <1>3

-----------------------------------------------------------------------------
(* What is known of the locks and the lists anyhow. *)

(* For this section: all threads use the same lock. *)
OneLock == \A k, l \in Lock : k = l

KernelInv == ElemInv /\ IInv /\ OrderInv

LEMMA KernelStep ==
  ASSUME KernelInv, [SynchNext]_vars
  PROVE  KernelInv'
BY ElemStep, InvariantStep, OrderStep DEF KernelInv

KernelTypes ==
  /\ current \in Thread \cup {Idle} /\ status \in [Thread -> Status]
  /\ priority \in [Thread -> Priority] /\ priority_origin \in [Thread -> Priority]
  /\ ready_list \in Seq(Thread) /\ block_list \in Seq(Thread)
  /\ pc \in [Thread -> SynchLabel] /\ child \in [Thread -> Thread \cup {None}]
  /\ wait_on_lock \in [Thread -> Lock \cup {None}] /\ donations \in [Thread -> Seq(Thread)]
  /\ value \in [Semaphore -> Nat] /\ waiters \in [Semaphore -> Seq(Thread)]
  /\ holder \in [Lock -> Thread \cup {None}] /\ obj \in [Thread -> Semaphore \cup {None}]
  /\ chain \in [Thread -> Thread \cup {None}]

(* ... as the steps below use it. *)
KernelFacts ==
  /\ KernelTypes
  /\ \A t \in Thread : priority[t] \in Int /\ priority_origin[t] \in Int
  /\ \A t \in Thread : Range(donations[t]) \subseteq Thread
  /\ Placed(status, ready_list)
  /\ \A t \in Thread : current = t => t \notin Range(ready_list) /\ t \notin Range(block_list)
  /\ \A t \in Thread : status[t] = "running" <=> current = t
  /\ \A t \in Thread, s \in Semaphore :
       WaitsFor(t, s) => pc[t] = "retry" /\ obj[t] = s /\ t # current
  /\ \A t \in Thread, l \in Lock :
       Owns(t, l) => /\ value[l] = 0 /\ \A u \in Thread : Owns(u, l) => u = t
                     /\ status[t] \in Live
  /\ \A l \in Lock : value[l] \in {0, 1}
  /\ \A l \in Lock : value[l] = 0 => \E t \in Thread : Owns(t, l)
  /\ \A t \in Thread, l \in Lock : Asking(t) /\ obj[t] = l => ~Owns(t, l)
  /\ \A t \in Thread : pc[t] = "retry" =>
       \/ WaitsFor(t, obj[t])
       \/ status[t] \in {"running", "ready"}
       \/ t \in Range(block_list)
  /\ \A t \in Thread : pc[t] \notin {"acquired", "release", "down", "retry"} \cup InLockAcquire
       => ~Asking(t)

LEMMA KernelKnown == KernelInv => KernelFacts
<1> SUFFICES ASSUME KernelInv PROVE KernelFacts
  OBVIOUS
<1>1. KernelTypes
  BY DEF KernelInv, ElemInv, SynchTypeInv, TypeInv, ThreadTypeOK, LockTypeOK, KernelTypes
<1>2. \A t \in Thread : priority[t] \in Int /\ priority_origin[t] \in Int
  BY <1>1, ThreadsAssumption DEF KernelTypes, Priority
<1>3. /\ Placed(status, ready_list)
      /\ \A t \in Thread : status[t] = "running" <=> current = t
  BY DEF KernelInv, ElemInv, CpuInv
<1>4. \A t \in Thread :
        current = t => /\ t \notin Range(ready_list) /\ t \notin Range(block_list)
                       /\ t \notin Waiting
  BY RunnerFree DEF KernelInv
<1>5. \A t \in Thread, s \in Semaphore :
        WaitsFor(t, s) => pc[t] = "retry" /\ obj[t] = s /\ t # current
  BY <1>4 DEF KernelInv, ElemInv, WaitersInv, Waiting
<1>6. ASSUME NEW t \in Thread, NEW l \in Lock, Owns(t, l)
      PROVE  /\ value[l] = 0 /\ \A u \in Thread : Owns(u, l) => u = t
             /\ status[t] \in Live
  <2>1. ~OwesNothing(t)
    BY <1>6 DEF Owns, OwesNothing, Holds
  <2> QED BY <1>6, <2>1, OneOwner DEF KernelInv, IInv, OrderInv
<1>7. ASSUME NEW l \in Lock
      PROVE  value[l] \in {0, 1} /\ (value[l] = 0 => \E t \in Thread : Owns(t, l))
  <2>1. \/ value[l] = 1
        \/ value[l] = 0 /\ \E t \in Thread : \A u \in Thread : Owns(u, l) = (u = t)
    BY DEF KernelInv, IInv, LockPermit
  <2> QED BY <2>1 DEF Owns
<1>8. ASSUME NEW t \in Thread, NEW l \in Lock, Asking(t), obj[t] = l PROVE ~Owns(t, l)
  <2>1. pc[t] \notin {"acquired", "release"}
    BY <1>8 DEF Asking, InLockAcquire
  <2>2. l \notin Holds(t)
    <3>1. Rank[l] \in Nat
      BY SynchAssumption
    <3>2. ~(Rank[l] < Rank[l])
      BY <3>1
    <3> QED BY <1>8, <3>2 DEF KernelInv, OrderInv, InOrder
  <2> QED BY <2>1, <2>2 DEF Owns, Holds
<1>9. ASSUME NEW t \in Thread, pc[t] = "retry"
      PROVE  \/ WaitsFor(t, obj[t])
             \/ status[t] \in {"running", "ready"}
             \/ t \in Range(block_list)
  <2>1. \/ status[t] \in {"running", "ready"} \/ t \in Range(block_list)
        \/ \E s \in Semaphore : WaitsFor(t, s)
    BY <1>9, BlockedOwing DEF KernelInv, OwesNothing
  <2> QED BY <1>5, <2>1
<1>10. \A t \in Thread :
         pc[t] \notin {"acquired", "release", "down", "retry"} \cup InLockAcquire => ~Asking(t)
  BY DEF Asking
<1>11. ASSUME NEW t \in Thread PROVE Range(donations[t]) \subseteq Thread
  <2>1. donations[t] \in Seq(Thread)
    BY <1>1 DEF KernelTypes
  <2> QED BY <2>1 DEF Range
<1> QED BY <1>1, <1>2, <1>3, <1>4, <1>5, <1>6, <1>7, <1>8, <1>9, <1>10, <1>11 DEF KernelFacts

LEMMA KernelKnownNext == KernelInv' => KernelFacts'
BY KernelKnown, PTL

-----------------------------------------------------------------------------
(* Where a step that Frame describes does not lead. *)
Elsewhere == {"retry", "chain_next", "set_priority", "set_donated", "set_yield"}

(* A step of t that changes no priority, no owner and no waiters of a lock,  *)
(* and leads out of a donation only by its end.                              *)
Frame(t) ==
  /\ current = t
  /\ SameOwners /\ UNCHANGED <<intr, priority, priority_origin>>
  /\ \A u \in Thread : Range(donations'[u]) = Range(donations[u])
  /\ \A l \in Lock : waiters'[l] = waiters[l]
  /\ \A u \in Thread : u # t =>
       pc'[u] = pc[u] /\ obj'[u] = obj[u] /\ wait_on_lock'[u] = wait_on_lock[u]
  /\ current' = t \/ pc'[t] = "run"
  /\ \A u \in Thread : u \in Range(block_list') =>
       u \in Range(block_list) \/ (u = t /\ pc'[t] = "run")
  /\ pc'[t] \notin Elsewhere
  /\ pc'[t] = "compare_child" => status'[child'[t]] = "ready"
  /\ ~(pc[t] = "retry" /\ obj[t] \in Lock)
  /\ pc[t] \in InDonation /\ obj[t] \in Lock =>
       pc'[t] \in InDonation /\ obj'[t] = obj[t] /\ current' = t

(* Left to show of such a step is what concerns t, and the ready list. *)
LEMMA FrameKeeps ==
  ASSUME KernelInv, KernelInv', DonationInv, NEW t \in Thread, Frame(t),
         LockNoted(t)', AtHolder(t)',
         \A h \in Thread : Asking(t)' /\ holder'[obj'[t]] = h => Progress(t, h)',
         ReadyInv'
  PROVE  DonationInv'
<1>0. KernelFacts /\ KernelFacts'
  BY KernelKnown, KernelKnownNext
<1>1. OnlyRunnerInside'
  <2>1. intr' = "none"
    BY DEF Frame, DonationInv, OnlyRunnerInside
  <2>2. ASSUME NEW u \in Thread
        PROVE  /\ u # current' => pc'[u] \in {"run", "retry"}
               /\ pc'[u] \notin {"chain_next", "set_priority", "set_donated", "set_yield"}
               /\ u \in Range(block_list') => pc'[u] = "run"
               /\ pc'[u] = "compare_child" => status'[child'[u]] = "ready"
    <3>1. CASE u = t
      <4>1. u \in Range(block_list) => FALSE
        BY <1>0, <3>1 DEF Frame, KernelFacts
      <4> QED BY <3>1, <4>1 DEF Frame, Elsewhere
    <3>2. CASE u # t
      BY <3>2 DEF Frame, DonationInv, OnlyRunnerInside
    <3> QED BY <3>1, <3>2
  <2> QED BY <2>1, <2>2 DEF OnlyRunnerInside
<1>2. WaitOnLockInv'
  <2>1. ASSUME NEW u \in Thread, u # t PROVE LockNoted(u)'
    BY <2>1 DEF Frame, DonationInv, WaitOnLockInv, LockNoted, Asking
  <2> QED BY <2>1 DEF WaitOnLockInv
<1>3. DonorsInv'
  <2>1. ASSUME NEW u \in Thread, NEW d \in Range(donations[u]) PROVE DonorOf(d, u)'
    <3>1. DonorOf(d, u) /\ d \in Thread
      BY <1>0 DEF DonationInv, DonorsInv, KernelFacts
    <3>2. PICK l \in Lock : obj[d] = l
      BY <3>1 DEF DonorOf
    <3>3. Owns(u, l)'
      BY <3>1, <3>2 DEF DonorOf, Frame, SameOwners
    <3>4. CASE d = t
      <4>1. ~WaitsFor(d, l)
        BY <1>0, <3>4 DEF Frame, KernelFacts, Semaphore
      <4> QED BY <3>1, <3>2, <3>3, <3>4, <4>1 DEF DonorOf, Frame
    <3>5. CASE d # t
      BY <3>1, <3>2, <3>3, <3>5 DEF DonorOf, Frame, WaitsFor
    <3> QED BY <3>4, <3>5
  <2> QED BY <2>1 DEF DonationInv, DonorsInv, Frame
<1>4. RunnerInv'
  <2>1. ASSUME NEW u \in Thread, NEW h \in Thread, current' = u, u # t PROVE Progress(u, h)'
    BY <2>1 DEF Frame, DonationInv, OnlyRunnerInside, Progress
  <2> QED BY <2>1 DEF RunnerInv
<1>5. ChainInv'
  <2>1. ASSUME NEW u \in Thread, u # t PROVE AtHolder(u)'
    BY <2>1 DEF Frame, DonationInv, OnlyRunnerInside, AtHolder
  <2> QED BY <2>1 DEF ChainInv
<1>6. OwnerInv'
  <2>1. ASSUME NEW x \in Thread, NEW u \in Thread, NEW l \in Lock,
               Owns(x, l)', pc'[u] = "retry", obj'[u] = l
        PROVE  priority'[x] >= priority'[u]
    <3>1. u # t
      BY <2>1 DEF Frame, Elsewhere
    <3>2. Owns(x, l) /\ pc[u] = "retry" /\ obj[u] = l
      BY <2>1, <3>1 DEF Frame, SameOwners
    <3> QED BY <3>2 DEF DonationInv, OwnerInv, Frame
  <2> QED BY <2>1 DEF OwnerInv
<1>7. FreeLockInv'
  <2>1. ASSUME NEW l \in Lock, NEW u \in Thread, value'[l] = 1, WaitsFor(u, l)'
        PROVE  \E w \in Woken(l)' : priority'[w] >= priority'[u]
    <3>1. value[l] = 1 /\ WaitsFor(u, l)
      BY <2>1 DEF Frame, SameOwners, WaitsFor
    <3>2. PICK w \in Woken(l) : priority[w] >= priority[u]
      BY <3>1 DEF DonationInv, FreeLockInv
    <3>3. w \in Thread /\ w # t
      BY <3>2 DEF Woken, Frame
    <3>4. w \in Woken(l)'
      BY <3>2, <3>3 DEF Woken, Frame, WaitsFor
    <3> QED BY <3>2, <3>4 DEF Frame
  <2> QED BY <2>1 DEF FreeLockInv
<1> QED BY <1>1, <1>2, <1>3, <1>4, <1>5, <1>6, <1>7 DEF DonationInv

(* A step that leaves the scheduler alone leaves the ready list in order. *)
LEMMA LocalReady ==
  ASSUME DonationInv, NEW t \in Thread, current = t, SameOwners,
         UNCHANGED <<current, status, ready_list, priority>>, pc[t] # "compare_child"
  PROVE  ReadyInv'
<1>1. Free' = Free
  BY DEF Free, SameOwners
<1>2. ASSUME NEW x \in Thread, NEW u \in Free', current' = x PROVE Beaten(x, u)'
  <2>1. x = t /\ u \in Free
    BY <1>1, <1>2
  <2>2. Beaten(t, u)
    BY <2>1 DEF DonationInv, ReadyInv
  <2> QED BY <2>1, <2>2 DEF Beaten
<1>3. OrderedBut(ready_list', priority', Free')
  BY <1>1 DEF DonationInv, ReadyInv
<1> QED BY <1>2, <1>3 DEF ReadyInv

(* The same for the steps that stay with t. *)
LEMMA LocalFrame ==
  ASSUME KernelInv, KernelInv', DonationInv, NEW t \in Thread, current = t, SameOwners,
         UNCHANGED <<cpuVars, intr, block_list, priority, priority_origin, donations, waiters>>,
         \A u \in Thread : u # t =>
           pc'[u] = pc[u] /\ obj'[u] = obj[u] /\ wait_on_lock'[u] = wait_on_lock[u],
         pc[t] # "compare_child", pc'[t] \notin Elsewhere \cup {"compare_child"},
         ~(pc[t] = "retry" /\ obj[t] \in Lock),
         pc[t] \in InDonation /\ obj[t] \in Lock => pc'[t] \in InDonation /\ obj'[t] = obj[t],
         LockNoted(t)', AtHolder(t)',
         \A h \in Thread : Asking(t)' /\ holder'[obj'[t]] = h => Progress(t, h)'
  PROVE  DonationInv'
<1>1. UNCHANGED <<current, status, ready_list>>
  BY DEF cpuVars
<1>2. ReadyInv'
  BY <1>1, LocalReady
<1>3. Frame(t)
  BY <1>1 DEF Frame
<1> QED BY <1>2, <1>3, FrameKeeps

(* t is, after the step, outside of the way to a lock. *)
LEMMA FreeRunner ==
  ASSUME NEW t \in Thread, pc'[t] \in {"run", "acquired", "release", "unblock_child",
                                       "compare_child", "insert_block"}
  PROVE  /\ ~Asking(t)' /\ AtHolder(t)' /\ pc'[t] \notin Elsewhere
BY DEF Asking, InLockAcquire, AtHolder, Elsewhere

(* wait_on_lock is NULL before such a step, and stays so. *)
LEMMA NoLockBefore ==
  ASSUME DonationInv, NEW t \in Thread, ~Asking(t)
  PROVE  wait_on_lock[t] = None
BY DEF DonationInv, WaitOnLockInv, LockNoted

(* The entries of lock_acquire, lock_release, sema_down and timer_sleep, and*)
(* the end of lock_acquire.                                                 *)
LEMMA QuietStart ==
  ASSUME KernelInv, KernelInv', DonationInv, NEW t \in Thread,
         \/ \E l \in Lock : LockAcquire(t, l) \/ LockRelease(t, l)
         \/ SetHolder(t)
         \/ \E s \in Sema : SemaDownCall(t, s)
         \/ \E n \in SleepTicks : TimerSleep(t, n) /\ UNCHANGED synchVars
  PROVE  DonationInv'
<1>0. KernelFacts /\ KernelTypes /\ SynchTypeInv /\ LockPermit /\ ReleasedHolderClear
  BY KernelKnown DEF KernelFacts, KernelInv, IInv
<1>1. ASSUME NEW l \in Lock, LockAcquire(t, l) PROVE DonationInv'
  <2>1. /\ current = t /\ pc[t] = "run" /\ pc' = [pc EXCEPT ![t] = "holder"]
        /\ obj' = [obj EXCEPT ![t] = l] /\ wait_on_lock' = [wait_on_lock EXCEPT ![t] = l]
        /\ UNCHANGED <<cpuVars, intr, block_list, priority, priority_origin, donations, waiters>>
    BY <1>1 DEF LockAcquire, EnterAcquire, Calls, At, Runs, Goto, Local, timerVars, objectVars
  <2>2. SameOwners
    BY <1>0, <1>1, UndisturbedLockStep, UndisturbedOwners
  <2>3. pc'[t] = "holder" /\ obj'[t] = l /\ wait_on_lock'[t] = l
        /\ \A u \in Thread : u # t =>
             pc'[u] = pc[u] /\ obj'[u] = obj[u] /\ wait_on_lock'[u] = wait_on_lock[u]
    BY <1>0, <2>1 DEF KernelTypes
  <2>4. LockNoted(t)' /\ AtHolder(t)' /\ \A h \in Thread : Progress(t, h)'
    BY <2>3 DEF LockNoted, Asking, InLockAcquire, AtHolder, Progress
  <2> QED BY <2>1, <2>2, <2>3, <2>4, LocalFrame DEF Elsewhere, InDonation
<1>2. ASSUME NEW l \in Lock, LockRelease(t, l) PROVE DonationInv'
  <2>1. /\ current = t /\ pc[t] = "run" /\ pc' = [pc EXCEPT ![t] = "release"]
        /\ obj' = [obj EXCEPT ![t] = l] /\ wait_on_lock' = wait_on_lock
        /\ UNCHANGED <<cpuVars, intr, block_list, priority, priority_origin, donations, waiters>>
    BY <1>2 DEF LockRelease, At, Runs, Goto, Local, timerVars, donorVars
  <2>2. SameOwners
    BY <1>0, <1>2, LockReleaseOwners
  <2>3. pc'[t] = "release" /\ \A u \in Thread : u # t => pc'[u] = pc[u] /\ obj'[u] = obj[u]
    BY <1>0, <2>1 DEF KernelTypes
  <2>4. ~Asking(t)' /\ AtHolder(t)' /\ ~Asking(t)
    BY <1>0, <2>1, <2>3, FreeRunner DEF Asking, InLockAcquire
  <2>5. LockNoted(t)'
    BY <2>1, <2>4, NoLockBefore DEF LockNoted
  <2> QED BY <2>1, <2>2, <2>3, <2>4, <2>5, LocalFrame DEF Elsewhere, InDonation
<1>3. CASE SetHolder(t)
  <2>1. /\ current = t /\ pc[t] = "acquired" /\ pc' = [pc EXCEPT ![t] = "run"]
        /\ obj' = [obj EXCEPT ![t] = None]
        /\ wait_on_lock' = [wait_on_lock EXCEPT ![t] = None]
        /\ UNCHANGED <<cpuVars, intr, block_list, priority, priority_origin, donations, waiters>>
    BY <1>3 DEF SetHolder, At, Runs, Goto, Local, timerVars
  <2>2. SameOwners
    BY <1>0, <1>3, SetHolderOwners
  <2>3. pc'[t] = "run" /\ wait_on_lock'[t] = None
        /\ \A u \in Thread : u # t =>
             pc'[u] = pc[u] /\ obj'[u] = obj[u] /\ wait_on_lock'[u] = wait_on_lock[u]
    BY <1>0, <2>1 DEF KernelTypes
  <2>4. ~Asking(t)' /\ AtHolder(t)'
    BY <2>3, FreeRunner
  <2>5. LockNoted(t)'
    BY <2>3, <2>4 DEF LockNoted
  <2> QED BY <2>1, <2>2, <2>3, <2>4, <2>5, LocalFrame DEF Elsewhere, InDonation
<1>4. ASSUME NEW s \in Sema, SemaDownCall(t, s) PROVE DonationInv'
  <2>1. /\ current = t /\ pc[t] = "run" /\ pc' = [pc EXCEPT ![t] = "down"]
        /\ obj' = [obj EXCEPT ![t] = s] /\ wait_on_lock' = wait_on_lock
        /\ UNCHANGED <<cpuVars, intr, block_list, priority, priority_origin, donations, waiters>>
    BY <1>4 DEF SemaDownCall, EnterDown, Calls, At, Runs, Goto, Local, timerVars, objectVars,
       donorVars
  <2>2. SameOwners
    BY <1>0, <1>4, UndisturbedOther, UndisturbedOwners
  <2>3. pc'[t] = "down" /\ obj'[t] = s
        /\ \A u \in Thread : u # t => pc'[u] = pc[u] /\ obj'[u] = obj[u]
    BY <1>0, <2>1 DEF KernelTypes
  <2>4. ~Asking(t)' /\ AtHolder(t)' /\ ~Asking(t)
    BY <2>1, <2>3, SynchAssumption DEF Asking, InLockAcquire, AtHolder
  <2>5. LockNoted(t)'
    BY <2>1, <2>4, NoLockBefore DEF LockNoted
  <2> QED BY <2>1, <2>2, <2>3, <2>4, <2>5, LocalFrame DEF Elsewhere, InDonation
<1>5. ASSUME NEW n \in SleepTicks, TimerSleep(t, n), UNCHANGED synchVars PROVE DonationInv'
  <2>1. /\ current = t /\ pc[t] = "run" /\ pc' = [pc EXCEPT ![t] = "insert_block"]
        /\ UNCHANGED <<cpuVars, intr, block_list, priority, priority_origin, donations, waiters,
                       obj, wait_on_lock>>
    BY <1>5 DEF TimerSleep, Calls, At, Runs, Goto, listVars, timeVars, synchVars, objectVars,
       donorVars, localVars, cpuVars
  <2>2. SameOwners
    <3>1. Schedules(t)
      BY <1>5 DEF Schedules
    <3> QED BY <1>0, <3>1, UndisturbedOther, UndisturbedOwners
  <2>3. pc'[t] = "insert_block" /\ \A u \in Thread : u # t => pc'[u] = pc[u]
    BY <1>0, <2>1 DEF KernelTypes
  <2>4. ~Asking(t)' /\ AtHolder(t)' /\ ~Asking(t)
    BY <2>1, <2>3, FreeRunner DEF Asking, InLockAcquire
  <2>5. LockNoted(t)'
    BY <2>1, <2>4, NoLockBefore DEF LockNoted
  <2> QED BY <2>1, <2>2, <2>3, <2>4, <2>5, LocalFrame DEF Elsewhere, InDonation
<1> QED BY <1>1, <1>2, <1>3, <1>4, <1>5

(* A step that changes none of all this, such as a panic. *)
LEMMA StillKeeps ==
  ASSUME DonationInv, UNCHANGED <<cpuVars, priority, block_list, intr, pc, child>>,
         UNCHANGED <<donorVars, objectVars, localVars>>
  PROVE  DonationInv'
<1>1. UNCHANGED <<current, status, priority, ready_list, block_list, intr, pc, child>>
  BY DEF cpuVars
<1>2. UNCHANGED <<priority_origin, wait_on_lock, donations, value, waiters, holder, obj, chain>>
  BY DEF donorVars, objectVars, localVars
<1>3. \A u \in Thread, l \in Lock : Owns(u, l)' = Owns(u, l)
  BY <1>1, <1>2 DEF Owns
<1>4. \A u \in Thread : Asking(u)' = Asking(u) /\ LockNoted(u)' = LockNoted(u)
  BY <1>1, <1>2 DEF Asking, LockNoted
<1>5. \A u, s : WaitsFor(u, s)' = WaitsFor(u, s)
  BY <1>1, <1>2 DEF WaitsFor
<1>6. Free' = Free
  BY <1>3 DEF Free
<1>7. OnlyRunnerInside'
  BY <1>1 DEF DonationInv, OnlyRunnerInside
<1>8. WaitOnLockInv'
  BY <1>4 DEF DonationInv, WaitOnLockInv
<1>9. DonorsInv'
  <2>1. ASSUME NEW d, NEW u \in Thread, DonorOf(d, u) PROVE DonorOf(d, u)'
    BY <1>1, <1>2, <2>1 DEF DonorOf, WaitsFor, Owns
  <2> QED BY <2>1, <1>1, <1>2 DEF DonationInv, DonorsInv
<1>10. RunnerInv' /\ ChainInv'
  BY <1>1, <1>2, <1>4 DEF DonationInv, RunnerInv, ChainInv, AtHolder, Progress
<1>11. OwnerInv'
  BY <1>1, <1>2, <1>3 DEF DonationInv, OwnerInv
<1>12. FreeLockInv'
  <2>1. \A s : Woken(s)' = Woken(s)
    BY <1>1, <1>2 DEF Woken, WaitsFor
  <2> QED BY <1>1, <1>2, <1>5, <2>1 DEF DonationInv, FreeLockInv
<1>13. ReadyInv'
  BY <1>1, <1>6 DEF DonationInv, ReadyInv, Beaten, OrderedBut
<1> QED BY <1>7, <1>8, <1>9, <1>10, <1>11, <1>12, <1>13 DEF DonationInv

LEMMA PanicKeepsDonation ==
  ASSUME DonationInv, UNCHANGED <<threadVars, donorVars, objectVars, localVars>>
  PROVE  DonationInv'
BY StillKeeps DEF threadVars, listVars, timeVars, cpuVars

(* A step of lock_acquire in which t goes on to another label, or reads    *)
(* the holder of its lock into chain.                                      *)
LEMMA AcquireFrame ==
  ASSUME KernelInv, KernelInv', DonationInv, NEW t \in Thread, current = t, SameOwners,
         pc[t] \in {"holder", "compare", "chain_start", "chain_test"}, NEW label,
         label \in {"compare", "donate", "chain_set", "down"},
         pc[t] \in InDonation => label \in InDonation, Goto(t, label),
         Local, UNCHANGED <<priority, donorVars, objectVars, obj>>, AtHolder(t)',
         \A h \in Thread : holder[obj[t]] = h => Progress(t, h)'
  PROVE  DonationInv'
<1>0. KernelTypes /\ SynchTypeInv
  BY KernelKnown DEF KernelFacts, KernelInv, ElemInv
<1>1. /\ UNCHANGED <<cpuVars, intr, block_list, priority, priority_origin, donations, waiters,
                     obj, holder, wait_on_lock>>
      /\ pc'[t] = label /\ \A u \in Thread : u # t => pc'[u] = pc[u]
  BY <1>0 DEF KernelTypes, Goto, Local, timerVars, donorVars, objectVars
<1>2. Asking(t) /\ Asking(t)'
  <2>1. obj[t] \in Lock /\ obj'[t] \in Lock
    BY <1>0, <1>1 DEF SynchTypeInv, LocalsKnown, InLockAcquire
  <2> QED BY <1>1, <2>1 DEF Asking, InLockAcquire
<1>3. LockNoted(t)'
  BY <1>1, <1>2 DEF DonationInv, WaitOnLockInv, LockNoted
<1> QED BY <1>1, <1>2, <1>3, LocalFrame DEF Elsewhere

(* lock_acquire up to the donation and along the chain, which is one long. *)
LEMMA QuietAcquire ==
  ASSUME KernelInv, KernelInv', DonationInv, OneLock, NEW t \in Thread,
         TestHolder(t) \/ ComparePriority(t) \/ DonateStart(t) \/ DonateTest(t)
  PROVE  DonationInv'
<1>0. KernelFacts /\ KernelTypes /\ SynchTypeInv /\ ReleasedHolderClear /\ None \notin Thread
  BY KernelKnown, ThreadsAssumption DEF KernelFacts, KernelInv, ElemInv, IInv
<1>1. SameOwners
  BY <1>0, UndisturbedLockStep, UndisturbedOwners
<1>2. current = t /\ pc[t] \in InLockAcquire
  BY DEF TestHolder, ComparePriority, DonateStart, DonateTest, At, Runs, InLockAcquire
<1>3. obj[t] \in Lock /\ wait_on_lock[t] = obj[t] /\ Asking(t)
  BY <1>0, <1>2 DEF SynchTypeInv, LocalsKnown, Asking
<1>4. PICK h \in Thread \cup {None} : holder[obj[t]] = h
  BY <1>0, <1>3 DEF KernelTypes
<1>5. h # None => Progress(t, h)
  BY <1>2, <1>3, <1>4 DEF DonationInv, RunnerInv
<1>6. CASE TestHolder(t)
  <2>1. PICK label : label = IF h = None THEN "down" ELSE "compare"
    OBVIOUS
  <2>2. /\ pc[t] = "holder" /\ Goto(t, label) /\ Local
        /\ UNCHANGED <<priority, donorVars, objectVars, obj>>
    BY <1>4, <1>6, <2>1 DEF TestHolder, At, localVars
  <2>3. pc'[t] = label
    BY <1>0, <2>2 DEF Goto, KernelTypes
  <2>4. AtHolder(t)' /\ \A k \in Thread : holder[obj[t]] = k => Progress(t, k)'
    BY <1>0, <1>4, <2>1, <2>3 DEF AtHolder, Progress
  <2> QED BY <1>1, <1>2, <2>1, <2>2, <2>4, AcquireFrame DEF InDonation
<1>7. CASE ComparePriority(t)
  <2>1. CASE h = None
    BY <1>4, <1>7, <2>1, PanicKeepsDonation DEF ComparePriority, Panic
  <2>2. CASE h # None
    <3>1. PICK label : label = IF priority[t] > priority[h] THEN "donate" ELSE "down"
      OBVIOUS
    <3>2. /\ pc[t] = "compare" /\ Goto(t, label) /\ Local
          /\ UNCHANGED <<priority, donorVars, objectVars, obj>>
      BY <1>4, <1>7, <2>2, <3>1 DEF ComparePriority, At, localVars
    <3>3. pc'[t] = label
      BY <1>0, <3>2 DEF Goto, KernelTypes
    <3>4. priority[t] \in Int /\ priority[h] \in Int
      BY <1>0, <2>2 DEF KernelFacts
    <3>5. AtHolder(t)' /\ Progress(t, h)'
      BY <3>1, <3>2, <3>3, <3>4 DEF AtHolder, Progress
    <3> QED BY <1>1, <1>2, <1>4, <3>1, <3>2, <3>5, AcquireFrame DEF InDonation
  <2> QED BY <2>1, <2>2
<1>8. CASE DonateStart(t)
  <2>1. PICK label : label = IF h = None THEN "down" ELSE "chain_set"
    OBVIOUS
  <2>2. /\ pc[t] = "chain_start" /\ Goto(t, label) /\ Local
        /\ chain' = [chain EXCEPT ![t] = h]
        /\ UNCHANGED <<priority, donorVars, objectVars, obj>>
    BY <1>3, <1>4, <1>8, <2>1 DEF DonateStart, FollowTo, At
  <2>3. pc'[t] = label /\ chain'[t] = h /\ holder' = holder /\ obj' = obj
        /\ donations' = donations /\ priority' = priority
    BY <1>0, <2>2 DEF Goto, KernelTypes, objectVars, donorVars
  <2>4. AtHolder(t)'
    BY <1>4, <2>3 DEF AtHolder
  <2>5. \A k \in Thread : holder[obj[t]] = k => Progress(t, k)'
    <3>1. SUFFICES ASSUME h # None PROVE Progress(t, h)'
      BY <1>0, <1>4
    <3>2. priority[t] > priority[h] /\ t \in Range(donations[h])
      BY <1>5, <2>2, <3>1 DEF Progress
    <3> QED BY <2>1, <2>3, <3>1, <3>2 DEF Progress
  <2> QED BY <1>1, <1>2, <2>1, <2>2, <2>4, <2>5, AcquireFrame DEF InDonation
<1>9. CASE DonateTest(t)
  <2>1. CASE Freed(chain[t])
    BY <1>9, <2>1, PanicKeepsDonation DEF DonateTest, Panic
  <2>2. CASE ~Freed(chain[t])
    <3>1. pc[t] = "chain_test"
      BY <1>9 DEF DonateTest, At
    <3>2. chain[t] = h /\ h \in Thread
      BY <1>0, <1>4, <3>1 DEF DonationInv, ChainInv, AtHolder, SynchTypeInv, LocalsKnown
    <3>3. wait_on_lock[h] = None
      <4>1. Owns(h, obj[t])
        BY <1>4 DEF Owns
      <4>2. Asking(h) => obj[h] = obj[t] /\ obj[h] \in Lock
        BY <1>3 DEF Asking, OneLock
      <4>3. ~Asking(h)
        BY <1>0, <3>2, <4>1, <4>2 DEF KernelFacts
      <4> QED BY <3>2, <4>3, NoLockBefore
    <3>4. /\ Goto(t, "down") /\ Local /\ chain' = [chain EXCEPT ![t] = None]
          /\ UNCHANGED <<priority, donorVars, objectVars, obj>>
      BY <1>9, <2>2, <3>2, <3>3 DEF DonateTest
    <3>5. pc'[t] = "down" /\ priority' = priority
      BY <1>0, <3>4 DEF Goto, KernelTypes
    <3>6. Progress(t, h)' /\ AtHolder(t)'
      <4>1. priority[h] >= priority[t]
        BY <1>0, <1>5, <3>1, <3>2 DEF Progress
      <4> QED BY <3>5, <4>1 DEF Progress, AtHolder
    <3> QED BY <1>1, <1>2, <1>4, <3>1, <3>4, <3>6, AcquireFrame DEF InDonation
  <2> QED BY <2>1, <2>2
<1> QED BY <1>6, <1>7, <1>8, <1>9

(* lock_try_acquire on a lock that is not free. *)
LEMMA QuietRefused ==
  ASSUME KernelInv, KernelInv', DonationInv, NEW t \in Thread, NEW l \in Lock,
         LockTryAcquire(t, l), SameOwners
  PROVE  DonationInv'
<1>0. KernelFacts /\ KernelTypes
  BY KernelKnown DEF KernelFacts
<1>1. current = t /\ pc[t] = "run" /\ Local
      /\ UNCHANGED <<priority, donorVars, waiters, holder, chain>>
  BY DEF LockTryAcquire, Calls, At, Runs
<1>2. ~(value[l] > 0)
  <2> SUFFICES ASSUME value[l] > 0 PROVE FALSE
    OBVIOUS
  <2>1. value' = [value EXCEPT ![l] = @ - 1]
    BY DEF LockTryAcquire
  <2>2. l \in Semaphore /\ value[l] \in Nat /\ value'[l] = value[l]
    BY <1>0 DEF KernelTypes, Semaphore, SameOwners
  <2>3. value'[l] = value[l] - 1
    BY <1>0, <2>1, <2>2 DEF KernelTypes
  <2> QED BY <2>2, <2>3
<1>3. UNCHANGED <<pc, obj>>
  BY <1>2 DEF LockTryAcquire
<1>4. pc'[t] = "run" /\ ~Asking(t) /\ ~Asking(t)' /\ AtHolder(t)'
  BY <1>1, <1>3 DEF Asking, InLockAcquire, AtHolder
<1>5. /\ UNCHANGED <<cpuVars, intr, block_list, priority, priority_origin, donations, waiters,
                     wait_on_lock>>
  BY <1>1 DEF Local, timerVars, donorVars
<1>6. LockNoted(t)'
  BY <1>4, <1>5, NoLockBefore DEF LockNoted
<1> QED BY <1>1, <1>3, <1>4, <1>5, <1>6, LocalFrame DEF Elsewhere, InDonation

(* sema_down takes a permit of a semaphore that is no lock. *)
LEMMA QuietPermit ==
  ASSUME KernelInv, KernelInv', DonationInv, NEW t \in Thread, SemaDown(t), SameOwners,
         obj[t] \in Sema, ~MustWait(t, obj[t])
  PROVE  DonationInv'
<1>0. KernelFacts /\ KernelTypes /\ obj[t] \notin Lock
  BY KernelKnown, SynchAssumption DEF KernelFacts
<1>1. /\ current = t /\ pc[t] \in {"down", "retry"} /\ Goto(t, "run")
      /\ wait_on_lock' = [wait_on_lock EXCEPT ![t] = None]
      /\ obj' = [obj EXCEPT ![t] = None]
      /\ UNCHANGED <<cpuVars, intr, block_list, priority, priority_origin, donations, waiters>>
  BY <1>0 DEF SemaDown, Runs, timerVars
<1>2. /\ pc'[t] = "run" /\ wait_on_lock'[t] = None
      /\ \A u \in Thread : u # t =>
           pc'[u] = pc[u] /\ obj'[u] = obj[u] /\ wait_on_lock'[u] = wait_on_lock[u]
  BY <1>0, <1>1 DEF KernelTypes, Goto
<1>3. ~Asking(t)' /\ AtHolder(t)'
  BY <1>2, FreeRunner
<1>4. LockNoted(t)'
  BY <1>2, <1>3 DEF LockNoted
<1> QED BY <1>0, <1>1, <1>2, <1>3, <1>4, LocalFrame DEF Elsewhere, InDonation

(* What only the labels of t and the priorities of owners can disturb. *)
LEMMA WantsKept ==
  ASSUME KernelFacts, DonationInv, OneLock, NEW t \in Thread, SameOwners,
         UNCHANGED <<current, intr, block_list, status, child, waiters, obj, wait_on_lock>>,
         current = t, pc[t] \in InLockAcquire, pc'[t] \in InDonation \ {"down"},
         obj[t] \in Lock, \A u \in Thread : u # t => pc'[u] = pc[u],
         priority' \in [Thread -> Priority],
         \A u \in Thread : \/ priority'[u] = priority[u]
                           \/ (priority'[u] >= priority[u] /\ Owns(u, obj[t]))
  PROVE  OnlyRunnerInside' /\ WaitOnLockInv' /\ OwnerInv' /\ FreeLockInv'
<1>0. \A u \in Thread : priority[u] \in Int /\ priority'[u] \in Int
  BY ThreadsAssumption DEF KernelFacts, Priority
<1>1. OnlyRunnerInside'
  BY DEF DonationInv, OnlyRunnerInside, InDonation, KernelFacts
<1>2. WaitOnLockInv'
  <2>1. ASSUME NEW u \in Thread PROVE LockNoted(u)'
    <3>1. Asking(u)' <=> Asking(u)
      BY DEF Asking, InDonation, InLockAcquire
    <3> QED BY <3>1 DEF DonationInv, WaitOnLockInv, LockNoted
  <2> QED BY <2>1 DEF WaitOnLockInv
<1>3. OwnerInv'
  <2>1. ASSUME NEW x \in Thread, NEW u \in Thread, NEW l \in Lock,
               Owns(x, l)', pc'[u] = "retry", obj'[u] = l
        PROVE  priority'[x] >= priority'[u]
    <3>1. u # t /\ Owns(x, l) /\ pc[u] = "retry" /\ obj[u] = l
      BY <2>1 DEF SameOwners, InDonation
    <3>2. Asking(u)
      BY <2>1, <3>1 DEF Asking
    <3>3. l = obj[t]
      BY DEF OneLock
    <3>4. ~Owns(u, obj[t])
      BY <3>1, <3>2, <3>3 DEF KernelFacts
    <3>5. priority'[u] = priority[u] /\ priority[x] >= priority[u]
      BY <3>1, <3>4 DEF DonationInv, OwnerInv
    <3> QED BY <1>0, <3>5
  <2> QED BY <2>1 DEF OwnerInv
<1>4. FreeLockInv'
  <2>1. ASSUME NEW l \in Lock, NEW u \in Thread, value'[l] = 1, WaitsFor(u, l)'
        PROVE  \E w \in Woken(l)' : priority'[w] >= priority'[u]
    <3>1. value[l] = 1 /\ WaitsFor(u, l) /\ l = obj[t]
      BY <2>1 DEF SameOwners, WaitsFor, OneLock
    <3>2. \A x \in Thread : priority'[x] = priority[x]
      BY <3>1 DEF KernelFacts
    <3>3. PICK w \in Woken(l) : priority[w] >= priority[u]
      BY <3>1 DEF DonationInv, FreeLockInv
    <3>4. w \in Thread /\ w # t
      BY <3>3 DEF Woken, InLockAcquire
    <3>5. w \in Woken(l)'
      BY <3>3, <3>4 DEF Woken, WaitsFor
    <3> QED BY <3>2, <3>3, <3>4, <3>5
  <2> QED BY <2>1 DEF FreeLockInv
<1> QED BY <1>1, <1>2, <1>3, <1>4

(* t enters the donations of the holder, whose own priority is lower. *)
LEMMA QuietPush ==
  ASSUME KernelInv, KernelInv', DonationInv, OneLock, NEW t \in Thread, PushDonation(t)
  PROVE  DonationInv'
<1>0. /\ KernelFacts /\ KernelTypes /\ KernelTypes' /\ SynchTypeInv /\ ReleasedHolderClear
      /\ None \notin Thread
  BY KernelKnown, KernelKnownNext, ThreadsAssumption DEF KernelFacts, KernelInv, ElemInv, IInv
<1>1. SameOwners
  BY <1>0, UndisturbedLockStep, UndisturbedOwners
<1>2. current = t /\ pc[t] = "donate"
  BY DEF PushDonation, At, Runs
<1>3. obj[t] \in Lock /\ Asking(t)
  BY <1>0, <1>2 DEF SynchTypeInv, LocalsKnown, Asking, InLockAcquire
<1>4. CASE UNCHANGED <<threadVars, donorVars, objectVars, localVars>>
  BY <1>4, PanicKeepsDonation
<1>5. CASE /\ holder[obj[t]] # None
           /\ donations' = [donations EXCEPT ![holder[obj[t]]] = Append(@, t)]
           /\ Goto(t, "chain_start") /\ Local
           /\ UNCHANGED <<priority, ops, priority_origin, wait_on_lock, objectVars, localVars>>
  <2>1. PICK h \in Thread : holder[obj[t]] = h
    BY <1>0, <1>3, <1>5 DEF KernelTypes
  <2>2. /\ UNCHANGED <<current, status, ready_list, intr, block_list, child, priority,
                       priority_origin, wait_on_lock, value, waiters, holder, obj, chain>>
        /\ pc'[t] = "chain_start" /\ \A u \in Thread : u # t => pc'[u] = pc[u]
    BY <1>0, <1>5 DEF KernelTypes, Goto, Local, timerVars, cpuVars, objectVars, localVars
  <2>3. Owns(h, obj[t])
    BY <2>1 DEF Owns
  <2>4. priority[t] > priority[h]
    BY <1>2, <1>3, <2>1 DEF DonationInv, RunnerInv, Progress
  <2>5. /\ Range(donations'[h]) = Range(donations[h]) \cup {t}
        /\ \A u \in Thread : u # h => donations'[u] = donations[u]
    <3>1. donations'[h] = Append(donations[h], t) /\ donations[h] \in Seq(Thread)
          /\ \A u \in Thread : u # h => donations'[u] = donations[u]
      BY <1>0, <1>5, <2>1 DEF KernelTypes
    <3> QED BY <3>1, AppendElement
  <2>6. OnlyRunnerInside' /\ WaitOnLockInv' /\ OwnerInv' /\ FreeLockInv'
    <3>1. pc'[t] \in InDonation \ {"down"} /\ pc[t] \in InLockAcquire
      BY <1>2, <2>2 DEF InDonation, InLockAcquire
    <3> QED BY <1>0, <1>1, <1>2, <1>3, <2>2, <3>1, WantsKept DEF KernelTypes
  <2>7. ASSUME NEW u \in Thread, NEW d \in Thread, DonorOf(d, u) PROVE DonorOf(d, u)'
    <3>0. PICK l \in Lock : obj[d] = l
      BY <2>7 DEF DonorOf
    <3>1. Owns(u, l)'
      BY <1>1, <2>7, <3>0 DEF DonorOf, SameOwners
    <3>2. WaitsFor(d, obj[d])' \/ (d = current' /\ pc'[d] \in InDonation)
      BY <1>2, <2>2, <2>7 DEF DonorOf, WaitsFor, InDonation
    <3> QED BY <2>2, <2>7, <3>0, <3>1, <3>2 DEF DonorOf
  <2>8. DonorOf(t, h)'
    <3>0. PICK l \in Lock : obj[t] = l
      BY <1>3
    <3>1. Owns(h, l)' /\ priority[h] >= priority_origin[h]
      BY <1>1, <2>3, <3>0 DEF SameOwners, DonationInv, DonorsInv
    <3>2. priority[t] > priority_origin[h]
      BY <1>0, <2>4, <3>1 DEF KernelFacts
    <3> QED BY <1>2, <2>2, <3>0, <3>1, <3>2 DEF DonorOf, InDonation
  <2>9. DonorsInv'
    <3>1. ASSUME NEW u \in Thread
          PROVE  /\ priority'[u] >= priority_origin'[u]
                 /\ Range(donations'[u]) = {} => priority'[u] = priority_origin'[u]
                 /\ \A d \in Range(donations'[u]) : DonorOf(d, u)'
      <4>1. /\ priority[u] >= priority_origin[u]
            /\ Range(donations[u]) = {} => priority[u] = priority_origin[u]
            /\ \A d \in Range(donations[u]) : d \in Thread /\ DonorOf(d, u)'
        BY <1>0, <2>7 DEF DonationInv, DonorsInv, KernelFacts
      <4>2. CASE u = h
        BY <2>2, <2>5, <2>8, <4>1, <4>2
      <4>3. CASE u # h
        BY <2>2, <2>5, <4>1, <4>3
      <4> QED BY <4>2, <4>3
    <3> QED BY <3>1 DEF DonorsInv
  <2>10. RunnerInv'
    <3>1. Progress(t, h)'
      BY <2>2, <2>4, <2>5 DEF Progress
    <3> QED BY <1>2, <2>1, <2>2, <3>1 DEF RunnerInv
  <2>11. ChainInv'
    BY <2>2 DEF DonationInv, ChainInv, AtHolder
  <2>12. ReadyInv'
    BY <1>1, <1>2, <2>2, LocalReady
  <2> QED BY <2>6, <2>9, <2>10, <2>11, <2>12 DEF DonationInv
<1> QED BY <1>4, <1>5 DEF PushDonation, Panic

(* The holder gets the priority of t; it owns the lock, so that its place   *)
(* in the ready list does not count.                                        *)
LEMMA QuietSet ==
  ASSUME KernelInv, KernelInv', DonationInv, OneLock, NEW t \in Thread, DonateSet(t)
  PROVE  DonationInv'
<1>0. /\ KernelFacts /\ KernelTypes /\ KernelTypes' /\ SynchTypeInv /\ ReleasedHolderClear
      /\ None \notin Thread /\ \A u \in Thread : priority'[u] \in Int
  BY KernelKnown, KernelKnownNext, ThreadsAssumption DEF KernelFacts, KernelInv, ElemInv, IInv
<1>1. SameOwners
  BY <1>0, UndisturbedLockStep, UndisturbedOwners
<1>2. current = t /\ pc[t] = "chain_set"
  BY DEF DonateSet, At, Runs
<1>3. obj[t] \in Lock /\ Asking(t) /\ chain[t] \in Thread
  BY <1>0, <1>2 DEF SynchTypeInv, LocalsKnown, Asking, InLockAcquire
<1> SUFFICES ASSUME ~Freed(chain[t]) PROVE DonationInv'
  BY PanicKeepsDonation DEF DonateSet, Panic
<1>4. PICK h \in Thread : chain[t] = h
  BY <1>3
<1>5. holder[obj[t]] = h
  BY <1>2, <1>4 DEF DonationInv, ChainInv, AtHolder
<1>6. Owns(h, obj[t])
  BY <1>5 DEF Owns
<1>7. priority[t] > priority[h] /\ t \in Range(donations[h])
  BY <1>2, <1>3, <1>5 DEF DonationInv, RunnerInv, Progress
<1>8. t # h
  BY <1>0, <1>7 DEF KernelFacts
<1>9. /\ UNCHANGED <<current, status, ready_list, intr, block_list, child, donations,
                     priority_origin, wait_on_lock, value, waiters, holder, obj, chain>>
      /\ pc'[t] = "chain_test" /\ \A u \in Thread : u # t => pc'[u] = pc[u]
      /\ priority'[h] = priority[t] /\ \A u \in Thread : u # h => priority'[u] = priority[u]
  BY <1>0, <1>4 DEF DonateSet, KernelTypes, Goto, Local, timerVars, cpuVars, objectVars,
     donorVars, localVars
<1>10. \A u \in Thread : priority'[u] >= priority[u]
  BY <1>0, <1>7, <1>9 DEF KernelFacts
<1>11. OnlyRunnerInside' /\ WaitOnLockInv' /\ OwnerInv' /\ FreeLockInv'
  <2>1. pc'[t] \in InDonation \ {"down"} /\ pc[t] \in InLockAcquire
    BY <1>2, <1>9 DEF InDonation, InLockAcquire
  <2>2. \A u \in Thread : \/ priority'[u] = priority[u]
                           \/ (priority'[u] >= priority[u] /\ Owns(u, obj[t]))
    BY <1>6, <1>9, <1>10
  <2> QED BY <1>0, <1>1, <1>2, <1>3, <1>9, <2>1, <2>2, WantsKept DEF KernelTypes
<1>12. DonorsInv'
  <2>1. ASSUME NEW u \in Thread, NEW d \in Thread, DonorOf(d, u) PROVE DonorOf(d, u)'
    <3>0. PICK l \in Lock : obj[d] = l
      BY <2>1 DEF DonorOf
    <3>1. Owns(u, l)'
      BY <1>1, <2>1, <3>0 DEF DonorOf, SameOwners
    <3>2. WaitsFor(d, obj[d])' \/ (d = current' /\ pc'[d] \in InDonation)
      BY <1>2, <1>9, <2>1 DEF DonorOf, WaitsFor, InDonation
    <3>3. priority'[d] > priority_origin[u]
      BY <1>0, <1>10, <2>1 DEF DonorOf, KernelFacts
    <3> QED BY <1>9, <2>1, <3>0, <3>1, <3>2, <3>3 DEF DonorOf
  <2>2. ASSUME NEW u \in Thread
        PROVE  /\ priority'[u] >= priority_origin'[u]
               /\ Range(donations'[u]) = {} => priority'[u] = priority_origin'[u]
               /\ \A d \in Range(donations'[u]) : DonorOf(d, u)'
    <3>1. /\ priority[u] >= priority_origin[u]
          /\ Range(donations[u]) = {} => priority[u] = priority_origin[u]
          /\ \A d \in Range(donations[u]) : d \in Thread /\ DonorOf(d, u)'
      BY <1>0, <2>1 DEF DonationInv, DonorsInv, KernelFacts
    <3>2. priority'[u] >= priority_origin[u]
      BY <1>0, <1>10, <3>1 DEF KernelFacts
    <3>3. Range(donations[u]) = {} => u # h
      BY <1>7
    <3> QED BY <1>9, <3>1, <3>2, <3>3
  <2> QED BY <2>2 DEF DonorsInv
<1>13. RunnerInv'
  <2>1. Progress(t, h)'
    <3>1. priority'[h] >= priority'[t]
      BY <1>0, <1>8, <1>9 DEF KernelFacts
    <3> QED BY <1>7, <1>9, <3>1 DEF Progress
  <2> QED BY <1>2, <1>5, <1>9, <2>1 DEF RunnerInv
<1>14. ChainInv'
  BY <1>4, <1>5, <1>9 DEF DonationInv, ChainInv, AtHolder
<1>15. ReadyInv'
  <2>1. Free' = Free /\ h \notin Free
    BY <1>1, <1>3, <1>6 DEF Free, SameOwners
  <2>2. OrderedBut(ready_list', priority', Free')
    <3>1. ASSUME NEW i \in 1..Len(ready_list), NEW j \in 1..Len(ready_list), i < j,
                 ready_list[j] \in Free
          PROVE  priority'[ready_list[i]] >= priority'[ready_list[j]]
      <4>1. PICK x, y : x = ready_list[i] /\ y = ready_list[j]
        OBVIOUS
      <4>0. ready_list \in Seq(Thread)
        BY <1>0 DEF KernelTypes
      <4>2. x \in Thread /\ y \in Thread /\ y # h
        BY <2>1, <3>1, <4>0, <4>1
      <4>3. priority[x] >= priority[y]
        BY <3>1, <4>1 DEF DonationInv, ReadyInv, OrderedBut
      <4>4. priority'[x] >= priority'[y]
        BY <1>0, <1>9, <1>10, <4>2, <4>3 DEF KernelFacts
      <4> QED BY <4>1, <4>4
    <3> QED BY <1>9, <2>1, <3>1 DEF OrderedBut
  <2>3. ASSUME NEW u \in Free PROVE Beaten(t, u)'
    <3>1. u \in Thread /\ u # h /\ Beaten(t, u)
      BY <1>2, <2>1, <2>3 DEF DonationInv, ReadyInv, Free
    <3> QED BY <1>2, <1>8, <1>9, <3>1 DEF Beaten
  <2>4. ASSUME NEW x \in Thread, NEW u \in Free', current' = x PROVE Beaten(x, u)'
    BY <1>2, <1>9, <2>1, <2>3, <2>4
  <2> QED BY <2>2, <2>4 DEF ReadyInv
<1> QED BY <1>11, <1>12, <1>13, <1>14, <1>15 DEF DonationInv

(* While the lock is free nobody has a donor and everybody counts. *)
LEMMA NobodyOwns ==
  ASSUME KernelFacts, DonationInv, OneLock, NEW l \in Lock, value[l] # 0
  PROVE  /\ \A u \in Thread, k \in Lock : ~Owns(u, k)
         /\ \A u \in Thread : Range(donations[u]) = {} /\ priority[u] = priority_origin[u]
         /\ Free = Thread
<1>1. \A u \in Thread, k \in Lock : ~Owns(u, k)
  BY DEF KernelFacts, OneLock
<1>2. ASSUME NEW u \in Thread PROVE Range(donations[u]) = {}
  BY <1>1 DEF DonationInv, DonorsInv, DonorOf
<1>3. Free = Thread
  BY <1>1 DEF Free
<1> QED BY <1>1, <1>2, <1>3 DEF DonationInv, DonorsInv

(* A thread that runs while the lock is free outranks all who want it. *)
LEMMA RunnerOutranks ==
  ASSUME KernelFacts, DonationInv, OneLock, NEW t \in Thread, current = t,
         pc[t] # "compare_child", NEW l \in Lock, value[l] = 1,
         NEW u \in Thread, pc[u] = "retry", obj[u] = l, u # t
  PROVE  priority[t] >= priority[u]
<1>0. Free = Thread /\ \A x \in Thread : priority[x] \in Int
  BY NobodyOwns DEF KernelFacts
<1>1. ASSUME NEW w \in Thread, pc[w] = "retry", obj[w] = l, ~WaitsFor(w, l), w # t
      PROVE  priority[t] >= priority[w]
  <2>1. w \notin Range(block_list)
    BY <1>1 DEF DonationInv, OnlyRunnerInside
  <2>2. status[w] = "ready"
    BY <1>1, <2>1 DEF KernelFacts
  <2> QED BY <1>0, <2>2 DEF DonationInv, ReadyInv, Beaten
<1>2. CASE WaitsFor(u, l)
  <2>1. PICK w \in Woken(l) : priority[w] >= priority[u]
    BY <1>2 DEF DonationInv, FreeLockInv
  <2>2. priority[t] >= priority[w] /\ w \in Thread
    <3>1. CASE w = t
      BY <1>0, <3>1
    <3>2. CASE w # t
      BY <1>1, <3>2 DEF Woken
    <3> QED BY <3>1, <3>2
  <2> QED BY <1>0, <2>1, <2>2
<1> QED BY <1>1, <1>2

(* t gets the lock, which nobody had: it outranks all who want it. *)
LEMMA TakeKeeps ==
  ASSUME KernelInv, DonationInv, OneLock, NEW t \in Thread, current = t, NEW l \in Lock,
         Takes(t, l), pc[t] # "compare_child", pc'[t] = "acquired", wait_on_lock'[t] = None,
         UNCHANGED <<cpuVars, intr, block_list, priority, priority_origin, donations, waiters>>,
         \A u \in Thread : u # t =>
           pc'[u] = pc[u] /\ obj'[u] = obj[u] /\ wait_on_lock'[u] = wait_on_lock[u]
  PROVE  DonationInv'
<1>0. KernelFacts /\ UNCHANGED <<current, status, ready_list>> /\ value[l] = 1
  BY KernelKnown DEF cpuVars, Takes
<1>1. /\ \A u \in Thread, k \in Lock : ~Owns(u, k)
      /\ \A u \in Thread : Range(donations[u]) = {} /\ priority[u] = priority_origin[u]
      /\ Free = Thread
  BY <1>0, NobodyOwns
<1>2. \A u \in Thread, k \in Lock : Owns(u, k)' => u = t
  BY <1>1 DEF Takes, OwnersBecome
<1>3. OnlyRunnerInside'
  <2>1. ASSUME NEW u \in Thread
        PROVE  /\ u # current' => pc'[u] \in {"run", "retry"}
               /\ pc'[u] \notin {"chain_next", "set_priority", "set_donated", "set_yield"}
               /\ u \in Range(block_list') => pc'[u] = "run"
               /\ pc'[u] = "compare_child" => status'[child'[u]] = "ready"
    <3>1. CASE u = t
      BY <1>0, <3>1 DEF KernelFacts
    <3>2. CASE u # t
      BY <1>0, <3>2 DEF DonationInv, OnlyRunnerInside
    <3> QED BY <3>1, <3>2
  <2> QED BY <2>1 DEF OnlyRunnerInside, DonationInv
<1>4. ~Asking(t)'
  BY DEF Asking, InLockAcquire
<1>5. WaitOnLockInv'
  <2>1. ASSUME NEW u \in Thread, u # t PROVE LockNoted(u)'
    BY <2>1 DEF DonationInv, WaitOnLockInv, LockNoted, Asking
  <2>2. LockNoted(t)'
    BY <1>4 DEF LockNoted
  <2> QED BY <2>1, <2>2 DEF WaitOnLockInv
<1>6. DonorsInv'
  BY <1>1 DEF DonationInv, DonorsInv
<1>7. RunnerInv'
  BY <1>0, <1>4 DEF RunnerInv
<1>8. ChainInv'
  <2>1. \A u \in Thread : pc'[u] \notin {"chain_set", "chain_test"}
    BY DEF DonationInv, OnlyRunnerInside
  <2> QED BY <2>1 DEF ChainInv, AtHolder
<1>9. OwnerInv'
  <2>1. ASSUME NEW x \in Thread, NEW u \in Thread, NEW k \in Lock,
               Owns(x, k)', pc'[u] = "retry", obj'[u] = k
        PROVE  priority'[x] >= priority'[u]
    <3>1. x = t /\ k = l /\ u # t
      BY <1>2, <2>1 DEF OneLock
    <3>2. pc[u] = "retry" /\ obj[u] = l
      BY <2>1, <3>1
    <3>3. priority[t] >= priority[u]
      BY <1>0, <3>1, <3>2, RunnerOutranks
    <3> QED BY <3>1, <3>3
  <2> QED BY <2>1 DEF OwnerInv
<1>10. FreeLockInv'
  BY DEF FreeLockInv, Takes, OneLock
<1>11. ReadyInv'
  <2>1. Free' \subseteq Free
    BY <1>1 DEF Free
  <2>2. OrderedBut(ready_list', priority', Free')
    BY <1>0, <2>1 DEF DonationInv, ReadyInv, OrderedBut
  <2>3. ASSUME NEW x \in Thread, NEW u \in Free', current' = x PROVE Beaten(x, u)'
    <3>1. x = t /\ u \in Free
      BY <1>0, <2>1, <2>3
    <3>2. Beaten(t, u)
      BY <3>1 DEF DonationInv, ReadyInv
    <3> QED BY <1>0, <3>1, <3>2 DEF Beaten
  <2> QED BY <2>2, <2>3 DEF ReadyInv
<1> QED BY <1>3, <1>5, <1>6, <1>7, <1>8, <1>9, <1>10, <1>11 DEF DonationInv

(* lock_try_acquire and sema_down on a free lock. *)
LEMMA QuietTake ==
  ASSUME KernelInv, DonationInv, OneLock, NEW t \in Thread,
         \/ \E l \in Lock : LockTryAcquire(t, l) /\ ~SameOwners
         \/ SemaDown(t) /\ obj[t] \in Lock /\ ~MustWait(t, obj[t])
  PROVE  DonationInv'
<1>0. KernelTypes /\ SynchTypeInv /\ LockPermit /\ ReleasedHolderClear
  BY KernelKnown DEF KernelFacts, KernelInv, IInv
<1>1. ASSUME NEW l \in Lock, LockTryAcquire(t, l), ~SameOwners PROVE DonationInv'
  <2>1. Takes(t, l)
    BY <1>0, <1>1, LockTryAcquireOwners
  <2>2. /\ current = t /\ pc[t] = "run" /\ Local
        /\ UNCHANGED <<priority, donorVars, waiters, holder, chain>>
    BY <1>1 DEF LockTryAcquire, Calls, At, Runs
  <2>3. obj' = [obj EXCEPT ![t] = l] /\ Goto(t, "acquired")
    <3>1. value[l] > 0
      BY <2>1 DEF Takes
    <3> QED BY <1>1, <3>1 DEF LockTryAcquire
  <2>4. /\ UNCHANGED <<cpuVars, intr, block_list, priority, priority_origin, donations, waiters,
                       wait_on_lock>>
        /\ pc'[t] = "acquired"
        /\ \A u \in Thread : u # t => pc'[u] = pc[u] /\ obj'[u] = obj[u]
    BY <1>0, <2>2, <2>3 DEF Local, timerVars, donorVars, KernelTypes, Goto
  <2>5. wait_on_lock'[t] = None
    BY <2>2, <2>4, NoLockBefore DEF Asking, InLockAcquire
  <2> QED BY <2>1, <2>2, <2>4, <2>5, TakeKeeps
<1>2. ASSUME SemaDown(t), obj[t] \in Lock, ~MustWait(t, obj[t]) PROVE DonationInv'
  <2>1. /\ current = t /\ pc[t] \in {"down", "retry"} /\ Goto(t, "acquired")
        /\ wait_on_lock' = [wait_on_lock EXCEPT ![t] = None] /\ obj' = obj
        /\ UNCHANGED <<cpuVars, intr, block_list, priority, priority_origin, donations, waiters>>
    BY <1>2 DEF SemaDown, Runs, timerVars
  <2>2. /\ pc'[t] = "acquired" /\ wait_on_lock'[t] = None
        /\ \A u \in Thread : u # t => pc'[u] = pc[u] /\ wait_on_lock'[u] = wait_on_lock[u]
    BY <1>0, <2>1 DEF KernelTypes, Goto
  <2>3. Takes(t, obj[t])
    BY <1>0, <1>2, <2>2, SemaDownOwners
  <2>4. PICK l \in Lock : obj[t] = l
    BY <1>2
  <2> QED BY <2>1, <2>2, <2>3, <2>4, TakeKeeps
<1> QED BY <1>1, <1>2

(* A switch to the head of a list in order. *)
LEMMA SwitchReady ==
  ASSUME KernelFacts', NEW q \in Seq(Thread), NEW st, schedule(st, q),
         OrderedBut(q, priority', Free')
  PROVE  ReadyInv'
<1>1. PICK p, S : p = priority' /\ S = Free'
  OBVIOUS
<1>2. p \in [Thread -> Priority] /\ Placed(status', ready_list') /\ OrderedBut(q, p, S)
  BY <1>1 DEF KernelFacts, KernelTypes, Placed
<1>3. /\ OrderedBut(ready_list', p, S)
      /\ \A t, u \in Thread : current' = t /\ u \in S /\ status'[u] = "ready" => p[t] >= p[u]
  BY <1>2, SwitchOrdered
<1>4. \A u \in Free' : u \in Thread
  BY DEF Free
<1> QED BY <1>1, <1>3, <1>4 DEF ReadyInv, Beaten

(* sema_down blocks: the donation of t, if it asks for the lock, is made. *)
LEMMA QuietBlock ==
  ASSUME KernelInv, KernelInv', DonationInv, OneLock, NEW t \in Thread, SemaDown(t),
         MustWait(t, obj[t])
  PROVE  DonationInv'
<1>0. /\ KernelFacts /\ KernelFacts' /\ KernelTypes /\ SynchTypeInv /\ LockPermit
      /\ ReleasedHolderClear
  BY KernelKnown, KernelKnownNext DEF KernelFacts, KernelInv, IInv
<1>1. PICK s \in Semaphore : obj[t] = s
  BY <1>0 DEF SynchTypeInv, LocalsKnown, SemaDown, Runs
<1>2. /\ current = t /\ pc[t] \in {"down", "retry"} /\ value[s] = 0
      /\ waiters' = [waiters EXCEPT ![s] = Append(@, t)] /\ thread_block(t)
      /\ Goto(t, "retry")
      /\ UNCHANGED <<wait_on_lock, value, obj, priority, block_list, intr, child,
                     priority_origin, donations, holder, chain>>
  BY <1>1 DEF SemaDown, Runs, MustWait, timerVars
<1>3. SameOwners
  <2>1. s \in Lock => ~Takes(t, s)
    BY <1>2 DEF Takes
  <2> QED BY <1>0, <1>1, <2>1, SemaDownOwners
<1>4. /\ pc'[t] = "retry" /\ \A u \in Thread : u # t => pc'[u] = pc[u]
      /\ Range(waiters'[s]) = Range(waiters[s]) \cup {t}
      /\ \A r \in Semaphore : r # s => waiters'[r] = waiters[r]
  <2>1. waiters'[s] = Append(waiters[s], t) /\ waiters[s] \in Seq(Thread)
    BY <1>0, <1>2 DEF KernelTypes
  <2> QED BY <1>0, <1>2, <2>1, AppendElement DEF KernelTypes, Goto
<1>5. \A u \in Thread : pc'[u] \in {"run", "retry"}
  BY <1>2, <1>4 DEF DonationInv, OnlyRunnerInside
<1>6. ASSUME NEW u \in Thread, NEW r \in Semaphore
      PROVE  WaitsFor(u, r)' <=> WaitsFor(u, r) \/ (u = t /\ r = s)
  BY <1>4 DEF WaitsFor
<1>7. OnlyRunnerInside'
  <2>1. t \notin Range(block_list)
    BY <1>0, <1>2 DEF KernelFacts
  <2>2. \A u \in Thread : u \in Range(block_list') => pc'[u] = "run"
    BY <1>2, <1>4, <2>1 DEF DonationInv, OnlyRunnerInside
  <2> QED BY <1>2, <1>5, <2>2 DEF DonationInv, OnlyRunnerInside
<1>8. WaitOnLockInv'
  <2>1. ASSUME NEW u \in Thread PROVE LockNoted(u)'
    <3>1. Asking(u)' <=> Asking(u)
      BY <1>2, <1>4 DEF Asking
    <3> QED BY <1>2, <3>1 DEF DonationInv, WaitOnLockInv, LockNoted
  <2> QED BY <2>1 DEF WaitOnLockInv
<1>9. DonorsInv'
  <2>1. ASSUME NEW u \in Thread, NEW d \in Thread, DonorOf(d, u) PROVE DonorOf(d, u)'
    <3>1. PICK l \in Lock : obj[d] = l
      BY <2>1 DEF DonorOf
    <3>2. Owns(u, l)'
      BY <1>3, <2>1, <3>1 DEF DonorOf, SameOwners
    <3>3. WaitsFor(d, l)'
      <4>1. l \in Semaphore
        BY DEF Semaphore
      <4>2. WaitsFor(d, l) \/ d = t
        BY <1>2, <2>1, <3>1 DEF DonorOf
      <4> QED BY <1>1, <1>6, <3>1, <4>1, <4>2
    <3> QED BY <1>2, <2>1, <3>1, <3>2, <3>3 DEF DonorOf
  <2>2. ASSUME NEW u \in Thread, NEW d \in Range(donations[u]) PROVE DonorOf(d, u)'
    BY <1>0, <2>1, <2>2 DEF DonationInv, DonorsInv, KernelFacts
  <2> QED BY <1>2, <2>2 DEF DonationInv, DonorsInv
<1>10. RunnerInv' /\ ChainInv'
  BY <1>5 DEF RunnerInv, ChainInv, AtHolder, Progress
<1>11. OwnerInv'
  <2>1. ASSUME NEW x \in Thread, NEW u \in Thread, NEW l \in Lock,
               Owns(x, l), pc'[u] = "retry", obj[u] = l
        PROVE  priority[x] >= priority[u]
    <3>1. CASE pc[u] = "retry"
      BY <2>1, <3>1 DEF DonationInv, OwnerInv
    <3>2. CASE pc[u] # "retry"
      <4>1. u = t /\ pc[t] = "down" /\ Asking(t)
        BY <1>2, <1>4, <2>1, <3>2 DEF Asking
      <4>2. x # t
        BY <1>0, <2>1, <4>1 DEF KernelFacts
      <4>3. holder[l] = x
        BY <1>2, <2>1, <4>2 DEF Owns, DonationInv, OnlyRunnerInside
      <4> QED BY <1>2, <2>1, <4>1, <4>3 DEF DonationInv, RunnerInv, Progress
    <3> QED BY <3>1, <3>2
  <2>2. ASSUME NEW x \in Thread, NEW u \in Thread, NEW l \in Lock,
               Owns(x, l)', pc'[u] = "retry", obj'[u] = l
        PROVE  priority'[x] >= priority'[u]
    BY <1>2, <1>3, <2>1, <2>2 DEF SameOwners
  <2> QED BY <2>2 DEF OwnerInv
<1>12. FreeLockInv'
  <2>1. ASSUME NEW l \in Lock, NEW u \in Thread, value'[l] = 1, WaitsFor(u, l)'
        PROVE  \E w \in Woken(l)' : priority'[w] >= priority'[u]
    <3>1. l \in Semaphore /\ l # s /\ value[l] = 1
      BY <1>2, <2>1 DEF Semaphore
    <3>2. WaitsFor(u, l)
      BY <1>6, <2>1, <3>1
    <3>3. PICK w \in Woken(l) : priority[w] >= priority[u]
      BY <3>1, <3>2 DEF DonationInv, FreeLockInv
    <3>4. w \in Thread /\ w # t /\ pc[w] = "retry" /\ obj[w] = l /\ ~WaitsFor(w, l)
      BY <1>1, <3>1, <3>3 DEF Woken
    <3>5. w \in Woken(l)'
      BY <1>2, <1>4, <1>6, <3>1, <3>4 DEF Woken
    <3> QED BY <1>2, <3>3, <3>5
  <2> QED BY <2>1 DEF FreeLockInv
<1>13. ReadyInv'
  <2>1. Free' = Free
    BY <1>3 DEF Free, SameOwners
  <2>2. OrderedBut(ready_list, priority', Free')
    BY <1>2, <2>1 DEF DonationInv, ReadyInv
  <2>3. PICK st : schedule(st, ready_list)
    BY <1>2 DEF thread_block
  <2> QED BY <1>0, <2>2, <2>3, SwitchReady DEF KernelTypes
<1> QED BY <1>7, <1>8, <1>9, <1>10, <1>11, <1>12, <1>13 DEF DonationInv

(* A scheduler's step of t that leaves the locks and the priorities alone, *)
(* and t between two calls or in another place of thread_create.           *)
LEMMA SchedulesKeeps ==
  ASSUME KernelInv, KernelInv', DonationInv, NEW t \in Thread, current = t,
         UNCHANGED <<synchVars, priority, intr>>, SameOwners,
         pc[t] \in {"run", "unblock_child", "compare_child", "insert_block"},
         pc'[t] \in {"run", "compare_child"},
         \A u \in Thread : u # t => pc'[u] = pc[u],
         pc'[t] = "compare_child" => status'[child'[t]] = "ready",
         current' = t \/ pc'[t] = "run",
         \A u \in Range(block_list') : u \in Range(block_list) \/ (u = t /\ pc'[t] = "run"),
         ReadyInv'
  PROVE  DonationInv'
<1>1. UNCHANGED <<priority_origin, donations, waiters, obj, wait_on_lock>>
  BY DEF synchVars, donorVars, objectVars, localVars
<1>2. ~Asking(t)' /\ AtHolder(t)' /\ pc'[t] \notin Elsewhere /\ ~Asking(t)
  BY FreeRunner DEF Asking, InLockAcquire
<1>3. LockNoted(t)'
  BY <1>1, <1>2, NoLockBefore DEF LockNoted
<1>4. Frame(t)
  BY <1>1, <1>2 DEF Frame, InDonation
<1> QED BY <1>2, <1>3, <1>4, FrameKeeps

(* thread_yield inserts t in order and switches. *)
LEMMA YieldReady ==
  ASSUME KernelFacts, KernelFacts', DonationInv, NEW t \in Thread, thread_yield(t),
         SameOwners, priority' = priority
  PROVE  ReadyInv'
<1>1. PICK q : q = InsertReady(ready_list, t, priority)
  OBVIOUS
<1>2. PICK st : schedule(st, q)
  BY <1>1 DEF thread_yield, do_schedule
<1>3. Free' = Free
  BY DEF Free, SameOwners
<1>4. OrderedBut(q, priority, Free)
  BY <1>1, InsertReadyOrdered DEF KernelFacts, KernelTypes, DonationInv, ReadyInv
<1>5. q \in Seq(Thread)
  BY <1>1, InsertReadyType DEF KernelFacts, KernelTypes
<1> QED BY <1>2, <1>3, <1>4, <1>5, SwitchReady

(* The scheduler's operations. *)
LEMMA QuietSchedules ==
  ASSUME KernelInv, KernelInv', DonationInv, NEW t \in Thread,
         \/ (CreateUnblock(t) \/ CreatePreempt(t) \/ YieldCPU(t) \/ insert_blockList(t))
            /\ UNCHANGED synchVars
         \/ Exit(t)
  PROVE  DonationInv'
<1>0. /\ KernelFacts /\ KernelFacts' /\ KernelTypes /\ SynchTypeInv /\ LockPermit
      /\ ReleasedHolderClear
      /\ \A u \in Thread : pc[u] \in {"unblock_child", "compare_child"} => child[u] \in Thread
  BY KernelKnown, KernelKnownNext
  DEF KernelFacts, KernelInv, IInv, SynchTypeInv, TypeInv, ChildKnown
<1>1. SameOwners
  <2>1. Schedules(t) \/ Exit(t)
    BY DEF Schedules
  <2> QED BY <1>0, <2>1, UndisturbedOther, UndisturbedOwners
<1>2. current = t /\ UNCHANGED <<synchVars, priority, intr>>
  BY DEF CreateUnblock, CreatePreempt, YieldCPU, insert_blockList, Exit, ThreadExit, Calls, At,
     Runs
<1>3. Free' = Free
  BY <1>1 DEF Free, SameOwners
<1>4. CASE CreateUnblock(t)
  <2>1. PICK n \in Thread : child[t] = n
    BY <1>0, <1>4 DEF CreateUnblock, At
  <2>2. /\ pc[t] = "unblock_child" /\ ready_list' = InsertReady(ready_list, n, priority)
        /\ status' = [status EXCEPT ![n] = "ready"]
        /\ UNCHANGED <<current, block_list, child>> /\ Goto(t, "compare_child")
    BY <1>4, <2>1 DEF CreateUnblock, At, thread_unblock
  <2>3. /\ pc'[t] = "compare_child" /\ \A u \in Thread : u # t => pc'[u] = pc[u]
        /\ status'[n] = "ready" /\ \A u \in Thread : u # n => status'[u] = status[u]
        /\ child'[t] = n
    BY <1>0, <2>1, <2>2 DEF KernelTypes, Goto
  <2>4. OrderedBut(ready_list', priority', Free')
    BY <1>0, <1>2, <1>3, <2>2, InsertReadyOrdered DEF KernelTypes, DonationInv, ReadyInv
  <2>5. ASSUME NEW x \in Thread, NEW u \in Free', current' = x PROVE Beaten(x, u)'
    <3>1. x = t /\ u \in Free /\ u \in Thread
      BY <1>2, <1>3, <2>2, <2>5 DEF Free
    <3>2. Beaten(t, u)
      BY <1>2, <3>1 DEF DonationInv, ReadyInv
    <3> QED BY <1>2, <2>2, <2>3, <3>1, <3>2 DEF Beaten
  <2>6. ReadyInv'
    BY <2>4, <2>5 DEF ReadyInv
  <2> QED BY <1>1, <1>2, <2>2, <2>3, <2>6, SchedulesKeeps
<1>5. CASE CreatePreempt(t)
  <2>1. PICK n \in Thread : child[t] = n
    BY <1>0, <1>5 DEF CreatePreempt, At
  <2>2. pc[t] = "compare_child" /\ block_list' = block_list /\ Goto(t, "run")
    BY <1>5 DEF CreatePreempt, At
  <2>3. pc'[t] = "run" /\ \A u \in Thread : u # t => pc'[u] = pc[u]
    BY <1>0, <2>2 DEF KernelTypes, Goto
  <2>4. status[n] = "ready"
    BY <2>1, <2>2 DEF DonationInv, OnlyRunnerInside
  <2>5. ReadyInv'
    <3>1. CASE thread_yield(t)
      BY <1>0, <1>1, <1>2, <3>1, YieldReady
    <3>2. CASE ~(priority[n] > priority[t]) /\ UNCHANGED cpuVars
      <4>1. UNCHANGED <<current, status, ready_list>>
        BY <3>2 DEF cpuVars
      <4>2. priority[n] \in Int /\ priority[t] \in Int
        BY <1>0 DEF KernelFacts
      <4>3. ASSUME NEW x \in Thread, NEW u \in Free', current' = x PROVE Beaten(x, u)'
        <5>1. x = t /\ u \in Free /\ u \in Thread
          BY <1>2, <1>3, <4>1, <4>3 DEF Free
        <5>2. Beaten(t, u)
          BY <1>2, <5>1 DEF DonationInv, ReadyInv
        <5> QED BY <1>2, <2>1, <3>2, <4>1, <4>2, <5>1, <5>2 DEF Beaten
      <4>4. OrderedBut(ready_list', priority', Free')
        BY <1>2, <1>3, <4>1 DEF DonationInv, ReadyInv
      <4> QED BY <4>3, <4>4 DEF ReadyInv
    <3> QED BY <1>5, <2>1, <2>4, <3>1, <3>2 DEF CreatePreempt
  <2> QED BY <1>1, <1>2, <2>2, <2>3, <2>5, SchedulesKeeps
<1>6. CASE YieldCPU(t)
  <2>1. pc[t] = "run" /\ UNCHANGED <<pc, block_list>> /\ thread_yield(t)
    BY <1>6 DEF YieldCPU, Calls, At
  <2>2. ReadyInv'
    BY <1>0, <1>1, <1>2, <2>1, YieldReady
  <2> QED BY <1>1, <1>2, <2>1, <2>2, SchedulesKeeps
<1>7. CASE insert_blockList(t) \/ Exit(t)
  <2>1. /\ pc[t] \in {"run", "insert_block"} /\ pc'[t] = "run"
        /\ \A u \in Thread : u # t => pc'[u] = pc[u]
    BY <1>0, <1>7 DEF insert_blockList, Exit, ThreadExit, At, Goto, KernelTypes
  <2>2. \A u \in Range(block_list') : u \in Range(block_list) \/ u = t
    <3>1. CASE block_list' = block_list
      BY <3>1
    <3>2. CASE block_list' = InsertSleeper(block_list, t)
      <4>1. endTick \in [Thread -> Int]
        BY <1>0 DEF SynchTypeInv, TypeInv, ThreadTypeOK
      <4>2. Range(block_list') = Range(block_list) \cup {t}
        BY <1>0, <3>2, <4>1, InsertSleeperResult DEF KernelTypes
      <4> QED BY <4>2
    <3> QED BY <1>7, <3>1, <3>2 DEF insert_blockList, Exit, ThreadExit
  <2>3. PICK st : schedule(st, ready_list)
    BY <1>7 DEF insert_blockList, Exit, ThreadExit, do_schedule
  <2>4. OrderedBut(ready_list, priority', Free')
    BY <1>2, <1>3 DEF DonationInv, ReadyInv
  <2>5. ReadyInv'
    BY <1>0, <2>3, <2>4, SwitchReady DEF KernelTypes
  <2> QED BY <1>1, <1>2, <2>1, <2>2, <2>5, SchedulesKeeps
<1> QED BY <1>4, <1>5, <1>6, <1>7

(* thread_create starts with a thread that no list and no lock knows. *)
LEMMA QuietCreate ==
  ASSUME KernelInv, KernelInv', DonationInv, NEW t \in Thread, NEW c \in Thread,
         NEW p \in Priority, Create(t, c, p)
  PROVE  DonationInv'
<1>0. /\ KernelFacts /\ KernelTypes /\ SynchTypeInv /\ LockPermit /\ ReleasedHolderClear
  BY KernelKnown DEF KernelFacts, KernelInv, IInv
<1>1. /\ current = t /\ pc[t] = "run" /\ status[c] = "none"
      /\ status' = [status EXCEPT ![c] = "blocked"]
      /\ priority' = [priority EXCEPT ![c] = p]
      /\ priority_origin' = [priority_origin EXCEPT ![c] = p]
      /\ child' = [child EXCEPT ![t] = c] /\ Goto(t, "unblock_child")
      /\ UNCHANGED <<current, ready_list, block_list, intr, wait_on_lock, donations, value,
                     waiters, holder, obj, chain>>
  BY DEF Create, CreateThread, Calls, At, Runs, listVars, timeVars, objectVars, localVars
<1>2. c # t
  BY <1>0, <1>1 DEF KernelFacts
<1>3. /\ pc'[t] = "unblock_child" /\ \A u \in Thread : u # t => pc'[u] = pc[u]
      /\ status'[c] = "blocked" /\ \A u \in Thread : u # c => status'[u] = status[u]
      /\ priority'[c] = p /\ priority_origin'[c] = p
      /\ \A u \in Thread : u # c =>
           priority'[u] = priority[u] /\ priority_origin'[u] = priority_origin[u]
      /\ \A u \in Thread : u # t => child'[u] = child[u]
  BY <1>0, <1>1 DEF KernelTypes, Goto
<1>4. SameOwners
  BY <1>0, UndisturbedOther, UndisturbedOwners
<1>5. pc[c] = "run" /\ \A l \in Lock : ~Owns(c, l)
  <2>1. OwesNothing(c)
    BY <1>1 DEF KernelInv, OrderInv, Live
  <2> QED BY <2>1 DEF OwesNothing, Holds, Owns
<1>6. ~Asking(t) /\ ~Asking(t)' /\ AtHolder(t)'
  BY <1>1, <1>3, FreeRunner DEF Asking, InLockAcquire
<1>7. OnlyRunnerInside'
  <2>1. ASSUME NEW u \in Thread
        PROVE  /\ u # current' => pc'[u] \in {"run", "retry"}
               /\ pc'[u] \notin {"chain_next", "set_priority", "set_donated", "set_yield"}
               /\ u \in Range(block_list') => pc'[u] = "run"
               /\ pc'[u] = "compare_child" => status'[child'[u]] = "ready"
    <3>1. CASE u = t
      BY <1>0, <1>1, <1>3, <3>1 DEF KernelFacts
    <3>2. CASE u # t
      BY <1>1, <1>3, <3>2 DEF DonationInv, OnlyRunnerInside
    <3> QED BY <3>1, <3>2
  <2> QED BY <1>1, <2>1 DEF OnlyRunnerInside, DonationInv
<1>8. WaitOnLockInv'
  <2>1. ASSUME NEW u \in Thread, u # t PROVE LockNoted(u)'
    BY <1>1, <1>3, <2>1 DEF DonationInv, WaitOnLockInv, LockNoted, Asking
  <2>2. LockNoted(t)'
    BY <1>1, <1>6, NoLockBefore DEF LockNoted
  <2> QED BY <2>1, <2>2 DEF WaitOnLockInv
<1>9. DonorsInv'
  <2>1. ASSUME NEW u \in Thread, NEW d \in Thread, DonorOf(d, u) PROVE DonorOf(d, u)'
    <3>1. PICK l \in Lock : obj[d] = l
      BY <2>1 DEF DonorOf
    <3>2. Owns(u, l)' /\ u # c
      BY <1>4, <1>5, <2>1, <3>1 DEF DonorOf, SameOwners
    <3>3. WaitsFor(d, l) /\ d # t
      BY <1>0, <1>1, <2>1, <3>1 DEF DonorOf, InDonation, KernelFacts, Semaphore
    <3>4. d # c
      BY <1>0, <1>5, <3>3 DEF KernelFacts, Semaphore
    <3> QED BY <1>1, <1>3, <2>1, <3>1, <3>2, <3>3, <3>4 DEF DonorOf, WaitsFor
  <2>2. ASSUME NEW u \in Thread
        PROVE  /\ priority'[u] >= priority_origin'[u]
               /\ Range(donations'[u]) = {} => priority'[u] = priority_origin'[u]
               /\ \A d \in Range(donations'[u]) : DonorOf(d, u)'
    <3>1. /\ priority[u] >= priority_origin[u]
          /\ Range(donations[u]) = {} => priority[u] = priority_origin[u]
          /\ \A d \in Range(donations[u]) : d \in Thread /\ DonorOf(d, u)'
      BY <1>0, <2>1 DEF DonationInv, DonorsInv, KernelFacts
    <3>2. p \in Int
      BY ThreadsAssumption DEF Priority
    <3> QED BY <1>1, <1>3, <3>1, <3>2
  <2> QED BY <2>2 DEF DonorsInv
<1>10. RunnerInv'
  BY <1>1, <1>6 DEF RunnerInv
<1>11. ChainInv'
  <2>1. \A u \in Thread : pc'[u] \notin {"chain_set", "chain_test"}
    BY <1>1, <1>3 DEF DonationInv, OnlyRunnerInside
  <2> QED BY <2>1 DEF ChainInv, AtHolder
<1>12. OwnerInv'
  <2>1. ASSUME NEW x \in Thread, NEW u \in Thread, NEW l \in Lock,
               Owns(x, l)', pc'[u] = "retry", obj'[u] = l
        PROVE  priority'[x] >= priority'[u]
    <3>1. x # c /\ u # c /\ u # t /\ Owns(x, l) /\ pc[u] = "retry" /\ obj[u] = l
      BY <1>1, <1>2, <1>3, <1>4, <1>5, <2>1 DEF SameOwners
    <3> QED BY <1>3, <3>1 DEF DonationInv, OwnerInv
  <2> QED BY <2>1 DEF OwnerInv
<1>13. FreeLockInv'
  <2>1. ASSUME NEW l \in Lock, NEW u \in Thread, value'[l] = 1, WaitsFor(u, l)'
        PROVE  \E w \in Woken(l)' : priority'[w] >= priority'[u]
    <3>1. l \in Semaphore /\ value[l] = 1 /\ WaitsFor(u, l)
      BY <1>1, <2>1 DEF Semaphore, WaitsFor
    <3>2. PICK w \in Woken(l) : priority[w] >= priority[u]
      BY <3>1 DEF DonationInv, FreeLockInv
    <3>3. w \in Thread /\ pc[w] = "retry" /\ obj[w] = l /\ ~WaitsFor(w, l)
      BY <3>2 DEF Woken
    <3>4. w # t /\ w # c /\ u # c
      BY <1>0, <1>1, <1>5, <3>1, <3>3 DEF KernelFacts
    <3>5. w \in Woken(l)'
      BY <1>1, <1>3, <3>3, <3>4 DEF Woken, WaitsFor
    <3> QED BY <1>3, <3>2, <3>3, <3>4, <3>5
  <2> QED BY <2>1 DEF FreeLockInv
<1>14. ReadyInv'
  <2>1. Free' = Free
    BY <1>4 DEF Free, SameOwners
  <2>2. c \notin Range(ready_list)
    BY <1>0, <1>1 DEF KernelFacts, Placed
  <2>3. ASSUME NEW i \in 1..Len(ready_list), NEW j \in 1..Len(ready_list), i < j,
               ready_list[j] \in Free
        PROVE  priority'[ready_list[i]] >= priority'[ready_list[j]]
    <3>1. PICK x, y : x = ready_list[i] /\ y = ready_list[j]
      OBVIOUS
    <3>2. x \in Thread /\ y \in Thread /\ x # c /\ y # c
      BY <1>0, <2>2, <3>1 DEF KernelTypes, Range
    <3>3. priority[x] >= priority[y]
      BY <2>3, <3>1 DEF DonationInv, ReadyInv, OrderedBut
    <3> QED BY <1>3, <3>1, <3>2, <3>3
  <2>4. OrderedBut(ready_list', priority', Free')
    BY <1>1, <2>1, <2>3 DEF OrderedBut
  <2>5. ASSUME NEW x \in Thread, NEW u \in Free', current' = x PROVE Beaten(x, u)'
    <3>1. x = t /\ u \in Free /\ u \in Thread
      BY <1>1, <2>1, <2>5 DEF Free
    <3>2. Beaten(t, u)
      BY <1>1, <3>1 DEF DonationInv, ReadyInv
    <3> QED BY <1>1, <1>2, <1>3, <3>1, <3>2 DEF Beaten
  <2> QED BY <2>4, <2>5 DEF ReadyInv
<1> QED BY <1>7, <1>8, <1>9, <1>10, <1>11, <1>12, <1>13, <1>14 DEF DonationInv

(* What sema_up makes of the running thread t and of the waiter n. *)
RunnerWakes(t, n, gone, rest, p) ==
  /\ p \in RestoredPriorities(t, gone, rest)
  /\ donations' = [donations EXCEPT ![t] = rest]
  /\ priority' = [priority EXCEPT ![t] = p]
  /\ IF p <= priority[n]
     THEN do_schedule(t, "ready", [status EXCEPT ![n] = "ready"],
            InsertReady(InsertReady(ready_list, n, priority'), t, priority'))
     ELSE /\ ready_list' = InsertReady(ready_list, n, priority')
          /\ status' = [status EXCEPT ![n] = "ready"]
          /\ current' = current

(* WakeWaiter, by the running thread. *)
LEMMA WakeWaiterIs ==
  ASSUME KernelTypes, NEW s \in Semaphore, NEW t \in Thread, current = t,
         WakeWaiter(s, FALSE)
  PROVE  \E gone, rest, p :
           /\ gone = Range(waiters[s]) \cap Range(donations[t])
           /\ rest = list_without(donations[t], gone)
           /\ RunnerWakes(t, waiters[s][list_max(waiters[s], priority)], gone, rest, p)
           /\ waiters' = [waiters EXCEPT ![s] = RemoveAt(@, list_max(waiters[s], priority))]
<1> DEFINE n == waiters[s][list_max(waiters[s], priority)]
<1> DEFINE gone == Range(waiters[s]) \cap Range(donations[t])
<1> DEFINE rest == list_without(donations[t], gone)
<1>1. current # Idle /\ Donors(current) = donations[t]
  BY ThreadsAssumption DEF Donors
<1>2. \E p \in RestoredPriorities(t, gone, rest) :
        /\ donations' = [donations EXCEPT ![t] = rest]
        /\ priority' = [priority EXCEPT ![t] = p]
        /\ IF p <= priority[n]
           THEN do_schedule(t, "ready", [status EXCEPT ![n] = "ready"],
                  InsertReady(InsertReady(ready_list, n, priority'), t, priority'))
           ELSE /\ ready_list' = InsertReady(ready_list, n, priority')
                /\ status' = [status EXCEPT ![n] = "ready"]
                /\ UNCHANGED <<current, destruction_req, thread_ticks>>
  BY <1>1 DEF WakeWaiter
<1>3. waiters' = [waiters EXCEPT ![s] = RemoveAt(@, list_max(waiters[s], priority))]
  BY DEF WakeWaiter
<1> HIDE DEF n, gone, rest
<1>4. \E p : RunnerWakes(t, n, gone, rest, p)
  BY <1>2 DEF RunnerWakes
<1> QED BY <1>3, <1>4 DEF n, gone, rest

(* The running thread is in no list, so that its priority does not count. *)
LEMMA RunnerApart ==
  ASSUME KernelFacts, DonationInv, NEW t \in Thread, current = t,
         \A u \in Thread : u # t => priority'[u] = priority[u],
         \A u \in Thread : u \in Free' => u \in Free \/ u = t
  PROVE  OrderedBut(ready_list, priority', Free')
<1>1. ASSUME NEW i \in 1..Len(ready_list), NEW j \in 1..Len(ready_list), i < j,
             ready_list[j] \in Free'
      PROVE  priority'[ready_list[i]] >= priority'[ready_list[j]]
  <2>1. PICK x, y : x = ready_list[i] /\ y = ready_list[j]
    OBVIOUS
  <2>2. t \notin Range(ready_list)
    BY DEF KernelFacts
  <2>3. x \in Thread /\ y \in Thread /\ x # t /\ y # t
    BY <2>1, <2>2 DEF KernelFacts, KernelTypes, Range
  <2>4. y \in Free
    BY <1>1, <2>1, <2>3
  <2>5. priority[x] >= priority[y]
    BY <1>1, <2>1, <2>4 DEF DonationInv, ReadyInv, OrderedBut
  <2> QED BY <2>1, <2>3, <2>5
<1> QED BY <1>1 DEF OrderedBut

(* sema_up inserts n, and t too unless it still outranks n. *)
LEMMA WakeReady ==
  ASSUME KernelFacts, KernelFacts', DonationInv, NEW t \in Thread, current = t,
         pc[t] # "compare_child", NEW n \in Thread, n # t,
         NEW gone, NEW rest, NEW p, RunnerWakes(t, n, gone, rest, p),
         p = priority[t] \/ p <= priority[n],
         \A u \in Thread : u \in Free' => u \in Free \/ u = t
  PROVE  ReadyInv'
<1>1. priority'[t] = p /\ \A u \in Thread : u # t => priority'[u] = priority[u]
  BY DEF RunnerWakes, KernelFacts, KernelTypes
<1>2. PICK P, F : P = priority' /\ F = Free'
  OBVIOUS
<1>3. P \in [Thread -> Priority] /\ ready_list \in Seq(Thread) /\ OrderedBut(ready_list, P, F)
  <2>1. priority' \in [Thread -> Priority]
    BY DEF KernelFacts, KernelTypes
  <2>2. ready_list \in Seq(Thread)
    BY DEF KernelFacts, KernelTypes
  <2>3. OrderedBut(ready_list, priority', Free')
    BY <1>1, RunnerApart
  <2> QED BY <1>2, <2>1, <2>2, <2>3
<1>4. PICK q : q = InsertReady(ready_list, n, P)
  OBVIOUS
<1>5. q \in Seq(Thread) /\ OrderedBut(q, P, F)
  BY <1>3, <1>4, InsertReadyType, InsertReadyOrdered
<1>6. CASE p <= priority[n]
  <2>1. PICK r : r = InsertReady(q, t, P)
    OBVIOUS
  <2>2. r \in Seq(Thread) /\ OrderedBut(r, P, F)
    BY <1>3, <1>5, <2>1, InsertReadyType, InsertReadyOrdered
  <2>3. PICK st : schedule(st, r)
    BY <1>2, <1>4, <1>6, <2>1 DEF RunnerWakes, do_schedule
  <2> QED BY <1>2, <2>2, <2>3, SwitchReady
<1>7. CASE ~(p <= priority[n])
  <2>1. ready_list' = q /\ status' = [status EXCEPT ![n] = "ready"] /\ current' = t
    BY <1>2, <1>4, <1>7 DEF RunnerWakes
  <2>2. p = priority[t] /\ p \in Int /\ priority[n] \in Int /\ p > priority[n]
    BY <1>7 DEF KernelFacts
  <2>3. status'[t] = "running" /\ \A u \in Thread : u # n => status'[u] = status[u]
    BY <2>1 DEF KernelFacts, KernelTypes
  <2>4. ASSUME NEW u \in Thread, u \in Free', status'[u] = "ready"
        PROVE  priority'[t] >= priority'[u]
    <3>1. CASE u = n
      BY <1>1, <2>2, <3>1
    <3>2. CASE u # n
      <4>1. u # t /\ u \in Free /\ status[u] = "ready"
        BY <2>3, <2>4, <3>2
      <4>2. priority[t] >= priority[u]
        BY <4>1 DEF DonationInv, ReadyInv, Beaten
      <4> QED BY <1>1, <2>2, <4>1, <4>2
    <3> QED BY <3>1, <3>2
  <2>5. \A u \in Free' : u \in Thread
    BY DEF Free
  <2> QED BY <1>2, <1>5, <2>1, <2>4, <2>5 DEF ReadyInv, Beaten
<1> QED BY <1>6, <1>7

(* A donor of a thread that runs and donates nothing itself is waiting. *)
LEMMA DonorsWait ==
  ASSUME KernelFacts, DonationInv, NEW t \in Thread, current = t, pc[t] \notin InDonation,
         NEW u \in Thread, NEW d \in Range(donations[u])
  PROVE  /\ d \in Thread /\ obj[d] \in Lock /\ WaitsFor(d, obj[d]) /\ Owns(u, obj[d])
         /\ priority[d] > priority_origin[u]
<1>1. d \in Thread /\ DonorOf(d, u)
  BY DEF KernelFacts, DonationInv, DonorsInv
<1> QED BY <1>1 DEF DonorOf

(* sema_up of another semaphore wakes no donor. *)
LEMMA QuietUp ==
  ASSUME KernelInv, KernelInv', DonationInv, NEW t \in Thread, NEW s \in Sema, SemaUp(t, s)
  PROVE  DonationInv'
<1>0. /\ KernelFacts /\ KernelFacts' /\ KernelTypes /\ SynchTypeInv /\ LockPermit
      /\ ReleasedHolderClear /\ ElemInv
  BY KernelKnown, KernelKnownNext DEF KernelFacts, KernelInv, IInv
<1>1. current = t /\ pc[t] = "run" /\ s \in Semaphore /\ s \notin Lock
  BY SynchAssumption DEF SemaUp, Calls, At, Runs, Semaphore
<1>2. SameOwners
  BY <1>0, UndisturbedOther, UndisturbedOwners
<1>3. CASE WalksFreedDonor(s)
  BY <1>3, StillKeeps DEF SemaUp, timerVars
<1>4. CASE ~WalksFreedDonor(s)
  <2>1. /\ sema_up(s, FALSE)
        /\ UNCHANGED <<pc, obj, block_list, intr, child, priority_origin, wait_on_lock, holder,
                       chain>>
    BY <1>4 DEF SemaUp, sema_up, timerVars
  <2>2. ~Asking(t) /\ ~Asking(t)' /\ AtHolder(t)' /\ pc'[t] = "run"
    BY <1>1, <2>1 DEF Asking, InLockAcquire, AtHolder
  <2>3. LockNoted(t)'
    BY <2>1, <2>2, NoLockBefore DEF LockNoted
  <2>4. CASE waiters[s] = <<>>
    <3>1. UNCHANGED <<cpuVars, priority, waiters, donations>>
      BY <2>1, <2>4 DEF sema_up
    <3> QED BY <1>1, <1>2, <2>1, <2>2, <2>3, <3>1, LocalFrame DEF Elsewhere, InDonation
  <2>5. CASE waiters[s] # <<>>
    <3>1. WakeWaiter(s, FALSE)
      BY <2>1, <2>5 DEF sema_up
    <3>2. PICK k, n : k = list_max(waiters[s], priority) /\ n = waiters[s][k]
      OBVIOUS
    <3>3. n \in Thread /\ WaitsFor(n, s)
      BY <1>0, <1>1, <2>5, <3>2, WokenWaiter
    <3>4. PICK gone, rest, p :
             /\ gone = Range(waiters[s]) \cap Range(donations[t])
             /\ rest = list_without(donations[t], gone)
             /\ RunnerWakes(t, n, gone, rest, p)
             /\ waiters' = [waiters EXCEPT ![s] = RemoveAt(@, k)]
      BY <1>0, <1>1, <3>1, <3>2, WakeWaiterIs
    <3>5. gone = {}
      <4>1. ASSUME NEW d \in gone PROVE FALSE
        <5>1. d \in Range(donations[t]) /\ WaitsFor(d, s)
          BY <3>4, <4>1 DEF WaitsFor
        <5>2. d \in Thread /\ obj[d] \in Lock
          BY <1>0, <1>1, <5>1, DonorsWait DEF InDonation
        <5>3. obj[d] = s
          BY <1>0, <1>1, <5>1, <5>2 DEF KernelFacts
        <5> QED BY <1>1, <5>2, <5>3
      <4> QED BY <4>1
    <3>6. p = priority[t] /\ priority' = priority
      BY <1>0, <3>4, <3>5 DEF RunnerWakes, RestoredPriorities, KernelTypes
    <3>7. \A u \in Thread : Range(donations'[u]) = Range(donations[u])
      <4>1. donations[t] \in Seq(Thread)
        BY <1>0 DEF KernelTypes
      <4>2. Range(rest) = Range(donations[t]) \ {}
        BY <3>4, <3>5, <4>1, WithoutElements
      <4>3. donations'[t] = rest /\ \A u \in Thread : u # t => donations'[u] = donations[u]
        BY <1>0, <3>4 DEF RunnerWakes, KernelTypes
      <4> QED BY <4>2, <4>3
    <3>8. \A l \in Lock : waiters'[l] = waiters[l]
      BY <1>0, <1>1, <3>4 DEF KernelTypes, Semaphore
    <3>9. \A u \in Thread : u \in Free' => u \in Free \/ u = t
      BY <1>2 DEF Free, SameOwners
    <3>10. n # t
      BY <1>0, <1>1, <3>3 DEF KernelFacts
    <3>11. ReadyInv'
      BY <1>0, <1>1, <3>3, <3>4, <3>6, <3>9, <3>10, WakeReady
    <3>12. Frame(t)
      BY <1>1, <1>2, <2>1, <2>2, <3>6, <3>7, <3>8 DEF Frame, Elsewhere, InDonation
    <3> QED BY <2>2, <2>3, <3>11, <3>12, FrameKeeps
  <2> QED BY <2>4, <2>5
<1> QED BY <1>3, <1>4

(* What sema_up in lock_release leaves of the donations: nothing. *)
DonationOver(t, l) ==
  /\ Range(donations'[t]) = {} /\ priority'[t] = priority_origin[t]
  /\ \A u \in Thread : u # t =>
       donations'[u] = donations[u] /\ priority'[u] = priority[u]
  /\ \A u \in Thread : WaitsFor(u, l)' =>
       \E n \in Thread : /\ WaitsFor(n, l) /\ ~WaitsFor(n, l)'
                         /\ WaitsFor(u, l) /\ priority[n] >= priority[u]
  /\ ReadyInv'

(* In lock_release all donors are waiters of the lock, and all leave. *)
LEMMA ReleaseOver ==
  ASSUME KernelInv, KernelInv', DonationInv, OneLock, NEW t \in Thread, current = t,
         pc[t] = "release", NEW l \in Lock, Owns(t, l), sema_up(l, FALSE)
  PROVE  DonationOver(t, l)
<1>0. /\ KernelFacts /\ KernelFacts' /\ KernelTypes /\ ElemInv /\ l \in Semaphore
  BY KernelKnown, KernelKnownNext DEF KernelFacts, KernelInv, Semaphore
<1>1. \A d \in Range(donations[t]) : WaitsFor(d, l) /\ priority[d] > priority_origin[t]
  BY <1>0, DonorsWait DEF InDonation, OneLock
<1>2. \A u \in Thread : u \in Free' => u \in Free \/ u = t
  BY <1>0 DEF Free, KernelFacts, OneLock
<1>3. /\ priority[t] >= priority_origin[t]
      /\ Range(donations[t]) = {} => priority[t] = priority_origin[t]
  BY DEF DonationInv, DonorsInv
<1>4. CASE waiters[l] = <<>>
  <2>1. UNCHANGED <<cpuVars, priority, waiters, donations>>
    BY <1>4 DEF sema_up
  <2>2. UNCHANGED <<current, status, ready_list>>
    BY <2>1 DEF cpuVars
  <2>3. Range(<<>>) = {}
    BY DEF Range
  <2>4. \A u \in Thread : ~WaitsFor(u, l) /\ ~WaitsFor(u, l)'
    BY <1>4, <2>1, <2>3 DEF WaitsFor
  <2>5. Range(donations[t]) = {}
    <3>1. ASSUME NEW d \in Range(donations[t]) PROVE FALSE
      BY <1>0, <1>1, <2>4, <3>1 DEF KernelFacts
    <3> QED BY <3>1
  <2>6. OrderedBut(ready_list', priority', Free')
    <3>1. OrderedBut(ready_list, priority', Free')
      BY <1>0, <1>2, <2>1, RunnerApart
    <3> QED BY <2>2, <3>1
  <2>7. ASSUME NEW x \in Thread, NEW u \in Free', current' = x PROVE Beaten(x, u)'
    <3>1. x = t /\ u \in Thread /\ (u \in Free \/ u = t)
      BY <1>2, <2>2, <2>7 DEF Free
    <3>2. status[t] = "running"
      BY <1>0 DEF KernelFacts
    <3>3. CASE u = t
      BY <2>2, <3>2, <3>3 DEF Beaten
    <3>4. CASE u # t
      <4>1. Beaten(t, u)
        BY <3>1, <3>4 DEF DonationInv, ReadyInv
      <4> QED BY <2>1, <2>2, <3>1, <4>1 DEF Beaten
    <3> QED BY <3>3, <3>4
  <2>8. ReadyInv'
    BY <2>6, <2>7 DEF ReadyInv
  <2> QED BY <1>3, <2>1, <2>4, <2>5, <2>8 DEF DonationOver
<1>5. CASE waiters[l] # <<>>
  <2>1. WakeWaiter(l, FALSE)
    BY <1>5 DEF sema_up
  <2>2. PICK k, n : k = list_max(waiters[l], priority) /\ n = waiters[l][k]
    OBVIOUS
  <2>3. /\ n \in Thread /\ WaitsFor(n, l)
        /\ Range(RemoveAt(waiters[l], k)) = Range(waiters[l]) \ {n}
        /\ \A u \in Range(waiters[l]) : priority[u] <= priority[n]
    BY <1>0, <1>5, <2>2, WokenWaiter
  <2>4. PICK gone, rest, p :
           /\ gone = Range(waiters[l]) \cap Range(donations[t])
           /\ rest = list_without(donations[t], gone)
           /\ RunnerWakes(t, n, gone, rest, p)
           /\ waiters' = [waiters EXCEPT ![l] = RemoveAt(@, k)]
    BY <1>0, <2>1, <2>2, WakeWaiterIs
  <2>5. gone = Range(donations[t])
    BY <1>1, <2>4 DEF WaitsFor
  <2>6. rest \in Seq(Thread) /\ Range(rest) = {}
    <3>1. donations[t] \in Seq(Thread)
      BY <1>0 DEF KernelTypes
    <3>2. rest \in Seq(Thread) /\ Range(rest) = Range(donations[t]) \ gone
      BY <2>4, <3>1, WithoutElements
    <3> QED BY <2>5, <3>2
  <2>7. rest = <<>>
    <3>1. Len(rest) = 0
      <4> SUFFICES ASSUME Len(rest) # 0 PROVE FALSE
        OBVIOUS
      <4>1. 1 \in 1..Len(rest)
        BY <2>6
      <4>2. rest[1] \in Range(rest)
        BY <2>6, <4>1 DEF Range
      <4> QED BY <2>6, <4>2
    <3> QED BY <2>6, <3>1
  <2>8. p = priority_origin[t]
    BY <1>3, <2>4, <2>5, <2>7 DEF RunnerWakes, RestoredPriorities
  <2>9. /\ donations'[t] = rest /\ priority'[t] = p
        /\ \A u \in Thread : u # t => donations'[u] = donations[u] /\ priority'[u] = priority[u]
    BY <1>0, <2>4 DEF RunnerWakes, KernelTypes
  <2>10. p = priority[t] \/ p <= priority[n]
    <3>1. CASE Range(donations[t]) = {}
      BY <1>3, <2>8, <3>1
    <3>2. CASE Range(donations[t]) # {}
      <4>1. PICK d \in Range(donations[t]) : TRUE
        BY <3>2
      <4>2. d \in Thread /\ d \in Range(waiters[l]) /\ priority[d] > p
        BY <1>0, <1>1, <2>8, <4>1 DEF KernelFacts, WaitsFor
      <4>3. p \in Int /\ priority[d] \in Int /\ priority[n] \in Int
        BY <1>0, <2>3, <2>8, <4>2 DEF KernelFacts
      <4> QED BY <2>3, <4>2, <4>3
    <3> QED BY <3>1, <3>2
  <2>11. n # t
    BY <1>0, <2>3 DEF KernelFacts
  <2>12. ReadyInv'
    BY <1>0, <1>2, <2>3, <2>4, <2>10, <2>11, WakeReady
  <2>13. waiters'[l] = RemoveAt(waiters[l], k)
    BY <1>0, <2>4 DEF KernelTypes
  <2>14. /\ ~WaitsFor(n, l)'
         /\ \A u \in Thread : WaitsFor(u, l)' => WaitsFor(u, l)
    BY <2>3, <2>13 DEF WaitsFor
  <2>15. \A u \in Thread : WaitsFor(u, l) => priority[n] >= priority[u]
    BY <1>0, <2>3 DEF WaitsFor, KernelFacts
  <2> QED BY <2>3, <2>6, <2>8, <2>9, <2>12, <2>14, <2>15 DEF DonationOver
<1> QED BY <1>4, <1>5

(* The end of lock_release: nobody owns the lock, nobody has a donor. *)
LEMMA QuietRelease ==
  ASSUME KernelInv, KernelInv', DonationInv, OneLock, NEW t \in Thread, ReleaseUp(t)
  PROVE  DonationInv'
<1>0. /\ KernelFacts /\ KernelFacts' /\ KernelTypes /\ SynchTypeInv /\ LockPermit
      /\ ReleasedHolderClear
  BY KernelKnown, KernelKnownNext DEF KernelFacts, KernelInv, IInv
<1>1. current = t /\ pc[t] = "release"
  BY DEF ReleaseUp, At, Runs
<1>2. CASE WalksFreedDonor(obj[t])
  BY <1>2, PanicKeepsDonation DEF ReleaseUp, Panic
<1>3. CASE ~WalksFreedDonor(obj[t])
  <2>1. PICK l \in Lock : obj[t] = l
    BY <1>0, <1>1 DEF SynchTypeInv, LocalsKnown
  <2>2. /\ sema_up(l, FALSE) /\ obj' = [obj EXCEPT ![t] = None] /\ Goto(t, "run")
        /\ UNCHANGED <<block_list, intr, child, priority_origin, wait_on_lock, holder, chain>>
    BY <1>3, <2>1 DEF ReleaseUp, sema_up, timerVars
  <2>3. /\ pc'[t] = "run"
        /\ \A u \in Thread : u # t => pc'[u] = pc[u] /\ obj'[u] = obj[u]
    BY <1>0, <2>2 DEF KernelTypes, Goto
  <2>4. Owns(t, l) /\ value'[l] = 1 /\ OwnersBecome(t, l, FALSE)
    <3>1. \/ Panic("freed donor") /\ SameOwners
          \/ pc'[t] = "run" /\ obj[t] \in Lock /\ Gives(t, obj[t])
      BY <1>0, ReleaseUpOwners
    <3>2. ~(Panic("freed donor") /\ SameOwners)
      BY <1>1, <2>3 DEF Panic, threadVars
    <3> QED BY <2>1, <3>1, <3>2 DEF Gives
  <2>5. \A u \in Thread, k \in Lock : ~Owns(u, k)'
    BY <1>0, <2>4 DEF OwnersBecome, OneLock, KernelFacts
  <2>6. DonationOver(t, l)
    BY <1>1, <2>2, <2>4, ReleaseOver
  <2>7. \A u \in Thread : pc'[u] \in {"run", "retry"}
    BY <1>1, <2>3 DEF DonationInv, OnlyRunnerInside
  <2>8. OnlyRunnerInside'
    <3>1. t \notin Range(block_list)
      BY <1>0, <1>1 DEF KernelFacts
    <3>2. \A u \in Thread : u \in Range(block_list') => pc'[u] = "run"
      BY <2>2, <2>3, <3>1 DEF DonationInv, OnlyRunnerInside
    <3> QED BY <2>2, <2>7, <3>2 DEF DonationInv, OnlyRunnerInside
  <2>9. WaitOnLockInv'
    <3>1. ASSUME NEW u \in Thread, u # t PROVE LockNoted(u)'
      BY <2>2, <2>3, <3>1 DEF DonationInv, WaitOnLockInv, LockNoted, Asking
    <3>2. ~Asking(t) /\ ~Asking(t)'
      BY <1>1, <2>3 DEF Asking, InLockAcquire
    <3>3. LockNoted(t)'
      BY <2>2, <3>2, NoLockBefore DEF LockNoted
    <3> QED BY <3>1, <3>3 DEF WaitOnLockInv
  <2>10. DonorsInv'
    <3>1. ASSUME NEW u \in Thread, u # t PROVE Range(donations[u]) = {}
      <4>1. ASSUME NEW d \in Range(donations[u]) PROVE FALSE
        <5>1. obj[d] \in Lock /\ Owns(u, obj[d])
          BY <1>0, <1>1, <4>1, DonorsWait DEF InDonation
        <5>2. obj[d] = l
          BY <5>1 DEF OneLock
        <5> QED BY <1>0, <2>4, <3>1, <5>1, <5>2 DEF KernelFacts
      <4> QED BY <4>1
    <3>2. ASSUME NEW u \in Thread
          PROVE  Range(donations'[u]) = {} /\ priority'[u] = priority_origin'[u]
      <4>1. CASE u = t
        BY <2>2, <2>6, <4>1 DEF DonationOver
      <4>2. CASE u # t
        BY <2>2, <2>6, <3>1, <4>2 DEF DonationOver, DonationInv, DonorsInv
      <4> QED BY <4>1, <4>2
    <3>3. \A u \in Thread : priority'[u] \in Int
      BY <1>0 DEF KernelFacts
    <3> QED BY <3>2, <3>3 DEF DonorsInv
  <2>11. RunnerInv' /\ ChainInv'
    BY <2>7 DEF RunnerInv, ChainInv, AtHolder, Progress
  <2>12. OwnerInv'
    BY <2>5 DEF OwnerInv
  <2>13. FreeLockInv'
    <3>1. ASSUME NEW u \in Thread, WaitsFor(u, l)'
          PROVE  \E w \in Woken(l)' : priority'[w] >= priority'[u]
      <4>1. PICK n \in Thread : /\ WaitsFor(n, l) /\ ~WaitsFor(n, l)'
                                /\ WaitsFor(u, l) /\ priority[n] >= priority[u]
        BY <2>6, <3>1 DEF DonationOver
      <4>2. l \in Semaphore
        BY DEF Semaphore
      <4>3. n # t /\ u # t /\ pc[n] = "retry" /\ obj[n] = l
        BY <1>0, <1>1, <4>1, <4>2 DEF KernelFacts
      <4>4. n \in Woken(l)'
        BY <2>3, <4>1, <4>3 DEF Woken
      <4>5. priority'[n] >= priority'[u]
        BY <2>6, <4>1, <4>3 DEF DonationOver
      <4> QED BY <4>4, <4>5
    <3>2. ASSUME NEW k \in Lock, NEW u \in Thread, value'[k] = 1, WaitsFor(u, k)'
          PROVE  \E w \in Woken(k)' : priority'[w] >= priority'[u]
      <4>1. k = l
        BY DEF OneLock
      <4> QED BY <3>1, <3>2, <4>1
    <3> QED BY <3>2 DEF FreeLockInv
  <2> QED BY <2>6, <2>8, <2>9, <2>10, <2>11, <2>12, <2>13 DEF DonationInv, DonationOver
<1> QED BY <1>2, <1>3

LEMMA InitDonationInv == SynchInit => DonationInv
<1> SUFFICES ASSUME SynchInit PROVE DonationInv
  OBVIOUS
<1>1. /\ current = Main /\ priority = [t \in Thread |-> PRI_DEFAULT]
      /\ status = [t \in Thread |-> IF t = Main THEN "running" ELSE "none"]
      /\ ready_list = <<>> /\ block_list = <<>> /\ intr = "none"
      /\ pc = [t \in Thread |-> "run"]
  BY DEF SynchInit, Init
<1>2. /\ priority_origin = [t \in Thread |-> PRI_DEFAULT]
      /\ wait_on_lock = [t \in Thread |-> None] /\ donations = [t \in Thread |-> <<>>]
      /\ waiters = [s \in Semaphore |-> <<>>]
  BY DEF SynchInit
<1>3. Range(<<>>) = {} /\ PRI_DEFAULT \in Int
  BY ThreadsAssumption DEF Range
<1>4. \A t \in Thread : pc[t] = "run" /\ ~Asking(t) /\ status[t] # "ready"
  BY <1>1 DEF Asking, InLockAcquire
<1>5. \A t \in Thread, s \in Semaphore : ~WaitsFor(t, s)
  BY <1>2, <1>3 DEF WaitsFor
<1>6. OnlyRunnerInside
  BY <1>1, <1>3, <1>4 DEF OnlyRunnerInside
<1>7. WaitOnLockInv
  BY <1>2, <1>4 DEF WaitOnLockInv, LockNoted
<1>8. DonorsInv
  BY <1>1, <1>2, <1>3 DEF DonorsInv
<1>9. RunnerInv /\ ChainInv /\ OwnerInv
  BY <1>4 DEF RunnerInv, ChainInv, AtHolder, OwnerInv
<1>10. FreeLockInv
  BY <1>5 DEF FreeLockInv, Semaphore
<1>11. ReadyInv
  <2>1. \A u \in Free : u \in Thread
    BY DEF Free
  <2>2. OrderedBut(ready_list, priority, Free)
    BY <1>1 DEF OrderedBut
  <2> QED BY <1>4, <2>1, <2>2 DEF ReadyInv, Beaten
<1> QED BY <1>6, <1>7, <1>8, <1>9, <1>10, <1>11 DEF DonationInv

LEMMA QuietStep ==
  ASSUME OneLock, NewPriorities = {}, KernelInv, KernelInv', DonationInv, [QuietNext]_vars
  PROVE  DonationInv'
<1>1. CASE UNCHANGED vars
  BY <1>1, PanicKeepsDonation DEF vars, synchVars
<1>2. ASSUME NEW t \in Thread, SynchThreadStep(t) PROVE DonationInv'
  <2>0. SynchTypeInv /\ LockPermit /\ ReleasedHolderClear
    BY DEF KernelInv, IInv
  <2>1. CASE \E c \in Thread, p \in Priority : Create(t, c, p)
    BY <2>1, QuietCreate
  <2>2. CASE Schedules(t) \/ Exit(t)
    BY <2>2, QuietSchedules, QuietStart DEF Schedules
  <2>3. CASE SemaDown(t)
    <3>1. CASE MustWait(t, obj[t])
      BY <2>3, <3>1, QuietBlock
    <3>2. CASE ~MustWait(t, obj[t]) /\ obj[t] \in Lock
      BY <2>3, <3>2, QuietTake
    <3>3. CASE ~MustWait(t, obj[t]) /\ obj[t] \notin Lock
      <4>1. obj[t] \in Sema
        BY <2>0, <2>3, <3>3 DEF SynchTypeInv, LocalsKnown, SemaDown, Semaphore
      <4>2. SameOwners
        BY <2>0, <2>3, <3>3, SemaDownOwners
      <4> QED BY <2>3, <3>3, <4>1, <4>2, QuietPermit
    <3> QED BY <3>1, <3>2, <3>3
  <2>4. CASE \E s \in Sema : SemaDownCall(t, s) \/ SemaUp(t, s)
    BY <2>4, QuietStart, QuietUp
  <2>5. CASE \E l \in Lock : LockAcquire(t, l) \/ LockTryAcquire(t, l) \/ LockRelease(t, l)
    BY <2>5, QuietStart, QuietRefused, QuietTake
  <2>6. CASE \/ TestHolder(t) \/ ComparePriority(t) \/ PushDonation(t)
             \/ DonateStart(t) \/ DonateSet(t) \/ DonateTest(t)
             \/ SetHolder(t) \/ ReleaseUp(t)
    BY <2>6, QuietAcquire, QuietPush, QuietSet, QuietStart, QuietRelease
  <2>7. CASE DonateNext(t) \/ PriorityStep(t)
    <3>1. pc[t] \in {"chain_next", "set_priority", "set_donated", "set_yield"}
      BY <2>7 DEF DonateNext, PriorityStep, SetOwnPriority, SetDonatedPriority, SetYield, At
    <3> QED BY <3>1 DEF DonationInv, OnlyRunnerInside
  <2> QED BY <1>2, <2>1, <2>2, <2>3, <2>4, <2>5, <2>6, <2>7
      DEF SynchThreadStep, LockStep, SemaStep
<1> QED BY <1>1, <1>2 DEF QuietNext

LEMMA QuietKernel == QuietSpec => []KernelInv
<1>1. SynchInit => KernelInv
  BY InitElemInv, InitSynchTypeInv, InitPermit, InitOrderInv DEF KernelInv, IInv
<1>2. KernelInv /\ [QuietNext]_vars => KernelInv'
  <2>1. [QuietNext]_vars => [SynchNext]_vars
    BY DEF QuietNext, SynchNext
  <2> QED BY <2>1, KernelStep
<1> QED BY <1>1, <1>2, PTL DEF QuietSpec

LEMMA DonationInvHolds ==
  ASSUME OneLock, NewPriorities = {}
  PROVE  QuietSpec => []DonationInv
<1>1. DonationInv /\ KernelInv /\ KernelInv' /\ [QuietNext]_vars => DonationInv'
  BY QuietStep
<1> QED BY <1>1, InitDonationInv, QuietKernel, PTL DEF QuietSpec

(* Donation reaches the holder: without ticks, with one lock, a thread     *)
(* blocked in lock_acquire has raised the holder to its priority, and      *)
(* neither sema_up nor a donation of another takes the holder below it.    *)
THEOREM QuietDonationReaches ==
  ASSUME OneLock, NewPriorities = {}
  PROVE  QuietSpec => []HolderRunsAtWaiterPriority
<1>1. DonationInv /\ KernelInv => HolderRunsAtWaiterPriority
  <2> SUFFICES ASSUME DonationInv, KernelInv, NEW l \in Lock, NEW t \in Thread,
                      BlockedOn(t, l), holder[l] # None
               PROVE  priority[holder[l]] >= priority[t]
    BY DEF HolderRunsAtWaiterPriority
  <2>1. KernelFacts /\ KernelTypes /\ l \in Semaphore
    BY KernelKnown DEF KernelFacts, Semaphore
  <2>2. pc[t] = "retry" /\ obj[t] = l
    BY <2>1 DEF BlockedOn, KernelFacts
  <2>3. PICK h \in Thread : holder[l] = h
    BY <2>1 DEF KernelTypes
  <2> QED BY <2>2, <2>3 DEF Owns, DonationInv, OwnerInv
<1> QED BY <1>1, DonationInvHolds, QuietKernel, PTL

(* Donation ends: there, sema_up in lock_release unlinks every donor and   *)
(* restores the thread's own priority, so who owns no lock runs at it.     *)
THEOREM QuietDonationEnds ==
  ASSUME OneLock, NewPriorities = {}
  PROVE  QuietSpec => []DonationRelinquished
<1>1. DonationInv /\ KernelInv => DonationRelinquished
  <2> SUFFICES ASSUME DonationInv, KernelInv, NEW t \in Thread,
                      \A l \in Lock : ~Owns(t, l)
               PROVE  priority[t] = priority_origin[t]
    BY DEF DonationRelinquished
  <2>1. Range(donations[t]) = {}
    BY DEF DonationInv, DonorsInv, DonorOf
  <2> QED BY <2>1 DEF DonationInv, DonorsInv
<1> QED BY <1>1, DonationInvHolds, QuietKernel, PTL
=============================================================================
