----------------------------- MODULE SynchProofs ------------------------------
(***************************************************************************)
(* Proofs about the locks, for every set of threads, locks, semaphores and *)
(* priorities: the type invariant, the permit of every lock, and that the  *)
(* locks implement Mutex.                                                  *)
(***************************************************************************)
EXTENDS Synch, SchedulerProofs

(* The labels of lock_acquire and donate_priority before sema_down. *)
InLockAcquire ==
  {"holder", "compare", "donate", "chain_start", "chain_set", "chain_test", "chain_next"}

(* The types of what Synch adds to the scheduler. *)
LockTypeOK ==
  /\ priority_origin \in [Thread -> Priority]
  /\ wait_on_lock \in [Thread -> Lock \cup {None}]
  /\ donations \in [Thread -> Seq(Thread)]
  /\ value \in [Semaphore -> Nat]
  /\ waiters \in [Semaphore -> Seq(Thread)]
  /\ holder \in [Lock -> Thread \cup {None}]
  /\ obj \in [Thread -> Semaphore \cup {None}]
  /\ chain \in [Thread -> Thread \cup {None}]
  /\ fault \in Fault

(* What the arguments and locals of an operation are while it is under way. *)
LocalsKnown ==
  \A t \in Thread :
    /\ pc[t] \in InLockAcquire => obj[t] \in Lock /\ wait_on_lock[t] = obj[t]
    /\ pc[t] \in {"chain_set", "chain_test", "chain_next"} => chain[t] \in Thread
    /\ pc[t] \in {"down", "retry"} => obj[t] \in Semaphore
    /\ pc[t] \in {"acquired", "release"} => obj[t] \in Lock

(* lock_release has cleared holder before its sema_up. *)
ReleasedHolderClear ==
  \A t \in Thread : pc[t] = "release" => holder[obj[t]] = None

SynchTypeInv == TypeInv(SynchLabel) /\ LockTypeOK /\ LocalsKnown

IInv == SynchTypeInv /\ LockPermit /\ ReleasedHolderClear

-----------------------------------------------------------------------------
(* Types. *)

LEMMA InitSynchTypeInv == SynchInit => SynchTypeInv
<1> SUFFICES ASSUME SynchInit PROVE SynchTypeInv
  OBVIOUS
<1>1. TypeInv(SynchLabel)
  <2>1. TypeInv(ThreadLabel)
    BY InitTypeInv DEF SynchInit
  <2> QED BY <2>1 DEF TypeInv, SynchLabel
<1>2. LockTypeOK
  <2>1. PRI_DEFAULT \in Priority
    BY ThreadsAssumption DEF Priority
  <2>2. value \in [Semaphore -> Nat]
    <3>1. \A s \in Semaphore : s \notin Lock => InitValue[s] \in Nat
      BY SynchAssumption DEF Semaphore
    <3> QED BY <3>1 DEF SynchInit
  <2> QED BY <2>1, <2>2 DEF SynchInit, LockTypeOK, Fault
<1>3. LocalsKnown
  BY DEF SynchInit, Init, LocalsKnown, InLockAcquire
<1> QED BY <1>1, <1>2, <1>3 DEF SynchTypeInv

(* What sema_up makes of a priority is a priority. *)
LEMMA RestoredType ==
  ASSUME NEW u \in Thread, NEW gone, NEW rest \in Seq(Thread),
         priority \in [Thread -> Priority], priority_origin \in [Thread -> Priority]
  PROVE  RestoredPriorities(u, gone, rest) \in SUBSET Priority
<1>1. \A d \in Range(rest) : priority[d] \in Priority
  BY DEF Range
<1> QED BY <1>1 DEF RestoredPriorities

(* sema_up keeps the types of what it writes. *)
LEMMA WakeWaiterType ==
  ASSUME NEW s \in Semaphore, NEW inInterrupt, ThreadTypeOK, LockTypeOK,
         waiters[s] # <<>>, WakeWaiter(s, inInterrupt)
  PROVE  /\ CpuTypeOK'
         /\ priority' \in [Thread -> Priority]
         /\ waiters' \in [Semaphore -> Seq(Thread)]
         /\ donations' \in [Thread -> Seq(Thread)]
<1> DEFINE k == list_max(waiters[s], priority)
           next_holder == waiters[s][k]
           woken == [status EXCEPT ![next_holder] = "ready"]
           gone == Range(waiters[s]) \cap Range(Donors(current))
           rest == list_without(Donors(current), gone)
<1>1. CpuTypeOK
  BY CpuPart
<1>2. waiters[s] \in Seq(Thread) /\ priority \in [Thread -> PRI_MIN..PRI_MAX]
  BY DEF LockTypeOK, ThreadTypeOK, Priority
<1>3. k \in 1..Len(waiters[s])
  BY <1>2, ThreadsAssumption, MaxPosition
<1>4. next_holder \in Thread
  BY <1>2, <1>3
<1>5. waiters' \in [Semaphore -> Seq(Thread)]
  <2>1. RemoveAt(waiters[s], k) \in Seq(Thread)
    BY <1>2, <1>3, RemoveAtType
  <2> QED BY <2>1 DEF WakeWaiter, LockTypeOK
<1>6. woken \in [Thread -> Status]
  BY DEF ThreadTypeOK, Status
<1>7. CASE current = Idle
  <2>1. thread_unblock(next_holder) /\ UNCHANGED <<donations, priority>>
    BY <1>7 DEF WakeWaiter
  <2> HIDE DEF next_holder
  <2>2. CpuTypeOK'
    BY <1>1, <1>4, <2>1, UnblockType
  <2> QED BY <1>5, <2>1, <2>2 DEF ThreadTypeOK, LockTypeOK
<1>8. CASE current # Idle
  <2>1. current \in Thread
    BY <1>8 DEF ThreadTypeOK
  <2>2. Donors(current) \in Seq(Thread)
    BY <2>1, <1>8 DEF Donors, LockTypeOK
  <2>3. rest \in Seq(Thread)
    BY <2>2, WithoutType
  <2>4. PICK p \in RestoredPriorities(current, gone, rest) :
          /\ donations' = [donations EXCEPT ![current] = rest]
          /\ priority' = [priority EXCEPT ![current] = p]
          /\ IF ~inInterrupt /\ p <= priority[next_holder]
             THEN do_schedule(current, "ready", woken,
                    InsertReady(InsertReady(ready_list, next_holder, priority'),
                                current, priority'))
             ELSE /\ ready_list' = InsertReady(ready_list, next_holder, priority')
                  /\ status' = woken
                  /\ UNCHANGED <<current, destruction_req, thread_ticks>>
    BY <1>8 DEF WakeWaiter
  <2> HIDE DEF k, next_holder, woken, gone, rest
  <2>5. p \in Priority
    <3>1. RestoredPriorities(current, gone, rest) \in SUBSET Priority
      BY <2>1, <2>3, RestoredType DEF ThreadTypeOK, LockTypeOK
    <3> QED BY <3>1
  <2>6. donations' \in [Thread -> Seq(Thread)] /\ priority' \in [Thread -> Priority]
    BY <2>3, <2>4, <2>5 DEF ThreadTypeOK, LockTypeOK
  <2>7. InsertReady(ready_list, next_holder, priority') \in Seq(Thread)
    BY <1>4, InsertReadyType DEF ThreadTypeOK
  <2>8. InsertReady(InsertReady(ready_list, next_holder, priority'), current, priority')
          \in Seq(Thread)
    BY <2>1, <2>7, InsertReadyType
  <2>9. CpuTypeOK'
    <3>1. CASE ~inInterrupt /\ p <= priority[next_holder]
      <4>1. "ready" \in Status
        BY DEF Status
      <4>2. do_schedule(current, "ready", woken,
              InsertReady(InsertReady(ready_list, next_holder, priority'),
                          current, priority'))
        BY <2>4, <3>1
      <4> QED BY <1>6, <2>1, <2>8, <4>1, <4>2, DoScheduleType
    <3>2. CASE ~(~inInterrupt /\ p <= priority[next_holder])
      BY <1>1, <1>6, <2>4, <2>7, <3>2 DEF CpuTypeOK
    <3> QED BY <3>1, <3>2
  <2> QED BY <1>5, <2>6, <2>9
<1> QED BY <1>7, <1>8

LEMMA SemaUpType ==
  ASSUME NEW s \in Semaphore, NEW inInterrupt, ThreadTypeOK, LockTypeOK,
         sema_up(s, inInterrupt)
  PROVE  /\ CpuTypeOK'
         /\ priority' \in [Thread -> Priority]
         /\ value' \in [Semaphore -> Nat]
         /\ waiters' \in [Semaphore -> Seq(Thread)]
         /\ donations' \in [Thread -> Seq(Thread)]
<1>1. value' \in [Semaphore -> Nat]
  BY DEF sema_up, LockTypeOK
<1>2. CASE waiters[s] = <<>>
  <2>1. CpuTypeOK
    BY CpuPart
  <2> QED BY <1>1, <1>2, <2>1 DEF sema_up, cpuVars, CpuTypeOK, ThreadTypeOK, LockTypeOK
<1>3. CASE waiters[s] # <<>>
  BY <1>1, <1>3, WakeWaiterType DEF sema_up
<1> QED BY <1>2, <1>3

(* A panic changes no state but fault. *)
LEMMA PanicTypeInv ==
  ASSUME NEW why \in Fault, SynchTypeInv, Panic(why)
  PROVE  SynchTypeInv'
BY DEF Panic, SynchTypeInv, TypeInv, ThreadTypeOK, LockTypeOK, ChildKnown, LocalsKnown,
       threadVars, listVars, timeVars, donorVars, objectVars, localVars

(* The walk of donate_priority goes from thread to thread. *)
LEMMA FollowTypeInv ==
  ASSUME SynchTypeInv, NEW t \in Thread, pc[t] \in {"chain_start", "chain_next"},
         NEW h \in Thread \cup {None}, FollowTo(t, h)
  PROVE  SynchTypeInv'
<1> USE DEF SynchTypeInv, TypeInv, Goto, At, Runs, Calls, Local, cpuVars, timerVars,
            objectVars, donorVars, localVars
<1> USE DEF SynchLabel, ThreadLabel, InLockAcquire, Semaphore
<1>1. pc' \in [Thread -> SynchLabel] /\ chain' \in [Thread -> Thread \cup {None}]
  BY DEF FollowTo, LockTypeOK
<1>2. ThreadTypeOK' /\ LockTypeOK'
  BY <1>1 DEF FollowTo, ThreadTypeOK, LockTypeOK
<1>3. ChildKnown'
  BY DEF FollowTo, ChildKnown
<1>4. ASSUME NEW u \in Thread
      PROVE  /\ pc'[u] \in InLockAcquire => obj'[u] \in Lock /\ wait_on_lock'[u] = obj'[u]
             /\ pc'[u] \in {"chain_set", "chain_test", "chain_next"} => chain'[u] \in Thread
             /\ pc'[u] \in {"down", "retry"} => obj'[u] \in Semaphore
             /\ pc'[u] \in {"acquired", "release"} => obj'[u] \in Lock
  <2>1. CASE u = t
    <3>1. obj'[u] \in Lock /\ wait_on_lock'[u] = obj'[u]
      BY <2>1 DEF FollowTo, LocalsKnown
    <3>2. pc'[u] = (IF h = None THEN "down" ELSE "chain_set") /\ chain'[u] = h
      BY <2>1 DEF FollowTo, LockTypeOK
    <3> QED BY <3>1, <3>2
  <2>2. CASE u # t
    BY <2>2 DEF FollowTo, LocalsKnown, LockTypeOK
  <2> QED BY <2>1, <2>2
<1> QED BY <1>1, <1>2, <1>3, <1>4 DEF LocalsKnown

(* So do the steps of the locks that leave the scheduler alone. *)
LEMMA LockStepTypeInv ==
  ASSUME SynchTypeInv, NEW t \in Thread,
         \/ \E l \in Lock : LockAcquire(t, l) \/ LockTryAcquire(t, l) \/ LockRelease(t, l)
         \/ TestHolder(t) \/ ComparePriority(t) \/ PushDonation(t)
         \/ DonateStart(t) \/ DonateSet(t) \/ DonateTest(t) \/ DonateNext(t)
         \/ SetHolder(t)
  PROVE  SynchTypeInv'
<1> USE DEF SynchTypeInv, TypeInv, Goto, At, Runs, Calls, Local, cpuVars, timerVars,
            objectVars, donorVars, localVars
<1> USE DEF SynchLabel, ThreadLabel, InLockAcquire, Semaphore
<1> DEFINE h == holder[obj[t]]
<1>0. {"null holder", "null lock", "donation_elem linked twice", "freed donor", "freed holder"}
        \subseteq Fault
  BY DEF Fault
<1>1. ASSUME NEW l \in Lock, LockAcquire(t, l) PROVE SynchTypeInv'
  <2>1. ThreadTypeOK' /\ pc' \in [Thread -> SynchLabel]
    BY <1>1 DEF LockAcquire, EnterAcquire, ThreadTypeOK
  <2>2. LockTypeOK'
    BY <1>1 DEF LockAcquire, EnterAcquire, LockTypeOK, ThreadTypeOK
  <2>3. ChildKnown' /\ LocalsKnown'
    BY <1>1 DEF LockAcquire, EnterAcquire, ChildKnown, LocalsKnown, LockTypeOK
  <2> QED BY <2>1, <2>2, <2>3
<1>2. ASSUME NEW l \in Lock, LockTryAcquire(t, l) PROVE SynchTypeInv'
  <2>1. CASE value[l] > 0
    <3>1. value' = [value EXCEPT ![l] = @ - 1] /\ obj' = [obj EXCEPT ![t] = l]
          /\ pc' = [pc EXCEPT ![t] = "acquired"]
      BY <1>2, <2>1 DEF LockTryAcquire
    <3>2. value' \in [Semaphore -> Nat]
      BY <2>1, <3>1 DEF LockTypeOK
    <3>3. ops' \in [Thread -> Nat] /\ yield_on_return' \in BOOLEAN
      BY <1>2 DEF LockTryAcquire, ThreadTypeOK
    <3>4. ThreadTypeOK' /\ pc' \in [Thread -> SynchLabel]
      BY <1>2, <3>1, <3>3 DEF LockTryAcquire, ThreadTypeOK
    <3>5. LockTypeOK'
      BY <1>2, <3>1, <3>2 DEF LockTryAcquire, LockTypeOK
    <3>6. ChildKnown' /\ LocalsKnown'
      BY <1>2, <3>1 DEF LockTryAcquire, ChildKnown, LocalsKnown, LockTypeOK
    <3> QED BY <3>4, <3>5, <3>6
  <2>2. CASE ~(value[l] > 0)
    <3>1. UNCHANGED <<value, obj, pc>>
      BY <1>2, <2>2 DEF LockTryAcquire
    <3>2. ops' \in [Thread -> Nat] /\ yield_on_return' \in BOOLEAN
      BY <1>2 DEF LockTryAcquire, ThreadTypeOK
    <3>3. ThreadTypeOK' /\ pc' \in [Thread -> SynchLabel]
      BY <1>2, <3>1, <3>2 DEF LockTryAcquire, ThreadTypeOK
    <3>4. LockTypeOK' /\ ChildKnown' /\ LocalsKnown'
      BY <1>2, <3>1 DEF LockTryAcquire, LockTypeOK, ChildKnown, LocalsKnown
    <3> QED BY <3>3, <3>4
  <2> QED BY <2>1, <2>2
<1>3. ASSUME NEW l \in Lock, LockRelease(t, l) PROVE SynchTypeInv'
  <2>1. ThreadTypeOK' /\ pc' \in [Thread -> SynchLabel]
    BY <1>3 DEF LockRelease, ThreadTypeOK
  <2>2. LockTypeOK'
    BY <1>3 DEF LockRelease, LockTypeOK, ThreadTypeOK
  <2>3. ChildKnown' /\ LocalsKnown'
    BY <1>3 DEF LockRelease, ChildKnown, LocalsKnown, LockTypeOK
  <2> QED BY <2>1, <2>2, <2>3
<1>4. CASE TestHolder(t)
  <2>1. ThreadTypeOK' /\ pc' \in [Thread -> SynchLabel]
    BY <1>4 DEF TestHolder, ThreadTypeOK
  <2>2. LockTypeOK'
    BY <1>4 DEF TestHolder, LockTypeOK, ThreadTypeOK
  <2>3. ChildKnown' /\ LocalsKnown'
    BY <1>4 DEF TestHolder, ChildKnown, LocalsKnown, LockTypeOK
  <2> QED BY <2>1, <2>2, <2>3
<1>5. CASE ComparePriority(t)
  <2>1. CASE h = None
    BY <1>0, <1>5, <2>1, PanicTypeInv DEF ComparePriority
  <2>2. CASE h # None
    <3>1. PICK label \in {"donate", "down"} : Goto(t, label)
      BY <1>5, <2>2 DEF ComparePriority
    <3>2. pc[t] = "compare" /\ Local
          /\ UNCHANGED <<priority, ops, donorVars, objectVars, localVars>>
      BY <1>5, <2>2 DEF ComparePriority
    <3>3. ThreadTypeOK' /\ pc' \in [Thread -> SynchLabel]
      BY <3>1, <3>2 DEF Goto, ThreadTypeOK
    <3>4. LockTypeOK'
      BY <3>1, <3>2 DEF Goto, LockTypeOK, ThreadTypeOK
    <3>5. ChildKnown' /\ LocalsKnown'
      BY <3>1, <3>2 DEF Goto, ChildKnown, LocalsKnown, LockTypeOK
    <3> QED BY <3>3, <3>4, <3>5
  <2> QED BY <2>1, <2>2
<1>6. CASE PushDonation(t)
  <2>1. CASE Panic("null holder") \/ Panic("donation_elem linked twice") \/ Panic("freed donor")
    BY <1>0, <2>1, PanicTypeInv
  <2>2. CASE h # None /\ donations' = [donations EXCEPT ![h] = Append(@, t)]
             /\ Goto(t, "chain_start") /\ Local
             /\ UNCHANGED <<priority, ops, priority_origin, wait_on_lock, objectVars, localVars>>
    <3>1. pc[t] = "donate"
      BY <1>6 DEF PushDonation
    <3>2. donations' \in [Thread -> Seq(Thread)]
      <4>1. h \in Thread
        BY <2>2, <3>1, <1>6 DEF PushDonation, LocalsKnown, LockTypeOK
      <4>2. Append(donations[h], t) \in Seq(Thread)
        BY <4>1 DEF LockTypeOK
      <4> HIDE DEF h
      <4> QED BY <2>2, <4>2 DEF LockTypeOK
    <3>3. ThreadTypeOK' /\ pc' \in [Thread -> SynchLabel]
      BY <2>2 DEF ThreadTypeOK
    <3>4. LockTypeOK'
      BY <2>2, <3>2 DEF LockTypeOK
    <3>5. ChildKnown' /\ LocalsKnown'
      BY <2>2, <3>1 DEF ChildKnown, LocalsKnown
    <3> QED BY <3>3, <3>4, <3>5
  <2> QED BY <1>6, <2>1, <2>2 DEF PushDonation
<1>7. CASE DonateStart(t)
  <2>1. holder[wait_on_lock[t]] \in Thread \cup {None}
    BY <1>7 DEF DonateStart, LocalsKnown, LockTypeOK
  <2> QED BY <1>7, <2>1, FollowTypeInv DEF DonateStart
<1>8. CASE DonateSet(t)
  <2>1. CASE Freed(chain[t])
    BY <1>0, <1>8, <2>1, PanicTypeInv DEF DonateSet
  <2>2. CASE ~Freed(chain[t])
    <3>1. ThreadTypeOK' /\ pc' \in [Thread -> SynchLabel]
      BY <1>8, <2>2 DEF DonateSet, ThreadTypeOK
    <3>2. LockTypeOK'
      BY <1>8, <2>2 DEF DonateSet, LockTypeOK, ThreadTypeOK
    <3>3. ChildKnown' /\ LocalsKnown'
      BY <1>8, <2>2 DEF DonateSet, ChildKnown, LocalsKnown, LockTypeOK
    <3> QED BY <3>1, <3>2, <3>3
  <2> QED BY <2>1, <2>2
<1>9. CASE DonateTest(t)
  <2>1. CASE Freed(chain[t])
    BY <1>0, <1>9, <2>1, PanicTypeInv DEF DonateTest
  <2>2. CASE ~Freed(chain[t])
    <3>1. ThreadTypeOK' /\ pc' \in [Thread -> SynchLabel]
      BY <1>9, <2>2 DEF DonateTest, ThreadTypeOK
    <3>2. LockTypeOK'
      BY <1>9, <2>2 DEF DonateTest, LockTypeOK, ThreadTypeOK
    <3>3. ChildKnown' /\ LocalsKnown'
      BY <1>9, <2>2 DEF DonateTest, ChildKnown, LocalsKnown, LockTypeOK
    <3> QED BY <3>1, <3>2, <3>3
  <2> QED BY <2>1, <2>2
<1>10. CASE DonateNext(t)
  <2> DEFINE l == wait_on_lock[chain[t]]
  <2>1. CASE Freed(chain[t]) \/ l = None
    BY <1>0, <1>10, <2>1, PanicTypeInv DEF DonateNext
  <2>2. CASE ~Freed(chain[t]) /\ l # None
    <3>1. holder[l] \in Thread \cup {None}
      BY <1>10, <2>2 DEF DonateNext, LocalsKnown, LockTypeOK
    <3> QED BY <1>10, <2>2, <3>1, FollowTypeInv DEF DonateNext
  <2> QED BY <2>1, <2>2
<1>11. CASE SetHolder(t)
  <2>1. ThreadTypeOK' /\ pc' \in [Thread -> SynchLabel]
    BY <1>11 DEF SetHolder, ThreadTypeOK
  <2>2. LockTypeOK'
    BY <1>11 DEF SetHolder, LockTypeOK, ThreadTypeOK
  <2>3. ChildKnown' /\ LocalsKnown'
    BY <1>11 DEF SetHolder, ChildKnown, LocalsKnown, LockTypeOK
  <2> QED BY <2>1, <2>2, <2>3
<1> QED BY <1>1, <1>2, <1>3, <1>4, <1>5, <1>6, <1>7, <1>8, <1>9, <1>10, <1>11

(* The semaphore operations. *)
LEMMA SemaStepTypeInv ==
  ASSUME SynchTypeInv, NEW t \in Thread,
         \/ \E s \in Sema : SemaDownCall(t, s) \/ SemaUp(t, s)
         \/ SemaDown(t) \/ ReleaseUp(t)
  PROVE  SynchTypeInv'
<1> USE DEF SynchTypeInv, TypeInv, Goto, At, Runs, Calls, Local, cpuVars, timerVars,
            objectVars, donorVars, localVars
<1> USE DEF SynchLabel, ThreadLabel, InLockAcquire, Semaphore
<1>1. ASSUME NEW s \in Sema, SemaDownCall(t, s) PROVE SynchTypeInv'
  <2>1. ThreadTypeOK' /\ pc' \in [Thread -> SynchLabel]
    BY <1>1 DEF SemaDownCall, EnterDown, ThreadTypeOK
  <2>2. LockTypeOK'
    BY <1>1 DEF SemaDownCall, EnterDown, LockTypeOK
  <2>3. ChildKnown' /\ LocalsKnown'
    BY <1>1 DEF SemaDownCall, EnterDown, ChildKnown, LocalsKnown, LockTypeOK
  <2> QED BY <2>1, <2>2, <2>3
<1>2. ASSUME NEW s \in Sema, SemaUp(t, s) PROVE SynchTypeInv'
  <2>1. ops' \in [Thread -> Nat]
    <3>1. ops' = [ops EXCEPT ![t] = @ + 1]
      BY <1>2 DEF SemaUp
    <3>2. ops \in [Thread -> Nat]
      BY DEF ThreadTypeOK
    <3> QED BY <3>1, <3>2
  <2>2. UNCHANGED <<pc, child, wait_on_lock, obj, chain>>
    BY <1>2 DEF SemaUp, sema_up
  <2>3. ChildKnown' /\ LocalsKnown'
    BY <2>2 DEF ChildKnown, LocalsKnown
  <2>4. CASE WalksFreedDonor(s)
    <3>1. fault' \in Fault
      BY <1>2, <2>4 DEF SemaUp, Fault
    <3>2. UNCHANGED <<cpuVars, timerVars, priority, pc, child, donorVars, objectVars, localVars>>
      BY <1>2, <2>4 DEF SemaUp
    <3>3. ThreadTypeOK' /\ LockTypeOK'
      BY <2>1, <3>1, <3>2 DEF ThreadTypeOK, LockTypeOK
    <3> QED BY <2>2, <2>3, <3>3
  <2>5. CASE sema_up(s, FALSE)
    <3>1. s \in Semaphore
      OBVIOUS
    <3>2. /\ CpuTypeOK'
          /\ priority' \in [Thread -> Priority]
          /\ value' \in [Semaphore -> Nat]
          /\ waiters' \in [Semaphore -> Seq(Thread)]
          /\ donations' \in [Thread -> Seq(Thread)]
      BY <2>5, <3>1, SemaUpType
    <3>3. UNCHANGED <<timerVars, child, priority_origin, wait_on_lock, holder, chain, fault>>
      BY <2>5 DEF sema_up
    <3>4. ThreadTypeOK' /\ LockTypeOK'
      BY <2>1, <2>2, <3>2, <3>3 DEF ThreadTypeOK, LockTypeOK, CpuTypeOK
    <3> QED BY <2>2, <2>3, <3>4
  <2> QED BY <1>2, <2>4, <2>5 DEF SemaUp
<1>3. CASE SemaDown(t)
  <2> DEFINE s == obj[t]
  <2>1. s \in Semaphore
    BY <1>3 DEF SemaDown, LocalsKnown
  <2>2. CpuTypeOK
    BY CpuPart
  <2>3. UNCHANGED <<priority, timerVars, child, ops, priority_origin, donations,
                    holder, chain, fault>>
    BY <1>3 DEF SemaDown, MustWait
  <2>4. CASE value[s] = 0
    <3>1. /\ waiters' = [waiters EXCEPT ![s] = Append(@, t)]
          /\ thread_block(t)
          /\ Goto(t, "retry")
          /\ UNCHANGED <<wait_on_lock, value, obj>>
      BY <1>3, <2>4 DEF SemaDown, MustWait
    <3>2. CpuTypeOK'
      BY <2>2, <3>1, BlockType
    <3>3. waiters' \in [Semaphore -> Seq(Thread)]
      <4>1. Append(waiters[s], t) \in Seq(Thread)
        BY <2>1 DEF LockTypeOK
      <4> QED BY <3>1, <4>1 DEF LockTypeOK
    <3>4. ThreadTypeOK' /\ pc' \in [Thread -> SynchLabel]
      BY <2>3, <3>1, <3>2 DEF ThreadTypeOK, CpuTypeOK
    <3>5. LockTypeOK'
      BY <2>3, <3>1, <3>3 DEF LockTypeOK
    <3>6. ChildKnown' /\ LocalsKnown'
      BY <2>1, <2>3, <3>1 DEF ChildKnown, LocalsKnown
    <3> QED BY <3>4, <3>5, <3>6
  <2>5. CASE value[s] # 0
    <3>1. PICK label \in {"acquired", "run"} :
            /\ wait_on_lock' = [wait_on_lock EXCEPT ![t] = None]
            /\ value' = [value EXCEPT ![s] = @ - 1]
            /\ Goto(t, label)
            /\ label = "acquired" => s \in Lock /\ obj' = obj
            /\ label = "run" => obj' = [obj EXCEPT ![t] = None]
            /\ UNCHANGED <<cpuVars, waiters>>
      BY <1>3, <2>5 DEF SemaDown, MustWait
    <3>2. value' \in [Semaphore -> Nat]
      BY <2>1, <2>5, <3>1 DEF LockTypeOK
    <3>3. ThreadTypeOK' /\ pc' \in [Thread -> SynchLabel]
      BY <2>3, <3>1 DEF ThreadTypeOK
    <3>4. LockTypeOK'
      BY <2>3, <3>1, <3>2 DEF LockTypeOK
    <3>5. ChildKnown' /\ LocalsKnown'
      BY <2>3, <3>1 DEF ChildKnown, LocalsKnown, LockTypeOK
    <3> QED BY <3>3, <3>4, <3>5
  <2> QED BY <2>4, <2>5
<1>4. CASE ReleaseUp(t)
  <2>1. obj[t] \in Semaphore
    BY <1>4 DEF ReleaseUp, LocalsKnown
  <2>2. CASE Panic("freed donor")
    BY <2>2, PanicTypeInv DEF Fault
  <2>3. CASE /\ sema_up(obj[t], FALSE)
             /\ obj' = [obj EXCEPT ![t] = None]
             /\ Goto(t, "run")
             /\ UNCHANGED ops
    <3>1. /\ CpuTypeOK'
          /\ priority' \in [Thread -> Priority]
          /\ value' \in [Semaphore -> Nat]
          /\ waiters' \in [Semaphore -> Seq(Thread)]
          /\ donations' \in [Thread -> Seq(Thread)]
      BY <2>1, <2>3, SemaUpType
    <3>2. UNCHANGED <<timerVars, child, priority_origin, wait_on_lock, holder, chain, fault>>
      BY <2>3 DEF sema_up
    <3>3. ThreadTypeOK' /\ pc' \in [Thread -> SynchLabel]
      BY <2>3, <3>1, <3>2 DEF ThreadTypeOK, CpuTypeOK
    <3>4. LockTypeOK'
      BY <2>3, <3>1, <3>2 DEF LockTypeOK
    <3>5. ChildKnown' /\ LocalsKnown'
      BY <2>3, <3>2 DEF ChildKnown, LocalsKnown, LockTypeOK
    <3> QED BY <3>3, <3>4, <3>5
  <2> QED BY <1>4, <2>2, <2>3 DEF ReleaseUp
<1> QED BY <1>1, <1>2, <1>3, <1>4

LEMMA InterruptUpTypeInv ==
  ASSUME SynchTypeInv, NEW s \in Sema, InterruptUp(s)
  PROVE  SynchTypeInv'
<1> USE DEF SynchTypeInv, TypeInv, Goto, At, Runs, Calls, Local, cpuVars, timerVars,
            objectVars, donorVars, localVars
<1> USE DEF SynchLabel, ThreadLabel, InLockAcquire, Semaphore
<1>1. CASE Panic("freed donor")
  BY <1>1, PanicTypeInv DEF Fault
<1>2. CASE sema_up(s, TRUE) /\ UNCHANGED <<pc, obj, ops>>
  <2>1. s \in Semaphore
    OBVIOUS
  <2>2. /\ CpuTypeOK'
        /\ priority' \in [Thread -> Priority]
        /\ value' \in [Semaphore -> Nat]
        /\ waiters' \in [Semaphore -> Seq(Thread)]
        /\ donations' \in [Thread -> Seq(Thread)]
    BY <1>2, <2>1, SemaUpType
  <2>3. UNCHANGED <<timerVars, child, priority_origin, wait_on_lock, holder, chain, fault>>
    BY <1>2 DEF sema_up
  <2>4. ThreadTypeOK' /\ LockTypeOK'
    BY <1>2, <2>2, <2>3 DEF ThreadTypeOK, LockTypeOK, CpuTypeOK
  <2>5. ChildKnown' /\ LocalsKnown'
    BY <1>2, <2>3 DEF ChildKnown, LocalsKnown
  <2> QED BY <1>2, <2>4, <2>5
<1> QED BY <1>1, <1>2 DEF InterruptUp

(* thread_set_priority. *)
LEMMA PriorityStepTypeInv ==
  ASSUME SynchTypeInv, NEW t \in Thread, PriorityStep(t)
  PROVE  SynchTypeInv'
<1> USE DEF SynchTypeInv, TypeInv, Goto, At, Runs, Calls, Local, cpuVars, timerVars,
            objectVars, donorVars, localVars
<1> USE DEF SynchLabel, ThreadLabel, InLockAcquire, Semaphore
<1>1. ASSUME NEW p \in NewPriorities, SetOrigin(t, p) PROVE SynchTypeInv'
  <2>1. p \in Priority
    BY SynchAssumption
  <2>2. ThreadTypeOK' /\ pc' \in [Thread -> SynchLabel]
    BY <1>1 DEF SetOrigin, ThreadTypeOK
  <2>3. LockTypeOK'
    BY <1>1, <2>1 DEF SetOrigin, LockTypeOK
  <2>4. ChildKnown' /\ LocalsKnown'
    BY <1>1 DEF SetOrigin, ChildKnown, LocalsKnown
  <2> QED BY <2>2, <2>3, <2>4
<1>2. CASE SetOwnPriority(t)
  <2>1. ThreadTypeOK' /\ pc' \in [Thread -> SynchLabel]
    BY <1>2 DEF SetOwnPriority, ThreadTypeOK, LockTypeOK
  <2>2. LockTypeOK'
    BY <1>2 DEF SetOwnPriority, LockTypeOK
  <2>3. ChildKnown' /\ LocalsKnown'
    BY <1>2 DEF SetOwnPriority, ChildKnown, LocalsKnown
  <2> QED BY <2>1, <2>2, <2>3
<1>3. CASE SetDonatedPriority(t)
  <2>1. priority' \in [Thread -> Priority]
    <3>1. CASE donations[t] # <<>>
      <4>1. Head(donations[t]) \in Thread
        BY <3>1 DEF LockTypeOK
      <4> QED BY <1>3, <4>1 DEF SetDonatedPriority, ThreadTypeOK
    <3>2. CASE donations[t] = <<>>
      BY <1>3, <3>2 DEF SetDonatedPriority, ThreadTypeOK
    <3> QED BY <3>1, <3>2
  <2>2. ThreadTypeOK' /\ pc' \in [Thread -> SynchLabel]
    BY <1>3, <2>1 DEF SetDonatedPriority, ThreadTypeOK
  <2>3. LockTypeOK'
    BY <1>3 DEF SetDonatedPriority, LockTypeOK
  <2>4. ChildKnown' /\ LocalsKnown'
    BY <1>3 DEF SetDonatedPriority, ChildKnown, LocalsKnown
  <2> QED BY <2>2, <2>3, <2>4
<1>4. CASE SetYield(t)
  <2>1. CpuTypeOK'
    BY <1>4, CpuPart, YieldType DEF SetYield
  <2>2. ThreadTypeOK' /\ pc' \in [Thread -> SynchLabel]
    BY <1>4, <2>1 DEF SetYield, ThreadTypeOK, CpuTypeOK
  <2>3. LockTypeOK'
    BY <1>4 DEF SetYield, synchVars, LockTypeOK
  <2>4. ChildKnown' /\ LocalsKnown'
    BY <1>4 DEF SetYield, synchVars, ChildKnown, LocalsKnown
  <2> QED BY <2>2, <2>3, <2>4
<1> QED BY <1>1, <1>2, <1>3, <1>4 DEF PriorityStep

(* The scheduler's own steps, extended by Synch. *)
LEMMA ScheduleStepTypeInv ==
  ASSUME SynchTypeInv, NEW t \in Thread,
         \/ \E c \in Thread, p \in Priority : Create(t, c, p)
         \/ Schedules(t)
         \/ Exit(t)
  PROVE  SynchTypeInv'
<1>1. ThreadStep(t)
  BY DEF Create, Schedules, Exit, ThreadStep
<1>2. TypeInv(SynchLabel)'
  <2>1. ThreadLabel \subseteq SynchLabel
    BY DEF SynchLabel
  <2> QED BY <1>1, <2>1, ThreadStepTypeInv DEF SynchTypeInv
<1>3. UNCHANGED <<wait_on_lock, donations, objectVars, localVars, fault>>
      /\ (UNCHANGED priority_origin
          \/ \E c \in Thread, p \in Priority :
               priority_origin' = [priority_origin EXCEPT ![c] = p])
  BY DEF Create, Schedules, Exit, synchVars, donorVars
<1>4. LockTypeOK'
  BY <1>3 DEF SynchTypeInv, LockTypeOK, objectVars, localVars
<1>5. \/ pc' = pc
      \/ \E label \in ThreadLabel : pc' = [pc EXCEPT ![t] = label]
  BY <1>1 DEF ThreadStep, CreateThread, CreateUnblock, CreatePreempt, YieldCPU, TimerSleep,
              insert_blockList, ThreadExit, Goto, ThreadLabel
<1>6. LocalsKnown'
  BY <1>3, <1>5 DEF SynchTypeInv, TypeInv, LocalsKnown, ThreadLabel, InLockAcquire, localVars
<1> QED BY <1>2, <1>4, <1>6 DEF SynchTypeInv

(* The timer and the idle thread. *)
LEMMA BackgroundTypeInv ==
  ASSUME SynchTypeInv, Timer \/ Idling
  PROVE  SynchTypeInv'
<1>1. UNCHANGED <<synchVars, pc>>
  BY DEF Timer, Idling, Interrupt, TimerInterrupt, wake_up, IntrReturn, idle
<1>2. TypeInv(SynchLabel)'
  BY InterruptTypeInv, IdleTypeInv DEF Timer, Idling, SynchTypeInv
<1>3. LockTypeOK' /\ LocalsKnown'
  BY <1>1 DEF SynchTypeInv, LockTypeOK, LocalsKnown, synchVars, donorVars, objectVars, localVars
<1> QED BY <1>2, <1>3 DEF SynchTypeInv

LEMMA SynchStepTypeInv ==
  ASSUME SynchTypeInv, [SynchNext]_vars
  PROVE  SynchTypeInv'
<1>1. CASE \E t \in Thread : SynchThreadStep(t)
  <2>1. PICK t \in Thread : SynchThreadStep(t)
    BY <1>1
  <2>2. CASE LockStep(t)
    BY <2>2, LockStepTypeInv, SemaStepTypeInv DEF LockStep
  <2>3. CASE SemaStep(t)
    BY <2>3, SemaStepTypeInv DEF SemaStep
  <2>4. CASE PriorityStep(t)
    BY <2>4, PriorityStepTypeInv
  <2> QED BY <2>1, <2>2, <2>3, <2>4, ScheduleStepTypeInv DEF SynchThreadStep
<1>2. CASE Device
  BY <1>2, InterruptUpTypeInv DEF Device
<1>3. CASE Timer \/ Idling
  BY <1>3, BackgroundTypeInv
<1>4. CASE UNCHANGED vars
  <2>1. TypeInv(SynchLabel)'
    BY <1>4, StutterTypeInv DEF vars, SynchTypeInv
  <2>2. LockTypeOK' /\ LocalsKnown'
    BY <1>4 DEF SynchTypeInv, LockTypeOK, LocalsKnown, vars, threadVars, synchVars,
                donorVars, objectVars, localVars
  <2> QED BY <2>1, <2>2 DEF SynchTypeInv
<1> QED BY <1>1, <1>2, <1>3, <1>4 DEF SynchNext

(* The kernel keeps the type of all it stores, whatever the interleaving:  *)
(* no list holds a NULL thread and no semaphore counts below zero.         *)
THEOREM SynchTypeCorrect == SynchSpec => []SynchTypeOK
<1>1. SynchInit => SynchTypeInv
  BY InitSynchTypeInv
<1>2. SynchTypeInv /\ [SynchNext]_vars => SynchTypeInv'
  BY SynchStepTypeInv
<1>3. SynchTypeInv => SynchTypeOK
  BY DEF SynchTypeInv, TypeInv, LockTypeOK, SynchTypeOK
<1> QED BY <1>1, <1>2, <1>3, PTL DEF SynchSpec

-----------------------------------------------------------------------------
(* Ownership. *)

(* What a step may do to the owners of the locks and to their permits. *)
OwnersBecome(t, l, owns) ==
  /\ \A u \in Thread, k \in Lock :
       Owns(u, k)' <=> IF u = t /\ k = l THEN owns ELSE Owns(u, k)
  /\ \A k \in Lock : k # l => value'[k] = value[k]

Takes(t, l) == value[l] = 1 /\ value'[l] = 0 /\ OwnersBecome(t, l, TRUE)
Gives(t, l) == Owns(t, l) /\ value[l] = 0 /\ value'[l] = 1 /\ OwnersBecome(t, l, FALSE)

SameOwners ==
  /\ \A u \in Thread, k \in Lock : Owns(u, k)' <=> Owns(u, k)
  /\ \A k \in Lock : value'[k] = value[k]

OwnerStep == SameOwners \/ \E t \in Thread, l \in Lock : Takes(t, l) \/ Gives(t, l)

(* Most steps leave all that Owns reads alone. *)
Undisturbed ==
  /\ holder' = holder
  /\ \A l \in Lock : value'[l] = value[l]
  /\ \A u \in Thread :
       \/ pc'[u] = pc[u] /\ obj'[u] = obj[u]
       \/ {pc[u], pc'[u]} \cap {"acquired", "release"} = {}

LEMMA UndisturbedOwners ==
  ASSUME Undisturbed, ReleasedHolderClear
  PROVE  SameOwners /\ ReleasedHolderClear'
BY DEF Undisturbed, SameOwners, Owns, ReleasedHolderClear

(* The owner that LockPermit speaks of is the only one. *)
LEMMA OneOwner ==
  ASSUME LockPermit, NEW t \in Thread, NEW l \in Lock, Owns(t, l)
  PROVE  value[l] = 0 /\ \A u \in Thread : Owns(u, l) => u = t
BY DEF LockPermit

(* The steps inside lock_acquire before sema_down disturb no owner. *)
LEMMA UndisturbedLockStep ==
  ASSUME SynchTypeInv, NEW t \in Thread,
         \/ \E l \in Lock : LockAcquire(t, l)
         \/ TestHolder(t) \/ ComparePriority(t) \/ PushDonation(t)
         \/ DonateStart(t) \/ DonateSet(t) \/ DonateTest(t) \/ DonateNext(t)
  PROVE  Undisturbed
<1> USE DEF SynchTypeInv, TypeInv, LockTypeOK, Undisturbed, Goto, At, objectVars, localVars
<1>1. ASSUME NEW why, Panic(why) PROVE Undisturbed
  BY <1>1 DEF Panic, threadVars
<1>2. ASSUME NEW h, At(t, "chain_start") \/ At(t, "chain_next"), FollowTo(t, h)
      PROVE  Undisturbed
  BY <1>2 DEF FollowTo
<1>3. ASSUME NEW l \in Lock, LockAcquire(t, l) PROVE Undisturbed
  BY <1>3 DEF LockAcquire, EnterAcquire, Calls
<1>4. CASE TestHolder(t)
  BY <1>4 DEF TestHolder
<1>5. CASE ComparePriority(t)
  BY <1>1, <1>5 DEF ComparePriority
<1>6. CASE PushDonation(t)
  BY <1>1, <1>6 DEF PushDonation
<1>7. CASE DonateStart(t)
  BY <1>2, <1>7 DEF DonateStart
<1>8. CASE DonateSet(t)
  BY <1>1, <1>8 DEF DonateSet
<1>9. CASE DonateTest(t)
  BY <1>1, <1>9 DEF DonateTest
<1>10. CASE DonateNext(t)
  BY <1>1, <1>2, <1>10 DEF DonateNext
<1> QED BY <1>3, <1>4, <1>5, <1>6, <1>7, <1>8, <1>9, <1>10

(* Nor do semaphores that are no locks, priorities and the scheduler. *)
LEMMA UndisturbedOther ==
  ASSUME SynchTypeInv, NEW t \in Thread,
         \/ \E s \in Sema : SemaDownCall(t, s) \/ SemaUp(t, s)
         \/ PriorityStep(t)
         \/ \E c \in Thread, p \in Priority : Create(t, c, p)
         \/ Schedules(t) \/ Exit(t)
  PROVE  Undisturbed
<1> USE DEF SynchTypeInv, TypeInv, LockTypeOK, Undisturbed, Goto, At, objectVars, localVars
<1>1. ASSUME NEW s \in Sema, SemaDownCall(t, s) PROVE Undisturbed
  BY <1>1 DEF SemaDownCall, EnterDown, Calls
<1>2. ASSUME NEW s \in Sema, SemaUp(t, s) PROVE Undisturbed
  <2>1. UNCHANGED <<pc, obj, holder>>
    BY <1>2 DEF SemaUp, sema_up
  <2>2. UNCHANGED value \/ value' = [value EXCEPT ![s] = @ + 1]
    BY <1>2 DEF SemaUp, sema_up
  <2>3. \A l \in Lock : value'[l] = value[l]
    <3>1. s \notin Lock
      BY SynchAssumption
    <3> QED BY <2>2, <3>1 DEF Semaphore
  <2> QED BY <2>1, <2>3
<1>3. CASE PriorityStep(t)
  <2>1. ASSUME NEW p \in NewPriorities, SetOrigin(t, p) PROVE Undisturbed
    BY <2>1 DEF SetOrigin, Calls
  <2>2. CASE SetOwnPriority(t)
    BY <2>2 DEF SetOwnPriority
  <2>3. CASE SetDonatedPriority(t)
    BY <2>3 DEF SetDonatedPriority
  <2>4. CASE SetYield(t)
    BY <2>4 DEF SetYield, synchVars
  <2> QED BY <1>3, <2>1, <2>2, <2>3, <2>4 DEF PriorityStep
<1>4. CASE \/ \E c \in Thread, p \in Priority : Create(t, c, p)
           \/ Schedules(t) \/ Exit(t)
  <2>1. UNCHANGED <<objectVars, localVars>>
    BY <1>4 DEF Create, Schedules, Exit, synchVars
  <2>2. ThreadStep(t)
    BY <1>4 DEF Create, Schedules, Exit, ThreadStep
  <2>3. \/ pc' = pc
        \/ pc[t] \in ThreadLabel /\ \E label \in ThreadLabel : pc' = [pc EXCEPT ![t] = label]
    BY <2>2 DEF ThreadStep, CreateThread, CreateUnblock, CreatePreempt, YieldCPU, TimerSleep,
                insert_blockList, ThreadExit, ThreadLabel, Calls
  <2> QED BY <2>1, <2>3 DEF ThreadLabel
<1> QED BY <1>1, <1>2, <1>3, <1>4

LEMMA UndisturbedBackground ==
  ASSUME SynchTypeInv, Timer \/ Device \/ Idling \/ UNCHANGED vars
  PROVE  Undisturbed
<1>1. CASE Timer \/ Idling
  BY <1>1 DEF Undisturbed, Timer, Idling, Interrupt, TimerInterrupt, wake_up, IntrReturn, idle,
              synchVars, objectVars, localVars
<1>2. CASE Device
  <2>1. PICK s \in Sema : InterruptUp(s)
    BY <1>2 DEF Device
  <2>2. UNCHANGED <<pc, obj, holder>>
    BY <2>1 DEF InterruptUp, sema_up, Panic, threadVars, objectVars, localVars
  <2>3. UNCHANGED value \/ value' = [value EXCEPT ![s] = @ + 1]
    BY <2>1 DEF InterruptUp, sema_up, Panic, objectVars
  <2>4. \A l \in Lock : value'[l] = value[l]
    <3>1. s \notin Lock
      BY SynchAssumption
    <3> QED BY <2>3, <3>1 DEF Semaphore, SynchTypeInv, LockTypeOK
  <2> QED BY <2>2, <2>4 DEF Undisturbed
<1>3. CASE UNCHANGED vars
  BY <1>3 DEF Undisturbed, vars, threadVars, synchVars, objectVars, localVars
<1> QED BY <1>1, <1>2, <1>3

(* The five steps that move a permit, holder or ownership. *)
LEMMA SemaDownOwners ==
  ASSUME SynchTypeInv, LockPermit, ReleasedHolderClear, NEW t \in Thread, SemaDown(t)
  PROVE  /\ \/ SameOwners /\ (obj[t] \in Lock => pc'[t] = "retry")
            \/ obj[t] \in Lock /\ pc'[t] = "acquired" /\ Takes(t, obj[t])
         /\ ReleasedHolderClear'
<1> DEFINE s == obj[t]
<1> USE DEF SynchTypeInv, TypeInv, LockTypeOK, Goto
<1>1. pc[t] \in {"down", "retry"} /\ s \in Semaphore /\ holder' = holder
  BY DEF SemaDown, LocalsKnown
<1>2. CASE value[s] = 0
  <2>1. value' = value /\ obj' = obj /\ pc' = [pc EXCEPT ![t] = "retry"]
    BY <1>2 DEF SemaDown, MustWait
  <2>2. Undisturbed
    BY <1>1, <2>1 DEF Undisturbed
  <2> QED BY <2>1, <2>2, UndisturbedOwners
<1>3. CASE value[s] # 0 /\ s \notin Lock
  <2>1. /\ value' = [value EXCEPT ![s] = @ - 1]
        /\ obj' = [obj EXCEPT ![t] = None]
        /\ pc' = [pc EXCEPT ![t] = "run"]
    BY <1>3 DEF SemaDown, MustWait
  <2>2. Undisturbed
    BY <1>1, <1>3, <2>1 DEF Undisturbed, Semaphore
  <2> QED BY <1>3, <2>2, UndisturbedOwners
<1>4. CASE value[s] # 0 /\ s \in Lock
  <2>1. /\ value' = [value EXCEPT ![s] = @ - 1]
        /\ obj' = obj
        /\ pc' = [pc EXCEPT ![t] = "acquired"]
    BY <1>4 DEF SemaDown, MustWait
  <2>2. value[s] = 1 /\ \A u \in Thread : ~Owns(u, s)
    BY <1>4 DEF LockPermit
  <2>3. value'[s] = 0 /\ \A k \in Lock : k # s => value'[k] = value[k]
    BY <1>1, <2>1, <2>2 DEF Semaphore
  <2>4. \A u \in Thread, k \in Lock :
          Owns(u, k)' <=> IF u = t /\ k = s THEN TRUE ELSE Owns(u, k)
    <3>1. \A k \in Lock : Owns(t, k)' <=> (k = s \/ Owns(t, k))
      BY <1>1, <2>1 DEF Owns
    <3>2. \A u \in Thread, k \in Lock : u # t => (Owns(u, k)' <=> Owns(u, k))
      BY <1>1, <2>1 DEF Owns
    <3> QED BY <3>1, <3>2
  <2>5. Takes(t, s)
    BY <2>2, <2>3, <2>4 DEF Takes, OwnersBecome
  <2>6. ReleasedHolderClear'
    BY <1>1, <2>1 DEF ReleasedHolderClear
  <2> QED BY <1>4, <2>1, <2>5, <2>6
<1> QED BY <1>2, <1>3, <1>4

LEMMA LockTryAcquireOwners ==
  ASSUME SynchTypeInv, LockPermit, ReleasedHolderClear, NEW t \in Thread, NEW l \in Lock,
         LockTryAcquire(t, l)
  PROVE  (SameOwners \/ Takes(t, l)) /\ ReleasedHolderClear'
<1> USE DEF SynchTypeInv, TypeInv, LockTypeOK, Goto
<1>1. pc[t] = "run" /\ holder' = holder
  BY DEF LockTryAcquire, Calls, At
<1>2. CASE ~(value[l] > 0)
  <2>1. UNCHANGED <<value, obj, pc>>
    BY <1>2 DEF LockTryAcquire
  <2>2. Undisturbed
    BY <1>1, <2>1 DEF Undisturbed
  <2> QED BY <2>2, UndisturbedOwners
<1>3. CASE value[l] > 0
  <2>1. /\ value' = [value EXCEPT ![l] = @ - 1]
        /\ obj' = [obj EXCEPT ![t] = l]
        /\ pc' = [pc EXCEPT ![t] = "acquired"]
    BY <1>3 DEF LockTryAcquire
  <2>2. value[l] = 1 /\ \A u \in Thread : ~Owns(u, l)
    BY <1>3 DEF LockPermit
  <2>3. value'[l] = 0 /\ \A k \in Lock : k # l => value'[k] = value[k]
    BY <2>1, <2>2 DEF Semaphore
  <2>4. \A u \in Thread, k \in Lock :
          Owns(u, k)' <=> IF u = t /\ k = l THEN TRUE ELSE Owns(u, k)
    <3>1. \A k \in Lock : Owns(t, k)' <=> (k = l \/ Owns(t, k))
      BY <1>1, <2>1 DEF Owns
    <3>2. \A u \in Thread, k \in Lock : u # t => (Owns(u, k)' <=> Owns(u, k))
      BY <1>1, <2>1 DEF Owns
    <3> QED BY <3>1, <3>2
  <2>5. Takes(t, l)
    BY <2>2, <2>3, <2>4 DEF Takes, OwnersBecome
  <2>6. ReleasedHolderClear'
    BY <1>1, <2>1 DEF ReleasedHolderClear
  <2> QED BY <2>5, <2>6
<1> QED BY <1>2, <1>3

LEMMA SetHolderOwners ==
  ASSUME SynchTypeInv, LockPermit, ReleasedHolderClear, NEW t \in Thread, SetHolder(t)
  PROVE  SameOwners /\ ReleasedHolderClear'
<1> USE DEF SynchTypeInv, TypeInv, LockTypeOK, Goto
<1>0. PICK l \in Lock : l = obj[t]
  BY DEF SetHolder, At, LocalsKnown
<1>1. /\ pc[t] = "acquired" /\ obj[t] = l /\ value' = value
      /\ holder' = [holder EXCEPT ![l] = t]
      /\ obj' = [obj EXCEPT ![t] = None]
      /\ pc' = [pc EXCEPT ![t] = "run"]
  BY <1>0 DEF SetHolder, At
<1>2. Owns(t, l)
  BY <1>1 DEF Owns
<1>3. \A u \in Thread : Owns(u, l) => u = t
  BY <1>1, <1>2, OneOwner
<1>4. \A u \in Thread, k \in Lock : Owns(u, k)' <=> Owns(u, k)
  <2>1. ASSUME NEW u \in Thread PROVE Owns(u, l)' <=> Owns(u, l)
    BY <1>1, <1>2, <1>3 DEF Owns
  <2>2. ASSUME NEW u \in Thread, NEW k \in Lock, k # l PROVE Owns(u, k)' <=> Owns(u, k)
    BY <1>1, <2>2 DEF Owns
  <2> QED BY <2>1, <2>2
<1>5. SameOwners
  BY <1>1, <1>4 DEF SameOwners
<1>6. ReleasedHolderClear'
  <2> SUFFICES ASSUME NEW u \in Thread, pc'[u] = "release" PROVE holder'[obj'[u]] = None
    BY DEF ReleasedHolderClear
  <2>1. u # t /\ pc[u] = "release" /\ obj'[u] = obj[u] /\ obj[u] \in Lock
    BY <1>1 DEF LocalsKnown
  <2>2. obj[u] # l
    BY <1>3, <2>1 DEF Owns
  <2> QED BY <1>1, <2>1, <2>2 DEF ReleasedHolderClear
<1> QED BY <1>5, <1>6

LEMMA LockReleaseOwners ==
  ASSUME SynchTypeInv, LockPermit, ReleasedHolderClear, NEW t \in Thread, NEW l \in Lock,
         LockRelease(t, l)
  PROVE  SameOwners /\ ReleasedHolderClear'
<1> USE DEF SynchTypeInv, TypeInv, LockTypeOK, Goto
<1>1. /\ pc[t] = "run" /\ holder[l] = t /\ value' = value
      /\ holder' = [holder EXCEPT ![l] = None]
      /\ obj' = [obj EXCEPT ![t] = l]
      /\ pc' = [pc EXCEPT ![t] = "release"]
  BY DEF LockRelease, At
<1>2. Owns(t, l) /\ None \notin Thread
  BY <1>1, ThreadsAssumption DEF Owns
<1>3. \A u \in Thread : Owns(u, l) => u = t
  BY <1>2, OneOwner
<1>4. \A u \in Thread, k \in Lock : Owns(u, k)' <=> Owns(u, k)
  <2>1. ASSUME NEW u \in Thread PROVE Owns(u, l)' <=> Owns(u, l)
    BY <1>1, <1>2, <1>3 DEF Owns
  <2>2. ASSUME NEW u \in Thread, NEW k \in Lock, k # l PROVE Owns(u, k)' <=> Owns(u, k)
    BY <1>1, <2>2 DEF Owns
  <2> QED BY <2>1, <2>2
<1>5. SameOwners
  BY <1>1, <1>4 DEF SameOwners
<1>6. ReleasedHolderClear'
  BY <1>1 DEF ReleasedHolderClear, LocalsKnown
<1> QED BY <1>5, <1>6

LEMMA ReleaseUpOwners ==
  ASSUME SynchTypeInv, LockPermit, ReleasedHolderClear, NEW t \in Thread, ReleaseUp(t)
  PROVE  /\ \/ Panic("freed donor") /\ SameOwners
            \/ pc'[t] = "run" /\ obj[t] \in Lock /\ Gives(t, obj[t])
         /\ ReleasedHolderClear'
<1> DEFINE l == obj[t]
<1> USE DEF SynchTypeInv, TypeInv, LockTypeOK, Goto
<1>1. pc[t] = "release" /\ l \in Lock /\ holder[l] = None
  BY DEF ReleaseUp, At, LocalsKnown, ReleasedHolderClear
<1>2. CASE Panic("freed donor")
  <2>1. Undisturbed
    BY <1>2 DEF Undisturbed, Panic, threadVars, objectVars, localVars
  <2> QED BY <1>2, <2>1, UndisturbedOwners
<1>3. CASE /\ value' = [value EXCEPT ![l] = @ + 1]
           /\ holder' = holder
           /\ obj' = [obj EXCEPT ![t] = None]
           /\ pc' = [pc EXCEPT ![t] = "run"]
  <2>1. Owns(t, l)
    BY <1>1 DEF Owns
  <2>2. value[l] = 0
    BY <1>1, <2>1, OneOwner
  <2>3. value'[l] = 1 /\ \A k \in Lock : k # l => value'[k] = value[k]
    BY <1>1, <1>3, <2>2 DEF Semaphore
  <2>4. \A u \in Thread, k \in Lock :
          Owns(u, k)' <=> IF u = t /\ k = l THEN FALSE ELSE Owns(u, k)
    <3>1. \A k \in Lock : Owns(t, k)' <=> (k # l /\ Owns(t, k))
      BY <1>1, <1>3, ThreadsAssumption DEF Owns
    <3>2. \A u \in Thread, k \in Lock : u # t => (Owns(u, k)' <=> Owns(u, k))
      BY <1>1, <1>3 DEF Owns
    <3> QED BY <3>1, <3>2
  <2>5. Gives(t, l)
    BY <2>1, <2>2, <2>3, <2>4 DEF Gives, OwnersBecome
  <2>6. ReleasedHolderClear'
    BY <1>3 DEF ReleasedHolderClear
  <2> QED BY <1>1, <1>3, <2>5, <2>6
<1> QED BY <1>2, <1>3 DEF ReleaseUp, sema_up

LEMMA OwnersStep ==
  ASSUME SynchTypeInv, LockPermit, ReleasedHolderClear, [SynchNext]_vars
  PROVE  OwnerStep /\ ReleasedHolderClear'
<1>1. CASE Undisturbed
  BY <1>1, UndisturbedOwners DEF OwnerStep
<1>2. CASE \E t \in Thread : SynchThreadStep(t)
  <2>1. PICK t \in Thread : SynchThreadStep(t)
    BY <1>2
  <2>2. CASE LockStep(t)
    BY <1>1, <2>2, UndisturbedLockStep, LockTryAcquireOwners, LockReleaseOwners,
       SetHolderOwners, ReleaseUpOwners DEF LockStep, OwnerStep
  <2>3. CASE SemaStep(t)
    BY <1>1, <2>3, UndisturbedOther, SemaDownOwners DEF SemaStep, OwnerStep
  <2> QED BY <1>1, <2>1, <2>2, <2>3, UndisturbedOther DEF SynchThreadStep
<1>3. CASE Timer \/ Device \/ Idling \/ UNCHANGED vars
  BY <1>1, <1>3, UndisturbedBackground
<1> QED BY <1>2, <1>3 DEF SynchNext

(* The permit follows its owner. *)
LEMMA OwnerStepPermit ==
  ASSUME LockPermit, OwnerStep
  PROVE  LockPermit'
<1> DEFINE Permit(k) ==
         \/ value[k] = 1 /\ \A u \in Thread : ~Owns(u, k)
         \/ value[k] = 0 /\ \E u \in Thread : \A w \in Thread : Owns(w, k) = (w = u)
<1>1. ASSUME NEW k \in Lock, value'[k] = value[k], \A u \in Thread : Owns(u, k)' <=> Owns(u, k)
      PROVE  Permit(k)'
  <2>1. CASE value[k] = 1 /\ \A u \in Thread : ~Owns(u, k)
    BY <1>1, <2>1
  <2>2. CASE value[k] = 0 /\ \E u \in Thread : \A w \in Thread : Owns(w, k) = (w = u)
    <3>1. PICK u \in Thread : \A w \in Thread : Owns(w, k) = (w = u)
      BY <2>2
    <3>2. \A w \in Thread : Owns(w, k)' = (w = u)
      <4> SUFFICES ASSUME NEW w \in Thread PROVE Owns(w, k)' = (w = u)
        OBVIOUS
      <4>1. Owns(w, k)' <=> Owns(w, k)
        BY <1>1
      <4>2. Owns(w, k) = (w = u)
        BY <3>1
      <4> QED BY <4>1, <4>2 DEF Owns
    <3> QED BY <1>1, <2>2, <3>2
  <2> QED BY <2>1, <2>2 DEF LockPermit
<1>2. CASE SameOwners
  <2>1. \A k \in Lock : Permit(k)'
    BY <1>1, <1>2 DEF SameOwners
  <2> QED BY <2>1 DEF LockPermit
<1>3. ASSUME NEW t \in Thread, NEW l \in Lock, Takes(t, l) PROVE LockPermit'
  <2>1. \A w \in Thread : Owns(w, l)' = (w = t)
    <3>1. \A u \in Thread : ~Owns(u, l)
      BY <1>3 DEF Takes, LockPermit
    <3> SUFFICES ASSUME NEW w \in Thread PROVE Owns(w, l)' = (w = t)
      OBVIOUS
    <3>2. Owns(w, l)' <=> w = t
      BY <1>3, <3>1 DEF Takes, OwnersBecome
    <3> QED BY <3>2 DEF Owns
  <2>2. Permit(l)'
    BY <1>3, <2>1 DEF Takes
  <2>3. ASSUME NEW k \in Lock, k # l PROVE Permit(k)'
    <3>1. value'[k] = value[k] /\ \A u \in Thread : Owns(u, k)' <=> Owns(u, k)
      BY <1>3, <2>3 DEF Takes, OwnersBecome
    <3> QED BY <1>1, <3>1
  <2>4. \A k \in Lock : Permit(k)'
    BY <2>2, <2>3
  <2> QED BY <2>4 DEF LockPermit
<1>4. ASSUME NEW t \in Thread, NEW l \in Lock, Gives(t, l) PROVE LockPermit'
  <2>1. \A u \in Thread : Owns(u, l) => u = t
    BY <1>4, OneOwner DEF Gives
  <2>2. \A u \in Thread : ~Owns(u, l)'
    BY <1>4, <2>1 DEF Gives, OwnersBecome
  <2>3. Permit(l)'
    BY <1>4, <2>2 DEF Gives
  <2>4. ASSUME NEW k \in Lock, k # l PROVE Permit(k)'
    <3>1. value'[k] = value[k] /\ \A u \in Thread : Owns(u, k)' <=> Owns(u, k)
      BY <1>4, <2>4 DEF Gives, OwnersBecome
    <3> QED BY <1>1, <3>1
  <2>5. \A k \in Lock : Permit(k)'
    BY <2>3, <2>4
  <2> QED BY <2>5 DEF LockPermit
<1> QED BY <1>2, <1>3, <1>4 DEF OwnerStep

LEMMA InitPermit == SynchInit => LockPermit /\ ReleasedHolderClear
BY ThreadsAssumption DEF SynchInit, Init, LockPermit, Owns, ReleasedHolderClear, Semaphore

LEMMA InvariantStep ==
  ASSUME IInv, [SynchNext]_vars
  PROVE  IInv'
BY SynchStepTypeInv, OwnersStep, OwnerStepPermit DEF IInv

LEMMA Invariance == SynchSpec => []IInv
<1>1. SynchInit => IInv
  BY InitSynchTypeInv, InitPermit DEF IInv
<1>2. IInv /\ [SynchNext]_vars => IInv'
  BY InvariantStep
<1> QED BY <1>1, <1>2, PTL DEF SynchSpec

(* Mutual exclusion: between the sema_down that takes the permit of a lock *)
(* and the sema_up that gives it back nobody else owns the lock, although  *)
(* holder is written with interrupts on and read by every donor.           *)
THEOREM MutualExclusion == SynchSpec => []LockPermit
<1>1. IInv => LockPermit
  BY DEF IInv
<1> QED BY <1>1, Invariance, PTL

-----------------------------------------------------------------------------
(* The locks implement Mutex: owner is read off Owns. *)

LEMMA OwnerValue ==
  ASSUME LockPermit, NEW l \in Lock
  PROVE  /\ \A t \in Thread : Owns(t, l) => owner[l] = t
         /\ (\A t \in Thread : ~Owns(t, l)) => owner[l] = None
BY DEF LockPermit, owner

LEMMA OwnerValueNext ==
  ASSUME LockPermit', NEW l \in Lock
  PROVE  /\ \A t \in Thread : Owns(t, l)' => owner'[l] = t
         /\ (\A t \in Thread : ~Owns(t, l)') => owner'[l] = None
BY DEF LockPermit, owner

LEMMA OwnerFunction ==
  owner = [l \in Lock |-> owner[l]] /\ owner' = [l \in Lock |-> owner'[l]]
BY DEF owner

LEMMA OwnerKept ==
  ASSUME LockPermit, LockPermit', NEW k \in Lock, \A u \in Thread : Owns(u, k)' <=> Owns(u, k)
  PROVE  owner'[k] = owner[k]
<1>1. CASE \E u \in Thread : Owns(u, k)
  BY <1>1, OwnerValue, OwnerValueNext
<1>2. CASE \A u \in Thread : ~Owns(u, k)
  BY <1>2, OwnerValue, OwnerValueNext
<1> QED BY <1>1, <1>2

LEMMA SameOwner ==
  ASSUME LockPermit, LockPermit', SameOwners
  PROVE  owner' = owner
<1>1. \A k \in Lock : owner'[k] = owner[k]
  BY OwnerKept DEF SameOwners
<1> QED BY <1>1, OwnerFunction

(* The owner of a lock changes from nobody to a thread and back. *)
LEMMA TakesAcquires ==
  ASSUME LockPermit, LockPermit', NEW t \in Thread, NEW l \in Lock, Takes(t, l)
  PROVE  Abstract!Acquire(t, l)
<1>1. owner[l] = None
  BY OwnerValue DEF Takes, LockPermit
<1>2. Owns(t, l)'
  BY DEF Takes, OwnersBecome
<1>3. owner'[l] = t
  BY <1>2, OwnerValueNext
<1>4. \A k \in Lock : k # l => owner'[k] = owner[k]
  BY OwnerKept DEF Takes, OwnersBecome
<1>5. owner' = [owner EXCEPT ![l] = t]
  BY <1>3, <1>4, OwnerFunction
<1> QED BY <1>1, <1>5 DEF Abstract!Acquire

LEMMA GivesReleases ==
  ASSUME LockPermit, LockPermit', NEW t \in Thread, NEW l \in Lock, Gives(t, l)
  PROVE  Abstract!Release(t, l)
<1>1. owner[l] = t
  BY OwnerValue DEF Gives
<1>2. \A u \in Thread : ~Owns(u, l)'
  BY OneOwner DEF Gives, OwnersBecome
<1>3. owner'[l] = None
  BY <1>2, OwnerValueNext
<1>4. \A k \in Lock : k # l => owner'[k] = owner[k]
  BY OwnerKept DEF Gives, OwnersBecome
<1>5. owner' = [owner EXCEPT ![l] = None]
  BY <1>3, <1>4, OwnerFunction
<1> QED BY <1>1, <1>5 DEF Abstract!Release

LEMMA OwnerStepImplementsMutex ==
  ASSUME LockPermit, LockPermit', OwnerStep
  PROVE  [Abstract!Next]_owner
BY SameOwner, TakesAcquires, GivesReleases DEF OwnerStep, Abstract!Next

(* struct lock keeps the promise of a mutex: it is taken only when nobody  *)
(* owns it and given back only by its owner, at the step that moves the    *)
(* permit of its semaphore.                                                *)
THEOREM LocksImplementMutex == SynchSpec => ImplementsMutex
<1>1. SynchInit => Abstract!Init
  <2> SUFFICES ASSUME SynchInit PROVE Abstract!Init
    OBVIOUS
  <2>1. \A l \in Lock, t \in Thread : ~Owns(t, l)
    BY ThreadsAssumption DEF SynchInit, Init, Owns
  <2> QED BY <2>1 DEF owner, Abstract!Init
<1>2. IInv /\ IInv' /\ [SynchNext]_vars => [Abstract!Next]_owner
  BY OwnersStep, OwnerStepImplementsMutex DEF IInv
<1> QED BY <1>1, <1>2, Invariance, PTL DEF SynchSpec, ImplementsMutex, Abstract!Spec
=============================================================================
