----------------------------- MODULE CondProofs ------------------------------
(***************************************************************************)
(* Proofs about condition variables, for any number of threads, monitors   *)
(* and waiters: the types, that cond_signal never reaches an element on a  *)
(* stack that is gone and takes the highest sleeper, and, from what is     *)
(* known of the signals under way, that the code implements a monitor.     *)
(***************************************************************************)
EXTENDS CondVar, WaitersProofs

(* cond_remove leaves the other elements, each once. *)
LEMMA WithoutRange ==
  ASSUME NEW S, NEW q \in Seq(S), NEW G, IsInjective(q)
  PROVE  /\ Range(list_without(q, G)) = Range(q) \ G
         /\ IsInjective(list_without(q, G))
<1> DEFINE f == CHOOSE f : f = Kept(q, G, f, Len(q))
<1>1. list_without(q, G) = f[Len(q)]
  BY DEF list_without, Kept
<1>2. f = Kept(q, G, f, Len(q))
  BY KeptExists
<1> HIDE DEF f
<1> DEFINE Good(i) == /\ f[i] \in Seq(S) /\ IsInjective(f[i])
                      /\ Range(f[i]) = {q[j] : j \in 1..i} \ G
<1> DEFINE Bad == {i \in 0..Len(q) : ~Good(i)}
<1>3. Bad = {}
  <2> SUFFICES ASSUME Bad # {} PROVE FALSE
    OBVIOUS
  <2>1. PICK n \in Bad : \A m \in Bad : n <= m
    <3>1. Bad \in SUBSET Nat
      OBVIOUS
    <3> HIDE DEF Bad
    <3> QED BY <3>1, LeastElement
  <2>2. n \in 0..Len(q) /\ ~Good(n)
    OBVIOUS
  <2>3. CASE n = 0
    <3>1. f[0] = <<>>
      BY <1>2 DEF Kept
    <3>2. Range(f[0]) = {} /\ IsInjective(f[0])
      BY <3>1 DEF Range, IsInjective
    <3> QED BY <2>2, <2>3, <3>1, <3>2
  <2>4. CASE n # 0
    <3>1. n - 1 \in 0..Len(q) /\ n \in 1..Len(q) /\ n - 1 \notin Bad
      <4>1. Len(q) \in Nat /\ n \in Int
        BY <2>2
      <4>2. n - 1 \in 0..Len(q) /\ n \in 1..Len(q)
        BY <2>2, <2>4, <4>1
      <4>3. n - 1 \notin Bad
        <5> HIDE DEF Bad
        <5> QED BY <2>1, <4>1
      <4> QED BY <4>2, <4>3
    <3>2. Good(n - 1)
      BY <3>1
    <3>3. f[n] = IF q[n] \in G THEN f[n - 1] ELSE Append(f[n - 1], q[n])
      BY <1>2, <2>2, <2>4 DEF Kept
    <3>4. {q[j] : j \in 1..n} = {q[j] : j \in 1..(n - 1)} \cup {q[n]}
      BY <3>1
    <3>5. CASE q[n] \in G
      BY <2>2, <3>2, <3>3, <3>4, <3>5
    <3>6. CASE q[n] \notin G
      <4>1. q[n] \in S /\ f[n] = Append(f[n - 1], q[n])
        BY <3>1, <3>3, <3>6
      <4>2. q[n] \notin {q[j] : j \in 1..(n - 1)}
        BY <3>1 DEF IsInjective
      <4>3. /\ Range(f[n]) = Range(f[n - 1]) \cup {q[n]}
            /\ IsInjective(f[n]) /\ f[n] \in Seq(S)
        BY <3>2, <4>1, <4>2, AppendRange, SMTT(30)
      <4> QED BY <2>2, <3>2, <3>4, <3>6, <4>3
    <3> QED BY <3>5, <3>6
  <2> QED BY <2>3, <2>4
<1>4. Good(Len(q))
  <2>1. Len(q) \in 0..Len(q)
    OBVIOUS
  <2> HIDE DEF Good
  <2> QED BY <1>3, <2>1
<1>5. Range(q) = {q[j] : j \in 1..Len(q)}
  BY DEF Range
<1> QED BY <1>1, <1>4, <1>5

-----------------------------------------------------------------------------
(* What Synch keeps is kept. *)

(* The types of what CondVar adds. *)
CondTypes ==
  /\ cond_waiters \in [Cond -> Seq(Thread)]
  /\ cond_pc \in [Thread -> CondLabel]
  /\ cond \in [Thread -> Cond \cup {None}]
  /\ max_elem \in [Thread -> Thread \cup {None}]
  /\ broadcast \in [Thread -> BOOLEAN]

(* A thread in cond_wait or cond_signal has a condition variable, and one  *)
(* between the sema_up of cond_signal and its list_remove an element.      *)
ArgumentsKnown ==
  \A t \in Thread :
    /\ cond_pc[t] # "out" => cond[t] \in Cond
    /\ cond_pc[t] \in {"up", "remove"} <=> max_elem[t] # None
    /\ cond_pc[t] = "choose" => cond_waiters[cond[t]] # <<>>

LEMMA CondConstants ==
  /\ \A c \in Cond : CondLock[c] \in Lock
  /\ \A t \in Thread : WaiterSema[t] \in Sema /\ WaiterSema[t] \in Semaphore
                       /\ WaiterSema[t] \notin Lock
  /\ \A t, u \in Thread : WaiterSema[t] = WaiterSema[u] => t = u
BY CondAssumption, SynchAssumption DEF IsInjective, Semaphore

(* The steps of CondVar that are no steps of Synch. *)
CondOwn(t) ==
  \/ \E c \in Cond : CondWait(t, c) \/ \E all \in BOOLEAN : CondSignal(t, c, all)
  \/ CondDown(t) \/ CondReacquire(t) \/ CondChoose(t) \/ CondUp(t) \/ CondRemove(t)

LEMMA CondOwnTypeInv ==
  ASSUME SynchTypeInv, CondTypes, ArgumentsKnown, NEW t \in Thread, CondOwn(t)
  PROVE  SynchTypeInv'
<1> USE DEF SynchTypeInv, TypeInv, Goto, At, Runs, Calls, Local, cpuVars, timerVars,
            objectVars, donorVars, localVars
<1> USE DEF SynchLabel, ThreadLabel, InLockAcquire
<1> USE CondConstants
<1>1. ASSUME NEW c \in Cond, CondWait(t, c) PROVE SynchTypeInv'
  <2>1. ThreadTypeOK' /\ pc' \in [Thread -> SynchLabel]
    BY <1>1 DEF CondWait, ThreadTypeOK
  <2>2. value' \in [Semaphore -> Nat] /\ waiters' \in [Semaphore -> Seq(Thread)]
    BY <1>1 DEF CondWait, LockTypeOK
  <2>3. LockTypeOK'
    BY <1>1, <2>2 DEF CondWait, LockTypeOK
  <2>4. ChildKnown' /\ LocalsKnown'
    BY <1>1 DEF CondWait, ChildKnown, LocalsKnown
  <2> QED BY <2>1, <2>3, <2>4
<1>2. ASSUME NEW c \in Cond, NEW all, CondSignal(t, c, all) PROVE SynchTypeInv'
  <2>1. ThreadTypeOK' /\ pc' \in [Thread -> SynchLabel]
    BY <1>2 DEF CondSignal, ThreadTypeOK
  <2>2. LockTypeOK'
    BY <1>2 DEF CondSignal, LockTypeOK
  <2>3. ChildKnown' /\ LocalsKnown'
    BY <1>2 DEF CondSignal, ChildKnown, LocalsKnown
  <2> QED BY <2>1, <2>2, <2>3
<1>3. CASE CondDown(t)
  <2>1. ThreadTypeOK' /\ pc' \in [Thread -> SynchLabel]
    BY <1>3 DEF CondDown, CondAt, EnterDown, ThreadTypeOK
  <2>2. LockTypeOK'
    BY <1>3 DEF CondDown, CondAt, EnterDown, LockTypeOK
  <2>3. ChildKnown' /\ LocalsKnown'
    BY <1>3 DEF CondDown, CondAt, EnterDown, ChildKnown, LocalsKnown, LockTypeOK
  <2> QED BY <2>1, <2>2, <2>3
<1>4. CASE CondReacquire(t)
  <2> DEFINE l == CondLock[cond[t]]
  <2>1. l \in Lock /\ l \in Semaphore
    BY <1>4 DEF CondReacquire, CondAt, ArgumentsKnown, Semaphore
  <2>2. EnterAcquire(t, l) /\ UNCHANGED ops /\ pc[t] = "run"
    BY <1>4 DEF CondReacquire, CondAt
  <2> HIDE DEF l
  <2>3. ThreadTypeOK' /\ pc' \in [Thread -> SynchLabel]
    BY <2>1, <2>2 DEF EnterAcquire, ThreadTypeOK
  <2>4. LockTypeOK'
    BY <2>1, <2>2 DEF EnterAcquire, LockTypeOK
  <2>5. ChildKnown' /\ LocalsKnown'
    BY <2>1, <2>2 DEF EnterAcquire, ChildKnown, LocalsKnown, LockTypeOK
  <2> QED BY <2>3, <2>4, <2>5
<1>5. CASE CondUp(t)
  <2> DEFINE s == WaiterSema[max_elem[t]]
  <2>1. s \in Semaphore
    BY <1>5 DEF CondUp, CondAt, ArgumentsKnown, CondTypes
  <2>2. CASE Panic("freed donor")
    BY <2>2, PanicTypeInv DEF Fault
  <2>3. CASE sema_up(s, FALSE) /\ UNCHANGED <<pc, ops, obj>>
    <3> HIDE DEF s
    <3>1. /\ CpuTypeOK'
          /\ priority' \in [Thread -> Priority]
          /\ value' \in [Semaphore -> Nat]
          /\ waiters' \in [Semaphore -> Seq(Thread)]
          /\ donations' \in [Thread -> Seq(Thread)]
      BY <2>1, <2>3, SemaUpType
    <3>2. UNCHANGED <<timerVars, child, priority_origin, wait_on_lock, holder, chain, fault>>
      BY <2>3 DEF sema_up
    <3>3. ThreadTypeOK' /\ LockTypeOK'
      BY <2>3, <3>1, <3>2 DEF ThreadTypeOK, LockTypeOK, CpuTypeOK
    <3>4. ChildKnown' /\ LocalsKnown'
      BY <2>3, <3>2 DEF ChildKnown, LocalsKnown
    <3> QED BY <2>3, <3>3, <3>4
  <2> QED BY <1>5, <2>2, <2>3 DEF CondUp
<1>6. CASE CondChoose(t) \/ CondRemove(t)
  <2>1. UNCHANGED vars
    BY <1>6 DEF CondChoose, CondRemove
  <2> QED BY <2>1, SynchStepTypeInv
<1> QED BY <1>1, <1>2, <1>3, <1>4, <1>5, <1>6 DEF CondOwn

LEMMA CondOwnUndisturbed ==
  ASSUME SynchTypeInv, CondTypes, ArgumentsKnown, NEW t \in Thread, CondOwn(t)
  PROVE  Undisturbed
<1> USE DEF SynchTypeInv, TypeInv, LockTypeOK, Undisturbed, Goto, At, objectVars, localVars
<1> USE CondConstants
<1>1. ASSUME NEW c \in Cond, CondWait(t, c) PROVE Undisturbed
  BY <1>1 DEF CondWait
<1>2. ASSUME NEW c \in Cond, NEW all, CondSignal(t, c, all) PROVE Undisturbed
  BY <1>2 DEF CondSignal
<1>3. CASE CondDown(t)
  BY <1>3 DEF CondDown, CondAt, EnterDown
<1>4. CASE CondReacquire(t)
  BY <1>4 DEF CondReacquire, CondAt, EnterAcquire
<1>5. CASE CondUp(t)
  <2> DEFINE s == WaiterSema[max_elem[t]]
  <2>1. s \notin Lock
    BY <1>5 DEF CondUp, CondAt, ArgumentsKnown, CondTypes
  <2>2. UNCHANGED <<pc, obj, holder>>
    BY <1>5 DEF CondUp, sema_up, Panic, threadVars
  <2>3. UNCHANGED value \/ value' = [value EXCEPT ![s] = @ + 1]
    BY <1>5 DEF CondUp, sema_up, Panic
  <2>4. \A l \in Lock : value'[l] = value[l]
    BY <2>1, <2>3 DEF Semaphore
  <2> QED BY <2>2, <2>4
<1>6. CASE CondChoose(t) \/ CondRemove(t)
  BY <1>6 DEF CondChoose, CondRemove, vars, threadVars, synchVars
<1> QED BY <1>1, <1>2, <1>3, <1>4, <1>5, <1>6 DEF CondOwn

(* Locks keep their promise under condition variables too. *)
LEMMA CondStepLocks ==
  ASSUME IInv, CondTypes, ArgumentsKnown, CondNext \/ UNCHANGED vars
  PROVE  IInv'
<1> SUFFICES SynchTypeInv' /\ OwnerStep /\ ReleasedHolderClear'
  BY OwnerStepPermit DEF IInv
<1> USE DEF IInv
<1>1. ASSUME NEW t \in Thread, CondOwn(t) PROVE SynchTypeInv' /\ OwnerStep /\ ReleasedHolderClear'
  BY <1>1, CondOwnTypeInv, CondOwnUndisturbed, UndisturbedOwners DEF OwnerStep
<1>2. ASSUME NEW t \in Thread, CondRelease(t) PROVE SynchTypeInv' /\ OwnerStep /\ ReleasedHolderClear'
  <2>1. CondLock[cond[t]] \in Lock
    BY <1>2, CondConstants DEF CondRelease, CondAt, ArgumentsKnown
  <2>2. LockRelease(t, CondLock[cond[t]])
    BY <1>2 DEF CondRelease
  <2> QED BY <2>1, <2>2, LockStepTypeInv, LockReleaseOwners DEF OwnerStep
<1>3. ASSUME NEW t \in Thread, OtherStep(t) PROVE SynchTypeInv' /\ OwnerStep /\ ReleasedHolderClear'
  <2>1. CASE \/ \E c \in Thread, p \in Priority : Create(t, c, p)
             \/ Schedules(t) \/ Exit(t)
    BY <2>1, ScheduleStepTypeInv, UndisturbedOther, UndisturbedOwners DEF OwnerStep
  <2>2. CASE LockStep(t) /\ ~ReleaseUp(t)
    BY <2>2, LockStepTypeInv, UndisturbedLockStep, UndisturbedOwners, LockTryAcquireOwners,
       LockReleaseOwners, SetHolderOwners DEF LockStep, OwnerStep
  <2>3. CASE ReleaseUp(t) \/ SemaDown(t)
    BY <2>3, SemaStepTypeInv, ReleaseUpOwners, SemaDownOwners DEF OwnerStep
  <2>4. (CreateUnblock(t) \/ CreatePreempt(t)) /\ UNCHANGED synchVars => Schedules(t)
    BY DEF Schedules
  <2> QED BY <1>3, <2>1, <2>2, <2>3, <2>4 DEF OtherStep
<1>4. CASE Timer \/ Idling
  BY <1>4, BackgroundTypeInv, UndisturbedBackground, UndisturbedOwners DEF OwnerStep
<1>5. CASE UNCHANGED vars
  BY <1>5, SynchStepTypeInv, UndisturbedBackground, UndisturbedOwners DEF OwnerStep
<1> QED BY <1>1, <1>2, <1>3, <1>4, <1>5 DEF CondNext, CondThreadStep, CondOwn

-----------------------------------------------------------------------------
(* The elements. *)

(* cond_signal has upped the semaphore of u and not removed u yet. *)
BeingRemoved(u) == \E t \in Thread :
  max_elem[t] = u /\ cond_pc[t] = "remove" /\ cond[t] = cond[u]

(* u has not been upped, and cannot have got past its sema_down. *)
Unsignaled(u) ==
  /\ value[WaiterSema[u]] = 0
  /\ \/ cond_pc[u] \in {"release", "down"}
     \/ cond_pc[u] = "reacquire" /\ pc[u] \in {"down", "retry"}

ListsSound ==
  \A c \in Cond :
    /\ IsInjective(cond_waiters[c])
    /\ \A u \in Range(cond_waiters[c]) : InWait(u) /\ cond[u] = c

ElemsSound ==
  /\ \A c \in Cond : \A u \in Range(cond_waiters[c]) : Unsignaled(u) \/ BeingRemoved(u)
  /\ \A t \in Thread : max_elem[t] # None => max_elem[t] \in Range(cond_waiters[cond[t]])

(* Who works on cond->waiters has the lock, and is in no other call. *)
Working(t) == cond_pc[t] \in {"release", "choose", "up", "remove"}
MonitorHeld ==
  \A t \in Thread : Working(t) => pc[t] = "run" /\ holder[CondLock[cond[t]]] = t

(* Where a waiter is in the calls that cond_wait makes. *)
Acquiring == InLockAcquire \cup {"down", "retry", "acquired"}
WaitersCalls ==
  \A t \in Thread :
    /\ cond_pc[t] = "down" => pc[t] \in {"release", "run"}
    /\ cond_pc[t] = "reacquire" =>
         pc[t] = "run" \/ (pc[t] \in {"down", "retry"} /\ obj[t] = WaiterSema[t])
    /\ cond_pc[t] = "return" => pc[t] \in Acquiring /\ obj[t] = CondLock[cond[t]]

CondInv ==
  /\ CondTypes /\ ArgumentsKnown /\ ListsSound /\ ElemsSound /\ MonitorHeld /\ WaitersCalls

LEMMA InitCondInv == CondInit => IInv /\ CondInv
<1> SUFFICES ASSUME CondInit PROVE IInv /\ CondInv
  OBVIOUS
<1>1. IInv
  BY InitSynchTypeInv, InitPermit DEF CondInit, IInv
<1>2. CondTypes
  BY DEF CondInit, CondTypes, CondLabel
<1>3. ArgumentsKnown
  BY DEF CondInit, ArgumentsKnown
<1>4. \A c \in Cond : Range(cond_waiters[c]) = {} /\ IsInjective(cond_waiters[c])
  BY DEF CondInit, Range, IsInjective
<1>5. ListsSound /\ ElemsSound
  BY <1>4 DEF CondInit, ListsSound, ElemsSound
<1>6. MonitorHeld /\ WaitersCalls
  BY DEF CondInit, MonitorHeld, WaitersCalls, Working
<1> QED BY <1>1, <1>2, <1>3, <1>5, <1>6 DEF CondInv

(* What every step below leaves of the others and of the semaphores of     *)
(* waiters.                                                                *)
OthersStay(t) == \A u \in Thread : u # t => pc'[u] = pc[u] /\ obj'[u] = obj[u]
ZerosStay == \A u \in Thread : value[WaiterSema[u]] = 0 => value'[WaiterSema[u]] = 0
HoldersStay == \A u \in Thread, l \in Lock : pc[u] = "run" /\ holder[l] = u /\ Working(u) =>
                 holder'[l] = u

(* A step of a thread that is in a call, or in no monitor. *)
LEMMA OtherStepFrame ==
  ASSUME IInv, CondInv, NEW t \in Thread, OtherStep(t)
  PROVE  /\ OthersStay(t) /\ ZerosStay /\ HoldersStay
         /\ pc[t] # "run" \/ cond_pc[t] = "out"
<1> USE DEF IInv, SynchTypeInv, TypeInv, LockTypeOK, Goto, At, Runs, Calls
<1> USE DEF OthersStay, ZerosStay, HoldersStay, objectVars, donorVars, localVars
<1> USE CondConstants
<1>0. pc[t] # "run" \/ cond_pc[t] = "out"
  BY DEF OtherStep
<1>1. ASSUME UNCHANGED <<value, holder>>, OthersStay(t) PROVE ZerosStay /\ HoldersStay
  BY <1>1
<1>2. CASE \/ \E c \in Thread, p \in Priority : Create(t, c, p)
           \/ Schedules(t) \/ Exit(t)
  <2>1. UNCHANGED <<value, holder, obj>> /\ ThreadStep(t)
    BY <1>2 DEF Create, Schedules, Exit, ThreadStep, synchVars
  <2>2. OthersStay(t)
    BY <2>1, ThreadStepPc
  <2>3. UNCHANGED <<value, holder>>
    BY <2>1
  <2> HIDE DEF IInv, SynchTypeInv, TypeInv, LockTypeOK, Goto, At, Runs, Calls,
        OthersStay, ZerosStay, HoldersStay
  <2> QED BY <1>0, <1>1, <2>2, <2>3
<1>3. ASSUME NEW why, Panic(why) PROVE OthersStay(t) /\ ZerosStay /\ HoldersStay
  BY <1>3 DEF Panic, threadVars
<1>4. ASSUME NEW h, FollowTo(t, h) PROVE OthersStay(t) /\ ZerosStay /\ HoldersStay
  BY <1>4 DEF FollowTo
<1>5. CASE LockStep(t)
  <2>1. ASSUME NEW l \in Lock, LockAcquire(t, l) PROVE OthersStay(t) /\ ZerosStay /\ HoldersStay
    BY <2>1 DEF LockAcquire, EnterAcquire
  <2>2. ASSUME NEW l \in Lock, LockTryAcquire(t, l)
        PROVE  OthersStay(t) /\ ZerosStay /\ HoldersStay
    <3>1. holder' = holder /\ (value' = value \/ value' = [value EXCEPT ![l] = @ - 1])
      BY <2>2 DEF LockTryAcquire
    <3>2. OthersStay(t)
      BY <2>2 DEF LockTryAcquire
    <3> QED BY <3>1, <3>2
  <2>3. ASSUME NEW l \in Lock, LockRelease(t, l) PROVE OthersStay(t) /\ ZerosStay /\ HoldersStay
    <3>1. /\ pc[t] = "run" /\ holder[l] = t /\ holder' = [holder EXCEPT ![l] = None]
          /\ value' = value
      BY <2>3 DEF LockRelease
    <3>2. ~Working(t)
      BY <1>0, <3>1 DEF Working
    <3>3. HoldersStay
      BY <3>1, <3>2
    <3>4. OthersStay(t)
      BY <2>3 DEF LockRelease
    <3> QED BY <3>1, <3>3, <3>4
  <2>4. CASE TestHolder(t) \/ ComparePriority(t) \/ PushDonation(t)
             \/ DonateSet(t) \/ DonateTest(t)
    BY <1>3, <2>4 DEF TestHolder, ComparePriority, PushDonation, DonateSet, DonateTest
  <2>5. CASE DonateStart(t) \/ DonateNext(t)
    BY <1>3, <1>4, <2>5 DEF DonateStart, DonateNext
  <2>6. CASE SetHolder(t)
    <3>1. /\ pc[t] = "acquired" /\ obj[t] \in Lock
          /\ holder' = [holder EXCEPT ![obj[t]] = t] /\ value' = value
      BY <2>6 DEF SetHolder, LocalsKnown
    <3>2. Owns(t, obj[t])
      BY <3>1 DEF Owns
    <3>3. \A u \in Thread : holder[obj[t]] = u => u = t
      BY <3>1, <3>2, OneOwner DEF Owns
    <3>4. OthersStay(t)
      BY <2>6 DEF SetHolder
    <3> QED BY <3>1, <3>3, <3>4
  <2>7. CASE ReleaseUp(t)
    <3>1. obj[t] \in Lock
      BY <2>7 DEF ReleaseUp, LocalsKnown
    <3>2. CASE sema_up(obj[t], FALSE) /\ obj' = [obj EXCEPT ![t] = None] /\ Goto(t, "run")
      <4>1. value' = [value EXCEPT ![obj[t]] = @ + 1] /\ holder' = holder
        BY <3>2 DEF sema_up
      <4>2. \A u \in Thread : WaiterSema[u] # obj[t]
        BY <3>1
      <4>3. ZerosStay
        BY <4>1, <4>2
      <4>4. OthersStay(t)
        BY <3>2
      <4>5. HoldersStay
        BY <4>1
      <4> QED BY <1>0, <4>3, <4>4, <4>5
    <3> QED BY <1>3, <2>7, <3>2 DEF ReleaseUp
  <2> HIDE DEF IInv, SynchTypeInv, TypeInv, LockTypeOK, Goto, At, Runs, Calls,
        OthersStay, ZerosStay, HoldersStay
  <2> QED BY <1>0, <1>5, <2>1, <2>2, <2>3, <2>4, <2>5, <2>6, <2>7 DEF LockStep
<1>6. CASE SemaDown(t)
  <2>1. OthersStay(t) /\ holder' = holder
    BY <1>6 DEF SemaDown
  <2>2. value' = value \/ (value[obj[t]] # 0 /\ value' = [value EXCEPT ![obj[t]] = @ - 1])
    BY <1>6 DEF SemaDown, MustWait
  <2>3. ZerosStay
    BY <2>2
  <2>4. HoldersStay
    BY <2>1
  <2> QED BY <1>0, <2>1, <2>3, <2>4
<1>7. (CreateUnblock(t) \/ CreatePreempt(t)) /\ UNCHANGED synchVars => Schedules(t)
  BY DEF Schedules
<1> QED BY <1>0, <1>2, <1>5, <1>6, <1>7 DEF OtherStep

(* How a waiter moves in the calls of cond_wait. *)
LEMMA WaiterMoves ==
  ASSUME IInv, CondInv, NEW t \in Thread, OtherStep(t)
  PROVE  /\ cond_pc[t] = "down" => pc'[t] \in {"release", "run"}
         /\ cond_pc[t] = "reacquire" =>
              \/ pc'[t] \in {"down", "retry"} /\ obj'[t] = WaiterSema[t]
              \/ pc'[t] = "run" /\ value[WaiterSema[t]] # 0
         /\ cond_pc[t] = "return" =>
              \/ pc'[t] \in Acquiring /\ obj'[t] = CondLock[cond[t]]
              \/ pc'[t] = "run" /\ Owns(t, CondLock[cond[t]])
<1> USE DEF IInv, SynchTypeInv, TypeInv, LockTypeOK, Goto, At, Runs
<1> USE DEF localVars
<1>1. pc[t] # "run" \/ cond_pc[t] = "out"
  BY DEF OtherStep
<1>2. CASE cond_pc[t] = "down"
  <2>1. pc[t] = "release"
    BY <1>1, <1>2 DEF CondInv, WaitersCalls
  <2>2. ReleaseUp(t)
    BY <2>1 DEF OtherStep, Create, CreateThread, CreateUnblock, CreatePreempt, Exit, ThreadExit,
       LockStep, LockAcquire, LockTryAcquire, LockRelease, Calls, TestHolder, ComparePriority,
       PushDonation, DonateStart, DonateSet, DonateTest, DonateNext, SetHolder, SemaDown
  <2>3. pc' = pc \/ pc' = [pc EXCEPT ![t] = "run"]
    BY <2>2 DEF ReleaseUp, Panic, threadVars
  <2> QED BY <1>2, <2>1, <2>3
<1>3. CASE cond_pc[t] = "reacquire"
  <2>1. pc[t] \in {"down", "retry"} /\ obj[t] = WaiterSema[t]
    BY <1>1, <1>3 DEF CondInv, WaitersCalls
  <2>2. SemaDown(t)
    BY <2>1 DEF OtherStep, Create, CreateThread, CreateUnblock, CreatePreempt, Exit, ThreadExit,
       LockStep, LockAcquire, LockTryAcquire, LockRelease, Calls, TestHolder, ComparePriority,
       PushDonation, DonateStart, DonateSet, DonateTest, DonateNext, SetHolder, ReleaseUp
  <2>3. WaiterSema[t] \notin Lock
    BY CondConstants
  <2>4. \/ pc' = [pc EXCEPT ![t] = "retry"] /\ obj' = obj
        \/ pc' = [pc EXCEPT ![t] = "run"] /\ value[WaiterSema[t]] # 0
    BY <2>1, <2>2, <2>3 DEF SemaDown, MustWait
  <2> QED BY <1>3, <2>1, <2>4
<1>4. CASE cond_pc[t] = "return"
  <2>1. pc[t] \in Acquiring /\ obj[t] = CondLock[cond[t]]
    BY <1>4 DEF CondInv, WaitersCalls
  <2>2. CondLock[cond[t]] \in Lock
    BY <1>4, CondConstants DEF CondInv, ArgumentsKnown
  <2>3. \/ TestHolder(t) \/ ComparePriority(t) \/ PushDonation(t)
        \/ DonateStart(t) \/ DonateSet(t) \/ DonateTest(t) \/ DonateNext(t)
        \/ SetHolder(t) \/ SemaDown(t)
    BY <2>1 DEF Acquiring, InLockAcquire, OtherStep, Create, CreateThread, CreateUnblock,
       CreatePreempt, Exit, ThreadExit, LockStep, LockAcquire, LockTryAcquire, LockRelease,
       Calls, ReleaseUp
  <2>4. CASE SetHolder(t)
    <3>1. pc[t] = "acquired" /\ pc' = [pc EXCEPT ![t] = "run"]
      BY <2>4 DEF SetHolder
    <3> QED BY <1>4, <2>1, <3>1 DEF Owns
  <2>5. CASE SemaDown(t)
    <3>1. obj' = obj /\ (pc' = [pc EXCEPT ![t] = "retry"] \/ pc' = [pc EXCEPT ![t] = "acquired"])
      BY <2>1, <2>2, <2>5 DEF SemaDown
    <3> QED BY <1>4, <2>1, <3>1 DEF Acquiring
  <2>6. ASSUME NEW why, Panic(why) PROVE pc'[t] = pc[t] /\ obj'[t] = obj[t]
    BY <2>6 DEF Panic, threadVars
  <2>7. ASSUME NEW h, FollowTo(t, h) PROVE pc'[t] \in Acquiring /\ obj'[t] = obj[t]
    BY <2>7 DEF FollowTo, Acquiring, InLockAcquire
  <2>8. CASE TestHolder(t) \/ ComparePriority(t) \/ PushDonation(t)
             \/ DonateSet(t) \/ DonateTest(t)
    BY <1>4, <2>1, <2>6, <2>8 DEF TestHolder, ComparePriority, PushDonation, DonateSet,
       DonateTest, Acquiring, InLockAcquire
  <2>9. CASE DonateStart(t) \/ DonateNext(t)
    BY <1>4, <2>1, <2>6, <2>7, <2>9 DEF DonateStart, DonateNext
  <2> QED BY <2>3, <2>4, <2>5, <2>8, <2>9
<1> QED BY <1>2, <1>3, <1>4

LEMMA OtherStepCondInv ==
  ASSUME IInv, CondInv, NEW t \in Thread, OtherStep(t)
  PROVE  CondInv'
<1> USE DEF CondInv
<1>1. /\ OthersStay(t) /\ ZerosStay /\ HoldersStay
      /\ pc[t] # "run" \/ cond_pc[t] = "out"
  BY OtherStepFrame
<1>2. UNCHANGED <<cond_waiters, max_elem, broadcast>>
  BY DEF OtherStep
<1>3. ~Working(t)
  BY <1>1 DEF MonitorHeld, Working
<1>4. \A u \in Thread : WaiterSema[u] \in Semaphore
  BY CondConstants
<1>5. CASE ~Returning(t)
  <2>1. UNCHANGED <<cond_pc, cond>>
    BY <1>5 DEF OtherStep
  <2>2. CondTypes' /\ ArgumentsKnown' /\ ListsSound'
    BY <1>2, <2>1 DEF CondTypes, ArgumentsKnown, ListsSound, InWait
  <2>3. ASSUME NEW u \in Thread, Unsignaled(u) PROVE Unsignaled(u)'
    <3>1. value'[WaiterSema[u]] = 0
      BY <1>1, <2>3 DEF ZerosStay, Unsignaled
    <3>2. CASE u = t
      BY <2>1, <2>3, <3>1, <3>2, WaiterMoves DEF Unsignaled
    <3>3. CASE u # t
      BY <1>1, <2>1, <2>3, <3>1, <3>3 DEF Unsignaled, OthersStay
    <3> QED BY <3>2, <3>3
  <2>4. \A u \in Thread : BeingRemoved(u)' <=> BeingRemoved(u)
    BY <1>2, <2>1 DEF BeingRemoved
  <2>5. ElemsSound'
    <3>1. \A c \in Cond : \A u \in Range(cond_waiters[c]) : u \in Thread
      BY DEF CondTypes, Range
    <3> QED BY <1>2, <2>1, <2>3, <2>4, <3>1 DEF ElemsSound
  <2>6. MonitorHeld'
    <3> SUFFICES ASSUME NEW u \in Thread, Working(u)'
                 PROVE  pc'[u] = "run" /\ holder'[CondLock[cond[u]]] = u
      BY <2>1 DEF MonitorHeld
    <3>1. Working(u) /\ u # t
      BY <1>3, <2>1 DEF Working
    <3>2. pc[u] = "run" /\ holder[CondLock[cond[u]]] = u /\ CondLock[cond[u]] \in Lock
      BY <3>1, CondConstants DEF MonitorHeld, ArgumentsKnown, Working
    <3> QED BY <1>1, <3>1, <3>2 DEF HoldersStay, OthersStay
  <2>7. WaitersCalls'
    <3> SUFFICES ASSUME NEW u \in Thread
                 PROVE  /\ cond_pc[u] = "down" => pc'[u] \in {"release", "run"}
                        /\ cond_pc[u] = "reacquire" =>
                             pc'[u] = "run" \/ (pc'[u] \in {"down", "retry"} /\ obj'[u] = WaiterSema[u])
                        /\ cond_pc[u] = "return" => pc'[u] \in Acquiring /\ obj'[u] = CondLock[cond[u]]
      BY <2>1 DEF WaitersCalls
    <3>1. CASE u = t
      BY <1>5, <3>1, WaiterMoves DEF Returning
    <3>2. CASE u # t
      BY <1>1, <3>2 DEF OthersStay, WaitersCalls
    <3> QED BY <3>1, <3>2
  <2> QED BY <2>2, <2>5, <2>6, <2>7
<1>6. CASE Returning(t)
  <2>1. /\ cond_pc' = [cond_pc EXCEPT ![t] = "out"]
        /\ cond' = [cond EXCEPT ![t] = None]
        /\ cond_pc[t] = "return" /\ pc'[t] = "run"
    BY <1>6 DEF OtherStep, CondGoto, Returning
  <2>2. Owns(t, CondLock[cond[t]]) /\ CondLock[cond[t]] \in Lock
    <3>1. "run" \notin Acquiring
      BY DEF Acquiring, InLockAcquire
    <3> QED BY <2>1, <3>1, WaiterMoves, CondConstants DEF ArgumentsKnown
  <2>3. ~BeingRemoved(t)
    <3> SUFFICES ASSUME NEW r \in Thread, cond_pc[r] = "remove", cond[r] = cond[t]
                 PROVE  FALSE
      BY DEF BeingRemoved
    <3>1. Owns(r, CondLock[cond[t]])
      BY DEF MonitorHeld, Working, Owns
    <3>2. r = t
      BY <2>2, <3>1, OneOwner DEF IInv
    <3> QED BY <2>1, <3>2
  <2>4. ~Unsignaled(t)
    BY <2>1 DEF Unsignaled
  <2>5. \A c \in Cond : t \notin Range(cond_waiters[c])
    BY <2>3, <2>4 DEF ElemsSound
  <2>6. \A u \in Thread : u # t => cond_pc'[u] = cond_pc[u] /\ cond'[u] = cond[u]
    BY <2>1 DEF CondTypes
  <2>7. cond_pc'[t] = "out" /\ cond'[t] = None /\ max_elem[t] = None
    BY <2>1 DEF CondTypes, ArgumentsKnown
  <2>8. CondTypes'
    BY <1>2, <2>1 DEF CondTypes, CondLabel
  <2>9. ArgumentsKnown'
    BY <1>2, <2>6, <2>7 DEF ArgumentsKnown
  <2>10. \A c \in Cond : \A u \in Range(cond_waiters[c]) : u \in Thread /\ u # t
    BY <2>5 DEF CondTypes, Range
  <2>11. ListsSound'
    BY <1>2, <2>6, <2>10 DEF ListsSound, InWait
  <2>12. ElemsSound'
    <3>1. ASSUME NEW u \in Thread, u # t, Unsignaled(u) \/ BeingRemoved(u)
          PROVE  Unsignaled(u)' \/ BeingRemoved(u)'
      <4>1. CASE Unsignaled(u)
        BY <1>1, <2>6, <3>1, <4>1 DEF Unsignaled, ZerosStay, OthersStay
      <4>2. CASE BeingRemoved(u)
        BY <1>2, <2>1, <2>6, <3>1, <4>2 DEF BeingRemoved
      <4> QED BY <3>1, <4>1, <4>2
    <3>2. \A r \in Thread : max_elem[r] # None => r # t
      BY <2>7
    <3> QED BY <1>2, <2>6, <2>10, <3>1, <3>2 DEF ElemsSound
  <2>13. MonitorHeld'
    <3> SUFFICES ASSUME NEW u \in Thread, Working(u)'
                 PROVE  pc'[u] = "run" /\ holder'[CondLock[cond'[u]]] = u
      BY DEF MonitorHeld
    <3>1. u # t /\ Working(u) /\ cond'[u] = cond[u]
      BY <2>6, <2>7 DEF Working
    <3>2. pc[u] = "run" /\ holder[CondLock[cond[u]]] = u /\ CondLock[cond[u]] \in Lock
      BY <3>1, CondConstants DEF MonitorHeld, ArgumentsKnown, Working
    <3> QED BY <1>1, <3>1, <3>2 DEF HoldersStay, OthersStay
  <2>14. WaitersCalls'
    BY <1>1, <2>6, <2>7 DEF WaitersCalls, OthersStay
  <2> QED BY <2>8, <2>9, <2>11, <2>12, <2>13, <2>14
<1> QED BY <1>5, <1>6

(* A step that moves t in cond_wait or cond_signal and keeps the lists.    *)
LEMMA CondBackground ==
  ASSUME CondInv, UNCHANGED <<condVars, pc, obj, holder, value>>
  PROVE  CondInv'
<1> USE DEF CondInv, condVars, condLocals
<1>1. CondTypes' /\ ArgumentsKnown' /\ ListsSound'
  BY DEF CondTypes, ArgumentsKnown, ListsSound, InWait
<1>2. \A u : (Unsignaled(u)' <=> Unsignaled(u)) /\ (BeingRemoved(u)' <=> BeingRemoved(u))
  BY DEF Unsignaled, BeingRemoved
<1>3. ElemsSound'
  BY <1>2 DEF ElemsSound
<1>4. MonitorHeld' /\ WaitersCalls'
  BY DEF MonitorHeld, WaitersCalls, Working
<1> QED BY <1>1, <1>3, <1>4

(* The elements in the lists belong to threads that wait. *)
LEMMA NotLinked ==
  ASSUME CondInv, NEW t \in Thread, ~InWait(t)
  PROVE  /\ \A c \in Cond : t \notin Range(cond_waiters[c])
         /\ \A r \in Thread : max_elem[r] # t
<1>1. \A c \in Cond : t \notin Range(cond_waiters[c])
  BY DEF CondInv, ListsSound
<1>2. ASSUME NEW r \in Thread, max_elem[r] = t PROVE FALSE
  <2>1. t # None
    BY ThreadsAssumption
  <2>2. cond[r] \in Cond /\ t \in Range(cond_waiters[cond[r]])
    BY <1>2, <2>1 DEF CondInv, ArgumentsKnown, ElemsSound
  <2> QED BY <1>1, <2>2
<1> QED BY <1>1, <1>2

LEMMA LinkedThreads ==
  ASSUME CondInv
  PROVE  \A c \in Cond : cond_waiters[c] \in Seq(Thread)
           /\ \A u \in Range(cond_waiters[c]) : u \in Thread
BY DEF CondInv, CondTypes, Range

LEMMA CondWaitCondInv ==
  ASSUME IInv, CondInv, NEW t \in Thread, NEW c \in Cond, CondWait(t, c)
  PROVE  CondInv'
<1> USE DEF CondInv
<1>1. /\ pc[t] = "run" /\ cond_pc[t] = "out" /\ holder[CondLock[c]] = t
      /\ value' = [value EXCEPT ![WaiterSema[t]] = 0]
      /\ cond_waiters' = [cond_waiters EXCEPT ![c] = Append(@, t)]
      /\ cond' = [cond EXCEPT ![t] = c]
      /\ cond_pc' = [cond_pc EXCEPT ![t] = "release"]
      /\ UNCHANGED <<pc, obj, holder, max_elem, broadcast>>
  BY DEF CondWait, Calls, At, CondGoto, localVars
<1>2. \A u \in Thread : u # t => cond_pc'[u] = cond_pc[u] /\ cond'[u] = cond[u]
  BY <1>1 DEF CondTypes
<1>3. cond_pc'[t] = "release" /\ cond'[t] = c /\ max_elem[t] = None
  BY <1>1 DEF CondTypes, ArgumentsKnown
<1>4. /\ \A d \in Cond : t \notin Range(cond_waiters[d])
      /\ \A r \in Thread : max_elem[r] # t
  <2>1. ~InWait(t)
    BY <1>1 DEF InWait
  <2> QED BY <2>1, NotLinked
<1>5. /\ cond_waiters'[c] = Append(cond_waiters[c], t) /\ cond_waiters[c] \in Seq(Thread)
      /\ \A d \in Cond : d # c => cond_waiters'[d] = cond_waiters[d]
  BY <1>1 DEF CondTypes
<1>6. Range(cond_waiters'[c]) = Range(cond_waiters[c]) \cup {t} /\ IsInjective(cond_waiters'[c])
  BY <1>4, <1>5, AppendRange DEF ListsSound
<1>7. \A u \in Thread : value'[WaiterSema[u]] = IF u = t THEN 0 ELSE value[WaiterSema[u]]
  BY <1>1, CondConstants DEF IInv, SynchTypeInv, LockTypeOK
<1>8. CondTypes'
  BY <1>1, <1>5 DEF CondTypes, CondLabel
<1>9. ArgumentsKnown'
  <2>1. \A d \in Cond : cond_waiters[d] # <<>> => cond_waiters'[d] # <<>>
    BY <1>5
  <2> QED BY <1>1, <1>2, <1>3, <2>1 DEF ArgumentsKnown
<1>10. ListsSound'
  <2>1. ASSUME NEW d \in Cond, NEW u \in Range(cond_waiters'[d])
        PROVE  InWait(u)' /\ cond'[u] = d
    <3>1. CASE u = t
      <4>1. d = c
        BY <1>4, <1>5, <2>1, <3>1
      <4> QED BY <1>3, <3>1, <4>1 DEF InWait
    <3>2. CASE u # t
      <4>1. u \in Range(cond_waiters[d])
        BY <1>5, <1>6, <2>1, <3>2
      <4> QED BY <1>2, <3>2, <4>1, LinkedThreads DEF ListsSound, InWait
    <3> QED BY <3>1, <3>2
  <2> QED BY <1>5, <1>6, <2>1 DEF ListsSound
<1>11. ElemsSound'
  <2>1. Unsignaled(t)'
    BY <1>3, <1>7 DEF Unsignaled
  <2>2. ASSUME NEW u \in Thread, u # t, Unsignaled(u) \/ BeingRemoved(u)
        PROVE  Unsignaled(u)' \/ BeingRemoved(u)'
    <3>1. CASE Unsignaled(u)
      BY <1>1, <1>2, <1>7, <2>2, <3>1 DEF Unsignaled
    <3>2. CASE BeingRemoved(u)
      BY <1>1, <1>2, <1>3, <2>2, <3>2 DEF BeingRemoved
    <3> QED BY <2>2, <3>1, <3>2
  <2>3. ASSUME NEW d \in Cond, NEW u \in Range(cond_waiters'[d])
        PROVE  Unsignaled(u)' \/ BeingRemoved(u)'
    <3>1. CASE u # t
      <4>1. u \in Range(cond_waiters[d])
        BY <1>5, <1>6, <2>3, <3>1
      <4> QED BY <2>2, <3>1, <4>1, LinkedThreads DEF ElemsSound
    <3> QED BY <2>1, <3>1
  <2>4. ASSUME NEW r \in Thread, max_elem[r] # None
        PROVE  max_elem[r] \in Range(cond_waiters'[cond'[r]])
    <3>1. /\ r # t /\ cond'[r] = cond[r] /\ cond[r] \in Cond
          /\ max_elem[r] \in Range(cond_waiters[cond[r]])
      BY <1>2, <1>3, <2>4 DEF ElemsSound, ArgumentsKnown
    <3>2. Range(cond_waiters[cond[r]]) \subseteq Range(cond_waiters'[cond[r]])
      BY <1>5, <1>6, <3>1
    <3> QED BY <3>1, <3>2
  <2> QED BY <1>1, <2>3, <2>4 DEF ElemsSound
<1>12. MonitorHeld'
  BY <1>1, <1>2, <1>3 DEF MonitorHeld, Working
<1>13. WaitersCalls'
  BY <1>1, <1>2, <1>3 DEF WaitersCalls
<1> QED BY <1>8, <1>9, <1>10, <1>11, <1>12, <1>13

(* The other steps of cond_wait: t gets further, and nothing else changes. *)
LEMMA WaiterAdvances ==
  ASSUME CondInv, NEW t \in Thread, InWait(t), OthersStay(t),
         UNCHANGED <<cond_waiters, cond, max_elem, broadcast, value>>,
         NEW label \in {"down", "reacquire", "return"},
         cond_pc' = [cond_pc EXCEPT ![t] = label],
         \A u \in Thread : Working(u) /\ u # t => holder'[CondLock[cond[u]]] = u,
         Unsignaled(t) => label = "down" \/ (label = "reacquire" /\ pc'[t] \in {"down", "retry"}),
         label = "down" => pc'[t] \in {"release", "run"},
         label = "reacquire" => pc'[t] \in {"down", "retry"} /\ obj'[t] = WaiterSema[t],
         label = "return" => pc'[t] \in Acquiring /\ obj'[t] = CondLock[cond[t]]
  PROVE  CondInv'
<1> USE DEF CondInv
<1>1. cond_pc'[t] = label /\ \A u \in Thread : u # t => cond_pc'[u] = cond_pc[u]
  BY DEF CondTypes
<1>2. CondTypes'
  BY DEF CondTypes, CondLabel
<1>3. cond_pc[t] \notin {"out", "choose", "up", "remove"}
  BY DEF InWait
<1>4. ArgumentsKnown'
  BY <1>1, <1>3 DEF ArgumentsKnown
<1>5. \A u \in Thread : InWait(u)' <=> InWait(u)
  BY <1>1 DEF InWait
<1>6. ListsSound'
  BY <1>5, LinkedThreads DEF ListsSound
<1>7. \A u \in Thread : BeingRemoved(u) => BeingRemoved(u)'
  BY <1>1, <1>3 DEF BeingRemoved
<1>8. ASSUME NEW u \in Thread, Unsignaled(u) PROVE Unsignaled(u)'
  BY <1>1, <1>8 DEF Unsignaled, OthersStay
<1>9. ElemsSound'
  BY <1>7, <1>8, LinkedThreads DEF ElemsSound
<1>10. ASSUME NEW u \in Thread, Working(u)'
       PROVE  pc'[u] = "run" /\ holder'[CondLock[cond'[u]]] = u
  <2>1. u # t /\ Working(u)
    BY <1>1, <1>10 DEF Working
  <2> QED BY <2>1 DEF MonitorHeld, OthersStay
<1>11. MonitorHeld'
  BY <1>10 DEF MonitorHeld
<1>12. WaitersCalls'
  BY <1>1 DEF WaitersCalls, OthersStay
<1> QED BY <1>2, <1>4, <1>6, <1>9, <1>11, <1>12

LEMMA CondReleaseCondInv ==
  ASSUME IInv, CondInv, NEW t \in Thread, CondRelease(t)
  PROVE  CondInv'
<1> USE DEF CondInv
<1>1. /\ cond_pc[t] = "release" /\ cond[t] \in Cond
      /\ LockRelease(t, CondLock[cond[t]])
      /\ cond_pc' = [cond_pc EXCEPT ![t] = "down"]
      /\ UNCHANGED <<cond_waiters, cond, max_elem, broadcast>>
  BY DEF CondRelease, CondAt, CondGoto, ArgumentsKnown
<1>2. /\ value' = value /\ holder' = [holder EXCEPT ![CondLock[cond[t]]] = None]
      /\ holder[CondLock[cond[t]]] = t
      /\ obj' = [obj EXCEPT ![t] = CondLock[cond[t]]] /\ pc' = [pc EXCEPT ![t] = "release"]
  BY <1>1 DEF LockRelease, Goto
<1>3. OthersStay(t) /\ pc'[t] = "release"
  BY <1>2 DEF IInv, SynchTypeInv, TypeInv, LockTypeOK, OthersStay
<1>4. ASSUME NEW u \in Thread, Working(u), u # t PROVE holder'[CondLock[cond[u]]] = u
  <2>1. holder[CondLock[cond[u]]] = u /\ CondLock[cond[u]] \in Lock
    BY <1>4, CondConstants DEF MonitorHeld, ArgumentsKnown, Working
  <2> QED BY <1>2, <1>4, <2>1 DEF IInv, SynchTypeInv, LockTypeOK
<1>5. InWait(t)
  BY <1>1 DEF InWait
<1> QED BY <1>1, <1>2, <1>3, <1>4, <1>5, WaiterAdvances

LEMMA CondDownCondInv ==
  ASSUME IInv, CondInv, NEW t \in Thread, CondDown(t)
  PROVE  CondInv'
<1> USE DEF CondInv
<1>1. /\ cond_pc[t] = "down" /\ EnterDown(t, WaiterSema[t])
      /\ cond_pc' = [cond_pc EXCEPT ![t] = "reacquire"]
      /\ UNCHANGED <<cond_waiters, cond, max_elem, broadcast>>
  BY DEF CondDown, CondAt, CondGoto
<1>2. /\ value' = value /\ holder' = holder
      /\ obj' = [obj EXCEPT ![t] = WaiterSema[t]] /\ pc' = [pc EXCEPT ![t] = "down"]
  BY <1>1 DEF EnterDown, Goto, objectVars
<1>3. OthersStay(t) /\ pc'[t] = "down" /\ obj'[t] = WaiterSema[t]
  BY <1>2 DEF IInv, SynchTypeInv, TypeInv, LockTypeOK, OthersStay
<1>4. \A u \in Thread : Working(u) => holder'[CondLock[cond[u]]] = u
  BY <1>2 DEF MonitorHeld
<1>5. InWait(t)
  BY <1>1 DEF InWait
<1> QED BY <1>1, <1>2, <1>3, <1>4, <1>5, WaiterAdvances

LEMMA CondReacquireCondInv ==
  ASSUME IInv, CondInv, NEW t \in Thread, CondReacquire(t)
  PROVE  CondInv'
<1> USE DEF CondInv
<1>1. /\ cond_pc[t] = "reacquire" /\ pc[t] = "run" /\ EnterAcquire(t, CondLock[cond[t]])
      /\ cond_pc' = [cond_pc EXCEPT ![t] = "return"]
      /\ UNCHANGED <<cond_waiters, cond, max_elem, broadcast>>
  BY DEF CondReacquire, CondAt, At, CondGoto
<1>2. /\ value' = value /\ holder' = holder
      /\ obj' = [obj EXCEPT ![t] = CondLock[cond[t]]] /\ pc' = [pc EXCEPT ![t] = "holder"]
  BY <1>1 DEF EnterAcquire, Goto, objectVars
<1>3. OthersStay(t) /\ pc'[t] = "holder" /\ obj'[t] = CondLock[cond[t]]
  BY <1>2 DEF IInv, SynchTypeInv, TypeInv, LockTypeOK, OthersStay
<1>4. \A u \in Thread : Working(u) => holder'[CondLock[cond[u]]] = u
  BY <1>2 DEF MonitorHeld
<1>5. InWait(t) /\ ~Unsignaled(t) /\ "holder" \in Acquiring
  BY <1>1 DEF InWait, Unsignaled, Acquiring, InLockAcquire
<1> QED BY <1>1, <1>2, <1>3, <1>4, <1>5, WaiterAdvances

(* cond_signal and cond_broadcast. *)
LEMMA CondSignalCondInv ==
  ASSUME IInv, CondInv, NEW t \in Thread, NEW c \in Cond, NEW all \in BOOLEAN,
         CondSignal(t, c, all)
  PROVE  CondInv'
<1> USE DEF CondInv
<1>1. /\ pc[t] = "run" /\ cond_pc[t] = "out" /\ holder[CondLock[c]] = t
      /\ UNCHANGED <<pc, obj, holder, value, cond_waiters>>
  BY DEF CondSignal, Calls, At, objectVars, localVars
<1>2. CASE cond_waiters[c] = <<>>
  <2>1. UNCHANGED <<condVars, pc, obj, holder, value>>
    BY <1>1, <1>2 DEF CondSignal, condVars
  <2> QED BY <2>1, CondBackground
<1>3. CASE cond_waiters[c] # <<>>
  <2>1. /\ cond' = [cond EXCEPT ![t] = c]
        /\ broadcast' = [broadcast EXCEPT ![t] = all]
        /\ cond_pc' = [cond_pc EXCEPT ![t] = "choose"]
        /\ max_elem' = max_elem
    BY <1>3 DEF CondSignal, CondGoto
  <2>2. /\ cond_pc'[t] = "choose" /\ cond'[t] = c /\ max_elem[t] = None
        /\ \A u \in Thread : u # t => cond_pc'[u] = cond_pc[u] /\ cond'[u] = cond[u]
    BY <1>1, <2>1 DEF CondTypes, ArgumentsKnown
  <2>3. \A d \in Cond : \A u \in Range(cond_waiters[d]) : u \in Thread /\ u # t
    <3>1. ~InWait(t)
      BY <1>1 DEF InWait
    <3> QED BY <3>1, NotLinked, LinkedThreads
  <2>4. CondTypes'
    BY <1>1, <2>1 DEF CondTypes, CondLabel
  <2>5. ArgumentsKnown'
    BY <1>1, <1>3, <2>1, <2>2 DEF ArgumentsKnown
  <2>6. ListsSound'
    BY <1>1, <2>2, <2>3 DEF ListsSound, InWait
  <2>7. ElemsSound'
    <3>1. ASSUME NEW u \in Thread, u # t, Unsignaled(u) \/ BeingRemoved(u)
          PROVE  Unsignaled(u)' \/ BeingRemoved(u)'
      <4>1. CASE Unsignaled(u)
        BY <1>1, <2>2, <3>1, <4>1 DEF Unsignaled
      <4>2. CASE BeingRemoved(u)
        BY <1>1, <2>1, <2>2, <3>1, <4>2 DEF BeingRemoved
      <4> QED BY <3>1, <4>1, <4>2
    <3> QED BY <1>1, <2>1, <2>2, <2>3, <3>1 DEF ElemsSound
  <2>8. MonitorHeld' /\ WaitersCalls'
    BY <1>1, <2>2 DEF MonitorHeld, Working, WaitersCalls
  <2> QED BY <2>4, <2>5, <2>6, <2>7, <2>8
<1> QED BY <1>2, <1>3

LEMMA CondChooseCondInv ==
  ASSUME IInv, CondInv, NEW t \in Thread, CondChoose(t)
  PROVE  CondInv'
<1> USE DEF CondInv
<1> DEFINE q == cond_waiters[cond[t]]
           key == [u \in Thread |-> CondKey(u)]
           n == q[list_max(q, key)]
<1>1. /\ cond_pc[t] = "choose" /\ cond[t] \in Cond
      /\ max_elem' = [max_elem EXCEPT ![t] = n]
      /\ cond_pc' = [cond_pc EXCEPT ![t] = "up"]
      /\ UNCHANGED <<cond_waiters, cond, broadcast, pc, obj, holder, value>>
  BY DEF CondChoose, CondAt, CondGoto, ArgumentsKnown, vars, threadVars, synchVars, objectVars,
         localVars
<1>2. n \in Thread /\ n \in Range(q)
  <2>1. q \in Seq(Thread) /\ q # <<>>
    BY <1>1 DEF CondTypes, ArgumentsKnown
  <2>2. key \in [Thread -> PRI_MIN..PRI_MAX]
    <3>1. \A u \in Thread : CondKey(u) \in PRI_MIN..PRI_MAX
      BY ThreadsAssumption DEF CondKey, IInv, SynchTypeInv, TypeInv, ThreadTypeOK, Priority
    <3> QED BY <3>1
  <2> HIDE DEF q, key
  <2>3. list_max(q, key) \in 1..Len(q)
    BY <2>1, <2>2, ThreadsAssumption, MaxPosition
  <2> QED BY <2>1, <2>3 DEF Range
<1> HIDE DEF n
<1>3. /\ cond_pc'[t] = "up" /\ max_elem'[t] = n
      /\ \A u \in Thread : u # t => cond_pc'[u] = cond_pc[u] /\ max_elem'[u] = max_elem[u]
  BY <1>1 DEF CondTypes
<1>4. CondTypes'
  BY <1>1, <1>2 DEF CondTypes, CondLabel
<1>5. ArgumentsKnown'
  BY <1>1, <1>2, <1>3, ThreadsAssumption DEF ArgumentsKnown
<1>6. \A u \in Thread : InWait(u)' <=> InWait(u)
  BY <1>1, <1>3 DEF InWait
<1>7. ListsSound'
  BY <1>1, <1>6, LinkedThreads DEF ListsSound
<1>8. \A u \in Thread : Unsignaled(u) => Unsignaled(u)'
  BY <1>1, <1>3 DEF Unsignaled
<1>9. \A u \in Thread : BeingRemoved(u) => BeingRemoved(u)'
  BY <1>1, <1>3 DEF BeingRemoved
<1>10. ElemsSound'
  <2>1. \A r \in Thread : max_elem'[r] # None => max_elem'[r] \in Range(cond_waiters[cond[r]])
    BY <1>2, <1>3 DEF ElemsSound
  <2> QED BY <1>1, <1>8, <1>9, <2>1, LinkedThreads DEF ElemsSound
<1>11. MonitorHeld'
  BY <1>1, <1>3 DEF MonitorHeld, Working
<1>12. WaitersCalls'
  BY <1>1, <1>3 DEF WaitersCalls
<1> QED BY <1>4, <1>5, <1>7, <1>10, <1>11, <1>12

LEMMA CondUpCondInv ==
  ASSUME IInv, CondInv, NEW t \in Thread, CondUp(t)
  PROVE  CondInv'
<1> USE DEF CondInv
<1> DEFINE n == max_elem[t]
<1>1. /\ cond_pc[t] = "up" /\ cond[t] \in Cond /\ n \in Thread
      /\ cond_pc' = [cond_pc EXCEPT ![t] = "remove"]
      /\ UNCHANGED <<cond_waiters, cond, max_elem, broadcast, pc, obj, holder>>
      /\ value' = value \/ value' = [value EXCEPT ![WaiterSema[n]] = @ + 1]
  BY DEF CondUp, CondAt, CondGoto, ArgumentsKnown, CondTypes, sema_up, Panic, threadVars,
         objectVars, localVars
<1>2. n \in Range(cond_waiters[cond[t]]) /\ cond[n] = cond[t]
  BY <1>1, ThreadsAssumption DEF ElemsSound, ListsSound
<1>3. \A u \in Thread : u # n => value'[WaiterSema[u]] = value[WaiterSema[u]]
  BY <1>1, CondConstants DEF IInv, SynchTypeInv, LockTypeOK
<1>4. cond_pc'[t] = "remove" /\ \A u \in Thread : u # t => cond_pc'[u] = cond_pc[u]
  BY <1>1 DEF CondTypes
<1>5. CondTypes' /\ ArgumentsKnown'
  BY <1>1, <1>4 DEF CondTypes, CondLabel, ArgumentsKnown
<1>6. \A u \in Thread : InWait(u)' <=> InWait(u)
  BY <1>1, <1>4 DEF InWait
<1>7. ListsSound'
  BY <1>1, <1>6, LinkedThreads DEF ListsSound
<1>8. \A u \in Thread : BeingRemoved(u) => BeingRemoved(u)'
  BY <1>1, <1>4 DEF BeingRemoved
<1>9. BeingRemoved(n)'
  BY <1>1, <1>2, <1>4 DEF BeingRemoved
<1>10. \A u \in Thread : u # n /\ Unsignaled(u) => Unsignaled(u)'
  BY <1>1, <1>3, <1>4 DEF Unsignaled
<1>11. ElemsSound'
  BY <1>1, <1>8, <1>9, <1>10, LinkedThreads DEF ElemsSound
<1>12. MonitorHeld' /\ WaitersCalls'
  BY <1>1, <1>4 DEF MonitorHeld, Working, WaitersCalls
<1> QED BY <1>5, <1>7, <1>11, <1>12

LEMMA CondRemoveCondInv ==
  ASSUME IInv, CondInv, NEW t \in Thread, CondRemove(t)
  PROVE  CondInv'
<1> USE DEF CondInv
<1> DEFINE c == cond[t]
           n == max_elem[t]
<1>1. /\ cond_pc[t] = "remove" /\ c \in Cond /\ n \in Thread
      /\ cond_waiters' = [cond_waiters EXCEPT ![c] = list_without(@, {n})]
      /\ max_elem' = [max_elem EXCEPT ![t] = None]
      /\ UNCHANGED <<pc, obj, holder, value>>
  BY DEF CondRemove, CondAt, ArgumentsKnown, CondTypes, vars, threadVars, synchVars, objectVars,
         localVars
<1>2. PICK label \in {"choose", "out"} :
        /\ cond_pc' = [cond_pc EXCEPT ![t] = label]
        /\ label = "choose" => cond_waiters'[c] # <<>> /\ UNCHANGED <<cond, broadcast>>
        /\ label = "out" => /\ cond' = [cond EXCEPT ![t] = None]
                            /\ broadcast' = [broadcast EXCEPT ![t] = FALSE]
  BY DEF CondRemove, CondGoto
<1>3. \A d \in Cond : \A u \in Range(cond_waiters[d]) : u \in Thread /\ u # t
  <2>1. ~InWait(t)
    BY <1>1 DEF InWait
  <2> QED BY <2>1, NotLinked, LinkedThreads
<1>4. /\ cond_waiters[c] \in Seq(Thread) /\ cond_waiters'[c] = list_without(cond_waiters[c], {n})
      /\ \A d \in Cond : d # c => cond_waiters'[d] = cond_waiters[d]
  BY <1>1 DEF CondTypes
<1>5. /\ Range(cond_waiters'[c]) = Range(cond_waiters[c]) \ {n}
      /\ IsInjective(cond_waiters'[c]) /\ cond_waiters'[c] \in Seq(Thread)
  BY <1>1, <1>4, WithoutRange, WithoutType DEF ListsSound
<1>6. /\ cond_pc'[t] = label /\ max_elem'[t] = None
      /\ \A u \in Thread : u # t => /\ cond_pc'[u] = cond_pc[u] /\ cond'[u] = cond[u]
                                    /\ max_elem'[u] = max_elem[u]
  BY <1>1, <1>2 DEF CondTypes
<1>7. \A r \in Thread : Working(r) /\ r # t => cond[r] # c
  BY <1>1 DEF MonitorHeld, Working
<1>8. CondTypes'
  BY <1>1, <1>2, <1>5 DEF CondTypes, CondLabel
<1>9. ArgumentsKnown'
  <2>1. ASSUME NEW u \in Thread, u # t, cond_pc[u] = "choose" PROVE cond_waiters'[cond[u]] # <<>>
    <3>1. cond[u] \in Cond /\ cond[u] # c
      BY <1>7, <2>1 DEF Working, ArgumentsKnown
    <3> QED BY <1>4, <2>1, <3>1 DEF ArgumentsKnown
  <2>2. ASSUME NEW u \in Thread, u # t
        PROVE  /\ cond_pc'[u] # "out" => cond'[u] \in Cond
               /\ cond_pc'[u] \in {"up", "remove"} <=> max_elem'[u] # None
               /\ cond_pc'[u] = "choose" => cond_waiters'[cond'[u]] # <<>>
    <3>1. cond_pc'[u] = cond_pc[u] /\ cond'[u] = cond[u] /\ max_elem'[u] = max_elem[u]
      BY <1>6, <2>2
    <3>2. cond_pc[u] # "out" => cond[u] \in Cond
      BY DEF ArgumentsKnown
    <3>3. cond_pc[u] \in {"up", "remove"} <=> max_elem[u] # None
      BY DEF ArgumentsKnown
    <3> QED BY <2>1, <2>2, <3>1, <3>2, <3>3
  <2>3. /\ cond_pc'[t] # "out" => cond'[t] \in Cond
        /\ cond_pc'[t] \in {"up", "remove"} <=> max_elem'[t] # None
        /\ cond_pc'[t] = "choose" => cond_waiters'[cond'[t]] # <<>>
    BY <1>1, <1>2, <1>6
  <2> HIDE DEF CondInv
  <2> QED BY <2>2, <2>3 DEF ArgumentsKnown
<1>10. \A d \in Cond : \A u \in Range(cond_waiters'[d]) :
         u \in Range(cond_waiters[d]) /\ u \in Thread /\ u # t /\ (d = c => u # n)
  BY <1>3, <1>4, <1>5
<1>11. ListsSound'
  <2>1. \A d \in Cond : IsInjective(cond_waiters'[d])
    BY <1>4, <1>5 DEF ListsSound
  <2> QED BY <1>6, <1>10, <2>1 DEF ListsSound, InWait
<1>12. ElemsSound'
  <2>1. ASSUME NEW d \in Cond, NEW u \in Range(cond_waiters'[d])
        PROVE  Unsignaled(u)' \/ BeingRemoved(u)'
    <3>1. u \in Range(cond_waiters[d]) /\ u \in Thread /\ u # t /\ (d = c => u # n)
      BY <1>10
    <3>2. CASE Unsignaled(u)
      BY <1>1, <1>6, <3>1, <3>2 DEF Unsignaled
    <3>3. CASE BeingRemoved(u)
      <4>1. PICK r \in Thread : max_elem[r] = u /\ cond_pc[r] = "remove" /\ cond[r] = cond[u]
        BY <3>3 DEF BeingRemoved
      <4>2. cond[u] = d
        BY <3>1 DEF ListsSound
      <4>3. r # t
        BY <3>1, <4>1, <4>2
      <4> QED BY <1>6, <3>1, <4>1, <4>3 DEF BeingRemoved
    <3> QED BY <3>1, <3>2, <3>3 DEF ElemsSound
  <2>2. ASSUME NEW r \in Thread, max_elem'[r] # None
        PROVE  max_elem'[r] \in Range(cond_waiters'[cond'[r]])
    <3>1. r # t /\ max_elem[r] # None
      BY <1>6, <2>2
    <3>2. cond[r] \in Cond /\ cond[r] # c /\ max_elem[r] \in Range(cond_waiters[cond[r]])
      BY <1>7, <3>1 DEF Working, ArgumentsKnown, ElemsSound
    <3> QED BY <1>4, <1>6, <3>1, <3>2
  <2> QED BY <2>1, <2>2 DEF ElemsSound
<1>13. MonitorHeld'
  <2>1. label = "choose" => cond'[t] = c /\ pc[t] = "run" /\ holder[CondLock[c]] = t
    BY <1>1, <1>2 DEF MonitorHeld, Working
  <2> QED BY <1>1, <1>6, <2>1 DEF MonitorHeld, Working
<1>14. WaitersCalls'
  BY <1>1, <1>6 DEF WaitersCalls
<1> QED BY <1>8, <1>9, <1>11, <1>12, <1>13, <1>14

-----------------------------------------------------------------------------
LEMMA CondStep ==
  ASSUME IInv, CondInv, [CondNext]_allVars
  PROVE  IInv' /\ CondInv'
<1>1. CASE UNCHANGED allVars
  <2>1. UNCHANGED vars /\ UNCHANGED <<condVars, pc, obj, holder, value>>
    BY <1>1 DEF allVars, vars, threadVars, synchVars, objectVars, localVars
  <2> QED BY <2>1, CondStepLocks, CondBackground DEF CondInv
<1>2. ASSUME NEW t \in Thread, CondThreadStep(t) PROVE CondInv'
  BY <1>2, CondWaitCondInv, CondSignalCondInv, CondReleaseCondInv, CondDownCondInv,
     CondReacquireCondInv, CondChooseCondInv, CondUpCondInv, CondRemoveCondInv DEF CondThreadStep
<1>3. ASSUME NEW t \in Thread, OtherStep(t) PROVE CondInv'
  BY <1>3, OtherStepCondInv
<1>4. ASSUME (Timer \/ Idling) /\ UNCHANGED condVars PROVE CondInv'
  <2>1. UNCHANGED <<pc, obj, holder, value>>
    BY <1>4 DEF Timer, Idling, Interrupt, TimerInterrupt, wake_up, IntrReturn, idle, synchVars,
       objectVars, localVars
  <2> QED BY <1>4, <2>1, CondBackground
<1>5. CASE CondNext
  <2>1. IInv'
    BY <1>5, CondStepLocks DEF CondInv
  <2> QED BY <1>2, <1>3, <1>4, <1>5, <2>1 DEF CondNext
<1> QED BY <1>1, <1>5

LEMMA CondInvHolds == CondSpec => [](IInv /\ CondInv)
<1>1. IInv /\ CondInv /\ [CondNext]_allVars => (IInv /\ CondInv)'
  BY CondStep
<1> QED BY <1>1, InitCondInv, PTL DEF CondSpec

(* Every variable of condition variables keeps its type, and those of the  *)
(* locks under them.                                                       *)
THEOREM CondTypeCorrect == CondSpec => []CondTypeOK
<1>1. IInv /\ CondInv => CondTypeOK
  BY DEF IInv, SynchTypeInv, TypeInv, LockTypeOK, SynchTypeOK, CondInv, CondTypes, CondTypeOK
<1> QED BY <1>1, CondInvHolds, PTL

(* No semaphore_elem is reached after the cond_wait that has it on its     *)
(* stack: what is linked, or chosen and not yet removed, belongs to a      *)
(* thread still inside, although its sema_down may have returned.          *)
THEOREM CondElemsLive == CondSpec => []CondElemLive
<1>1. IInv /\ CondInv => CondElemLive
  BY DEF CondInv, ListsSound, ElemsSound, CondElemLive
<1> QED BY <1>1, CondInvHolds, PTL

(* The locks of monitors exclude as locks do. *)
THEOREM MonitorExclusion == CondSpec => []LockPermit
<1>1. IInv /\ CondInv => LockPermit
  BY DEF IInv
<1> QED BY <1>1, CondInvHolds, PTL

-----------------------------------------------------------------------------
(* Whom cond_signal chooses. *)

(* Only the choice itself takes a thread from "choose" to "up". *)
LEMMA ChoiceStep ==
  ASSUME IInv, CondInv, CondNext, NEW t \in Thread, cond_pc[t] = "choose", cond_pc'[t] = "up"
  PROVE  CondChoose(t)
<1>0. cond_pc \in [Thread -> CondLabel]
  BY DEF CondInv, CondTypes
<1>1. ASSUME NEW u \in Thread, CondThreadStep(u) PROVE CondChoose(t)
  <2>1. \/ CondChoose(u)
        \/ \E label : label # "up" /\ cond_pc' = [cond_pc EXCEPT ![u] = label]
        \/ cond_pc' = cond_pc
    BY <1>1 DEF CondThreadStep, CondWait, CondSignal, condLocals, CondRelease, CondDown,
       CondReacquire, CondUp, CondRemove, CondGoto
  <2>2. CASE CondChoose(u)
    <3>1. cond_pc' = [cond_pc EXCEPT ![u] = "up"]
      BY <2>2 DEF CondChoose, CondGoto
    <3>2. u = t
      BY <1>0, <3>1
    <3> QED BY <2>2, <3>2
  <2> QED BY <1>0, <2>1, <2>2
<1>2. ASSUME NEW u \in Thread, OtherStep(u) PROVE FALSE
  <2>1. cond_pc' = [cond_pc EXCEPT ![u] = "out"] \/ cond_pc' = cond_pc
    BY <1>2 DEF OtherStep, CondGoto
  <2> QED BY <1>0, <2>1
<1>3. ASSUME UNCHANGED condVars PROVE FALSE
  BY <1>3 DEF condVars, condLocals
<1> QED BY <1>1, <1>2, <1>3 DEF CondNext

LEMMA ChoosesHighest ==
  ASSUME IInv, CondInv, NEW t \in Thread, CondChoose(t),
         NEW u \in Range(cond_waiters[cond[t]]), Asleep(u)
  PROVE  priority[max_elem'[t]] >= priority[u]
<1> DEFINE q == cond_waiters[cond[t]]
           key == [v \in Thread |-> CondKey(v)]
           k == list_max(q, key)
<1>1. cond_pc[t] = "choose" /\ max_elem' = [max_elem EXCEPT ![t] = q[k]]
  BY DEF CondChoose, CondAt
<1>2. q \in Seq(Thread) /\ q # <<>>
  BY <1>1 DEF CondInv, CondTypes, ArgumentsKnown
<1>3. \A v \in Thread : priority[v] \in PRI_MIN..PRI_MAX
  BY DEF IInv, SynchTypeInv, TypeInv, ThreadTypeOK, Priority
<1>4. \A v \in Thread : CondKey(v) \in PRI_MIN..PRI_MAX /\ CondKey(v) <= priority[v]
  BY <1>3, ThreadsAssumption DEF CondKey
<1>5. key \in [Thread -> PRI_MIN..PRI_MAX] /\ \A v \in Thread : key[v] = CondKey(v)
  BY <1>4
<1>6. max_elem'[t] = q[k]
  BY <1>1 DEF CondInv, CondTypes
<1>7. u \in Range(q)
  OBVIOUS
<1> HIDE DEF q, key
<1>8. k \in 1..Len(q) /\ \A j \in 1..Len(q) : key[q[j]] <= key[q[k]]
  BY <1>2, <1>5, ThreadsAssumption, MaxPosition
<1> HIDE DEF k
<1>9. u \in Thread /\ q[k] \in Thread /\ key[u] <= key[q[k]]
  BY <1>2, <1>7, <1>8 DEF Range
<1>10. waiters[WaiterSema[u]] # <<>>
  BY DEF Asleep, WaitsFor, Range
<1>11. CondKey(u) = priority[u]
  BY <1>10 DEF CondKey
<1>12. priority[u] <= CondKey(q[k]) /\ CondKey(q[k]) <= priority[q[k]]
  BY <1>4, <1>5, <1>9, <1>11
<1> QED BY <1>3, <1>4, <1>6, <1>9, <1>12, ThreadsAssumption

(* cond_signal chooses a waiter that is not below any that is asleep, and  *)
(* one that has not got to its sema_down yet is never put before it.       *)
THEOREM CondHighestAsleepSignaled == CondSpec => HighestAsleepSignaled
<1>1. IInv /\ CondInv /\ [CondNext]_allVars =>
        [\A t \in Thread : cond_pc[t] = "choose" /\ cond_pc'[t] = "up" =>
           \A u \in Range(cond_waiters[cond[t]]) :
             Asleep(u) => priority[max_elem'[t]] >= priority[u]]_allVars
  BY ChoiceStep, ChoosesHighest
<1> QED BY <1>1, CondInvHolds, PTL DEF CondSpec, HighestAsleepSignaled
-----------------------------------------------------------------------------
(* The monitor that clients see. *)

(* t has not let go of its lock yet. *)
Leaving(t) == cond_pc[t] = "release" \/ (cond_pc[t] = "down" /\ pc[t] = "release")

(* The semaphore of a waiter counts at most the one signal that it gets,   *)
(* and none before its lock is free; who is not signaled is linked, and is *)
(* not the one that a signaler is about to remove.                         *)
Linked(t, c) == t \in Range(cond_waiters[c])

SignalOK(t) ==
  /\ cond_pc[t] = "out" /\ pc[t] \in {"down", "retry"} => obj[t] \in Lock
  /\ cond_pc[t] = "down" /\ pc[t] = "release" => obj[t] = CondLock[cond[t]]
  /\ InWait(t) => value[WaiterSema[t]] \in {0, 1}
  /\ Leaving(t) => value[WaiterSema[t]] = 0
  /\ Unsignaled(t) => Linked(t, cond[t])
  /\ fault = "none" /\ cond_pc[t] = "remove" => ~Unsignaled(max_elem[t])

SignalInv == \A t \in Thread : SignalOK(t)

LEMMA InitSignalInv == CondInit => SignalInv
BY DEF CondInit, SynchInit, Init, SignalInv, SignalOK, Linked, InWait, Leaving, Unsignaled

(* What a signaler finds: nobody else works on the monitor, so the thread  *)
(* it has chosen has let its lock go and has not been upped.               *)
LEMMA ChosenUnsignaled ==
  ASSUME IInv, CondInv, SignalInv, NEW t \in Thread, cond_pc[t] = "up"
  PROVE  /\ max_elem[t] \in Thread /\ cond[t] \in Cond /\ cond[max_elem[t]] = cond[t]
         /\ max_elem[t] \in Range(cond_waiters[cond[t]])
         /\ Owns(t, CondLock[cond[t]])
         /\ Unsignaled(max_elem[t]) /\ ~Leaving(max_elem[t])
<1> DEFINE n == max_elem[t]
           c == cond[t]
           l == CondLock[c]
<1> USE DEF CondInv
<1>1. n \in Thread /\ c \in Cond /\ n \in Range(cond_waiters[c]) /\ cond[n] = c
  BY DEF CondTypes, ArgumentsKnown, ElemsSound, ListsSound
<1>2. l \in Lock /\ Owns(t, l)
  BY <1>1, CondConstants DEF MonitorHeld, Working, Owns
<1>3. \A u \in Thread : Owns(u, l) => u = t
  BY <1>2, OneOwner DEF IInv
<1> HIDE DEF n, c, l
<1>4. ~BeingRemoved(n)
  <2> SUFFICES ASSUME NEW r \in Thread, cond_pc[r] = "remove", cond[r] = c PROVE FALSE
    BY <1>1 DEF BeingRemoved
  <2>1. Owns(r, l)
    BY DEF MonitorHeld, Working, Owns, l
  <2> QED BY <1>3, <2>1
<1>5. Unsignaled(n)
  BY <1>1, <1>4 DEF ElemsSound
<1>6. ASSUME Leaving(n) PROVE FALSE
  <2>1. Owns(n, l)
    BY <1>1, <1>6 DEF Leaving, MonitorHeld, Working, Owns, SignalInv, SignalOK, Linked, l
  <2>2. n = t
    BY <1>1, <1>3, <2>1
  <2> QED BY <1>6, <2>2 DEF Leaving
<1> QED BY <1>1, <1>2, <1>5, <1>6 DEF n, c, l

(* A step of another thread leaves the semaphore of a waiter alone, unless *)
(* it is a signal.                                                         *)
LEMMA WaiterSemasStay ==
  ASSUME IInv, CondInv, SignalInv, NEW t \in Thread, OtherStep(t)
  PROVE  /\ \A u \in Thread : u # t => value'[WaiterSema[u]] = value[WaiterSema[u]]
         /\ cond_pc[t] # "reacquire" => value'[WaiterSema[t]] = value[WaiterSema[t]]
<1> USE DEF IInv, SynchTypeInv, TypeInv, LockTypeOK, Goto, At, Runs, Calls
<1> USE DEF objectVars, donorVars, localVars
<1> USE CondConstants
<1>1. ASSUME NEW l \in Lock, value' = value \/ \E n : value' = [value EXCEPT ![l] = n]
      PROVE  \A u \in Thread : value'[WaiterSema[u]] = value[WaiterSema[u]]
  BY <1>1
<1>2. ASSUME NEW why, Panic(why) PROVE value' = value
  BY <1>2 DEF Panic
<1>3. ASSUME NEW h, FollowTo(t, h) PROVE value' = value
  BY <1>3 DEF FollowTo
<1>4. CASE \/ \E c \in Thread, p \in Priority : Create(t, c, p)
           \/ Schedules(t) \/ Exit(t)
  <2>1. UNCHANGED value
    BY <1>4 DEF Create, Schedules, Exit, synchVars
  <2> QED BY <2>1
<1>5. CASE LockStep(t)
  <2>1. ASSUME NEW l \in Lock, LockAcquire(t, l) \/ LockRelease(t, l) PROVE value' = value
    BY <2>1 DEF LockAcquire, EnterAcquire, LockRelease
  <2>2. ASSUME NEW l \in Lock, LockTryAcquire(t, l)
        PROVE  value' = value \/ \E n : value' = [value EXCEPT ![l] = n]
    BY <2>2 DEF LockTryAcquire
  <2>3. CASE \/ TestHolder(t) \/ ComparePriority(t) \/ PushDonation(t) \/ DonateStart(t)
             \/ DonateSet(t) \/ DonateTest(t) \/ DonateNext(t) \/ SetHolder(t)
    <3>1. value' = value
      BY <1>2, <1>3, <2>3 DEF TestHolder, ComparePriority, PushDonation, DonateStart, DonateSet,
         DonateTest, DonateNext, SetHolder
    <3> QED BY <3>1
  <2>4. CASE ReleaseUp(t)
    <3>1. obj[t] \in Lock
      BY <2>4 DEF ReleaseUp, LocalsKnown
    <3>2. sema_up(obj[t], FALSE) => \E n : value' = [value EXCEPT ![obj[t]] = n]
      BY DEF sema_up
    <3>3. value' = value \/ \E n : value' = [value EXCEPT ![obj[t]] = n]
      BY <1>2, <2>4, <3>2 DEF ReleaseUp
    <3> QED BY <1>1, <3>1, <3>3
  <2> QED BY <1>1, <1>5, <2>1, <2>2, <2>3, <2>4 DEF LockStep
<1>6. CASE SemaDown(t)
  <2>1. pc[t] \in {"down", "retry"}
    BY <1>6 DEF SemaDown
  <2>2. value' = value \/ \E n : value' = [value EXCEPT ![obj[t]] = n]
    BY <1>6 DEF SemaDown
  <2>3. cond_pc[t] \in {"out", "reacquire", "return"}
    BY <2>1 DEF CondInv, CondTypes, CondLabel, MonitorHeld, Working, WaitersCalls
  <2>4. CASE cond_pc[t] = "reacquire"
    <3>1. obj[t] = WaiterSema[t]
      BY <2>1, <2>4 DEF CondInv, WaitersCalls
    <3>2. \A u \in Thread : u # t => WaiterSema[u] # obj[t]
      BY <3>1
    <3> QED BY <2>2, <2>4, <3>2
  <2>5. CASE cond_pc[t] \in {"out", "return"}
    <3>1. obj[t] \in Lock
      BY <2>1, <2>5 DEF SignalInv, SignalOK, Linked, CondInv, WaitersCalls, ArgumentsKnown
    <3> QED BY <1>1, <2>2, <3>1
  <2> QED BY <2>3, <2>4, <2>5
<1>7. (CreateUnblock(t) \/ CreatePreempt(t)) /\ UNCHANGED synchVars => Schedules(t)
  BY DEF Schedules
<1> QED BY <1>4, <1>5, <1>6, <1>7 DEF OtherStep

(* Outside of monitors clients use locks only. *)
LEMMA OutsideAsksLocks ==
  ASSUME IInv, CondInv, SignalInv, NEW t \in Thread, OtherStep(t), cond_pc[t] = "out",
         pc'[t] \in {"down", "retry"}
  PROVE  obj'[t] \in Lock
<1> USE DEF IInv, SynchTypeInv, TypeInv, LockTypeOK, Goto, At, Runs, Calls
<1> USE DEF objectVars, donorVars, localVars
<1>1. ASSUME UNCHANGED <<pc, obj>> PROVE obj'[t] \in Lock
  BY <1>1 DEF SignalInv, SignalOK, Linked
<1>2. ASSUME NEW why, Panic(why) PROVE UNCHANGED <<pc, obj>>
  BY <1>2 DEF Panic, threadVars
<1>3. ASSUME NEW h, FollowTo(t, h) PROVE obj' = obj
  BY <1>3 DEF FollowTo
<1>4. CASE \/ \E c \in Thread, p \in Priority : Create(t, c, p)
           \/ Schedules(t) \/ Exit(t)
  <2>1. UNCHANGED obj /\ ThreadStep(t)
    BY <1>4 DEF Create, Schedules, Exit, ThreadStep, synchVars
  <2>2. pc' = pc \/ \E label \in ThreadLabel : pc' = [pc EXCEPT ![t] = label]
    BY <2>1 DEF ThreadStep, CreateThread, CreateUnblock, CreatePreempt, YieldCPU, TimerSleep,
                insert_blockList, ThreadExit, ThreadLabel
  <2>3. pc' = pc
    BY <2>2 DEF ThreadLabel
  <2> QED BY <1>1, <2>1, <2>3
<1>5. CASE LockStep(t)
  <2>1. ASSUME NEW l \in Lock, LockAcquire(t, l) \/ LockTryAcquire(t, l) \/ LockRelease(t, l)
        PROVE  FALSE
    BY <2>1 DEF LockAcquire, EnterAcquire, LockTryAcquire, LockRelease
  <2>2. CASE \/ TestHolder(t) \/ ComparePriority(t) \/ PushDonation(t) \/ DonateStart(t)
             \/ DonateSet(t) \/ DonateTest(t) \/ DonateNext(t)
    <3>1. pc[t] \in InLockAcquire
      BY <2>2 DEF TestHolder, ComparePriority, PushDonation, DonateStart, DonateSet, DonateTest,
         DonateNext, InLockAcquire
    <3>2. obj' = obj
      BY <1>2, <1>3, <2>2 DEF TestHolder, ComparePriority, PushDonation, DonateStart, DonateSet,
         DonateTest, DonateNext
    <3> QED BY <3>1, <3>2 DEF LocalsKnown
  <2>3. CASE SetHolder(t)
    BY <2>3 DEF SetHolder
  <2>4. CASE ReleaseUp(t)
    <3>1. pc[t] = "release" /\ (pc' = pc \/ pc' = [pc EXCEPT ![t] = "run"])
      BY <1>2, <2>4 DEF ReleaseUp
    <3> QED BY <3>1
  <2> QED BY <1>5, <2>1, <2>2, <2>3, <2>4 DEF LockStep
<1>6. CASE SemaDown(t)
  <2>1. pc[t] \in {"down", "retry"} /\ (obj' = obj \/ pc' = [pc EXCEPT ![t] = "run"])
    BY <1>6 DEF SemaDown
  <2> QED BY <2>1 DEF SignalInv, SignalOK, Linked
<1>7. (CreateUnblock(t) \/ CreatePreempt(t)) /\ UNCHANGED synchVars => Schedules(t)
  BY DEF Schedules
<1> QED BY <1>4, <1>5, <1>6, <1>7 DEF OtherStep

(* A waiter in sema_down. *)
LEMMA WaiterDowns ==
  ASSUME IInv, CondInv, NEW t \in Thread, OtherStep(t), cond_pc[t] = "reacquire"
  PROVE  /\ pc[t] \in {"down", "retry"} /\ Undisturbed
         /\ \/ pc'[t] = "retry" /\ value[WaiterSema[t]] = 0 /\ value'[WaiterSema[t]] = 0
            \/ /\ pc'[t] = "run" /\ value[WaiterSema[t]] # 0
               /\ value'[WaiterSema[t]] = value[WaiterSema[t]] - 1
<1> USE DEF IInv, SynchTypeInv, TypeInv, LockTypeOK, Goto, At, Runs
<1> DEFINE s == WaiterSema[t]
<1>1. pc[t] \in {"down", "retry"} /\ obj[t] = s
  BY DEF OtherStep, CondInv, WaitersCalls
<1>2. SemaDown(t)
  BY <1>1 DEF OtherStep, Create, CreateThread, CreateUnblock, CreatePreempt, Exit, ThreadExit,
     LockStep, LockAcquire, LockTryAcquire, LockRelease, Calls, TestHolder, ComparePriority,
     PushDonation, DonateStart, DonateSet, DonateTest, DonateNext, SetHolder, ReleaseUp
<1>3. s \in Semaphore /\ s \notin Lock
  BY CondConstants
<1> HIDE DEF s
<1>4. CASE value[s] = 0
  <2>1. pc' = [pc EXCEPT ![t] = "retry"] /\ UNCHANGED <<value, obj, holder>>
    BY <1>1, <1>2, <1>4 DEF SemaDown, MustWait
  <2> QED BY <1>1, <1>4, <2>1 DEF Undisturbed, s
<1>5. CASE value[s] # 0
  <2>1. /\ pc' = [pc EXCEPT ![t] = "run"] /\ value' = [value EXCEPT ![s] = @ - 1]
        /\ obj' = [obj EXCEPT ![t] = None] /\ UNCHANGED holder
    BY <1>1, <1>2, <1>3, <1>5 DEF SemaDown, MustWait
  <2>2. \A l \in Lock : value'[l] = value[l]
    BY <1>3, <2>1 DEF Semaphore
  <2> QED BY <1>1, <1>3, <1>5, <2>1, <2>2 DEF Undisturbed, s
<1> QED BY <1>4, <1>5

-----------------------------------------------------------------------------
(* The step of a thread is seen in its own state, apart from signals. *)

OthersUnseen(t) ==
  \A u \in Thread : u # t =>
    /\ pc'[u] = pc[u] /\ obj'[u] = obj[u]
    /\ cond_pc'[u] = cond_pc[u] /\ cond'[u] = cond[u] /\ max_elem'[u] = max_elem[u]
    /\ value'[WaiterSema[u]] = value[WaiterSema[u]]
    /\ Unsignaled(u) => \A c \in Cond : Linked(u, c)' <=> Linked(u, c)

LEMMA SignalFrame ==
  ASSUME CondInv, SignalInv, fault = "none", NEW t \in Thread, OthersUnseen(t), SignalOK(t)',
         Unsignaled(t)' => Unsignaled(t) \/ cond_pc[t] = "out"
  PROVE  /\ SignalInv'
         /\ \A u \in Thread : u # t =>
              /\ HasSignal(u)' <=> HasSignal(u)
              /\ \A c \in Cond : WaitsOn(u, c)' <=> WaitsOn(u, c)
<1>1. ASSUME NEW u \in Thread, u # t PROVE SignalOK(u)'
  <2>1. /\ InWait(u)' <=> InWait(u)
        /\ Leaving(u)' <=> Leaving(u)
        /\ Unsignaled(u)' <=> Unsignaled(u)
    BY <1>1 DEF OthersUnseen, InWait, Leaving, Unsignaled
  <2>2. (Unsignaled(u) => Linked(u, cond[u]))'
    <3> SUFFICES ASSUME Unsignaled(u) PROVE Linked(u, cond[u])'
      BY <2>1
    <3>1. PICK c \in Cond : c = cond[u]
      BY DEF CondInv, ArgumentsKnown, Unsignaled
    <3>2. Linked(u, c)'
      BY <1>1, <3>1 DEF SignalInv, SignalOK, Linked, OthersUnseen
    <3>3. cond'[u] = c
      BY <1>1, <3>1 DEF OthersUnseen
    <3> QED BY <3>2, <3>3 DEF Linked
  <2>3. (cond_pc[u] = "remove" => fault # "none" \/ ~Unsignaled(max_elem[u]))'
    <3> SUFFICES ASSUME cond_pc[u] = "remove" PROVE ~Unsignaled(max_elem[u])'
      BY <1>1 DEF OthersUnseen
    <3>1. PICK n \in Thread : n = max_elem[u]
      BY DEF CondInv, CondTypes, ArgumentsKnown
    <3>2. ~Unsignaled(n) /\ max_elem'[u] = n
      BY <1>1, <3>1 DEF SignalInv, SignalOK, Linked, OthersUnseen
    <3>3. ~Unsignaled(n)'
      <4>1. CASE n = t
        <5>1. InWait(t)
          BY <3>1, <4>1, NotLinked
        <5>2. cond_pc[t] # "out"
          BY <5>1 DEF InWait
        <5> QED BY <3>2, <4>1, <5>2
      <4>2. CASE n # t
        BY <3>2, <4>2 DEF OthersUnseen, Unsignaled
      <4> QED BY <4>1, <4>2
    <3> QED BY <3>2, <3>3 DEF Unsignaled
  <2> QED BY <1>1, <2>1, <2>2, <2>3 DEF SignalInv, SignalOK, Linked, OthersUnseen
<1>2. \A u \in Thread : SignalOK(u)'
  BY <1>1
<1>3. SignalInv'
  BY <1>2 DEF SignalInv
<1>4. ASSUME NEW u \in Thread, NEW c \in Cond, u # t PROVE WaitsOn(u, c)' <=> WaitsOn(u, c)
  <2>1. CASE Unsignaled(u)
    <3>1. Linked(u, c)' <=> Linked(u, c)
      BY <1>4, <2>1 DEF OthersUnseen
    <3> QED BY <1>4, <3>1 DEF OthersUnseen, WaitsOn, Linked
  <2>2. CASE ~Unsignaled(u)
    BY <1>4, <2>2 DEF OthersUnseen, WaitsOn, Unsignaled
  <2> QED BY <2>1, <2>2
<1>5. \A u \in Thread : u # t => (HasSignal(u)' <=> HasSignal(u))
  BY DEF OthersUnseen, HasSignal
<1> QED BY <1>3, <1>4, <1>5

LEMMA ViewKept ==
  ASSUME CondInv, SignalInv, fault = "none", NEW t \in Thread, OthersUnseen(t), SignalOK(t)',
         Unsignaled(t)' => Unsignaled(t) \/ cond_pc[t] = "out",
         HasSignal(t)' <=> HasSignal(t),
         \A c \in Cond : WaitsOn(t, c)' <=> WaitsOn(t, c)
  PROVE  SignalInv' /\ UNCHANGED <<waiting, signaled>>
<1>1. SignalInv' /\ \A u \in Thread : /\ HasSignal(u)' <=> HasSignal(u)
                                     /\ \A c \in Cond : WaitsOn(u, c)' <=> WaitsOn(u, c)
  BY SignalFrame
<1>2. waiting' = waiting
  BY <1>1 DEF waiting
<1>3. signaled' = signaled
  BY <1>1 DEF signaled
<1> QED BY <1>1, <1>2, <1>3

(* A step that the clients of the monitor do not see. *)
LEMMA Unseen ==
  ASSUME IInv, IInv', CondInv, SignalInv, fault = "none",
         NEW t \in Thread, OthersUnseen(t), SignalOK(t)', SameOwners,
         Unsignaled(t)' => Unsignaled(t) \/ cond_pc[t] = "out",
         HasSignal(t)' <=> HasSignal(t),
         \A c \in Cond : WaitsOn(t, c)' <=> WaitsOn(t, c)
  PROVE  SignalInv' /\ UNCHANGED <<owner, waiting, signaled>>
BY ViewKept, SameOwner DEF IInv

LEMMA NotInWait ==
  ASSUME NEW t \in Thread, cond_pc[t] \in {"out", "release", "choose", "up", "remove"}
  PROVE  ~HasSignal(t) /\ \A c \in Cond : ~WaitsOn(t, c)
BY DEF HasSignal, WaitsOn

LEMMA NotInWaitNext ==
  ASSUME NEW t \in Thread, cond_pc'[t] \in {"out", "release", "choose", "up", "remove"}
  PROVE  ~HasSignal(t)' /\ \A c \in Cond : ~WaitsOn(t, c)'
BY DEF HasSignal, WaitsOn

LEMMA CondOwnOwners ==
  ASSUME IInv, CondInv, NEW t \in Thread, CondOwn(t)
  PROVE  SameOwners
BY CondOwnUndisturbed, UndisturbedOwners DEF IInv, CondInv

LEMMA CondWaitUnseen ==
  ASSUME IInv, IInv', CondInv, SignalInv, fault = "none",
         NEW t \in Thread, NEW c \in Cond, CondWait(t, c)
  PROVE  SignalInv' /\ UNCHANGED <<owner, waiting, signaled>>
<1>1. /\ pc[t] = "run" /\ cond_pc[t] = "out"
      /\ value' = [value EXCEPT ![WaiterSema[t]] = 0]
      /\ cond_waiters' = [cond_waiters EXCEPT ![c] = Append(@, t)]
      /\ cond' = [cond EXCEPT ![t] = c]
      /\ cond_pc' = [cond_pc EXCEPT ![t] = "release"]
      /\ UNCHANGED <<pc, obj, max_elem>>
  BY DEF CondWait, Calls, At, CondGoto, localVars
<1>2. cond_pc'[t] = "release" /\ cond'[t] = c
  BY <1>1 DEF CondInv, CondTypes
<1>3. \A u \in Thread : value'[WaiterSema[u]] = IF u = t THEN 0 ELSE value[WaiterSema[u]]
  BY <1>1, CondConstants DEF IInv, SynchTypeInv, LockTypeOK
<1>4. \A d \in Cond : /\ d # c => cond_waiters'[d] = cond_waiters[d]
                      /\ cond_waiters'[d] \in {cond_waiters[d], Append(cond_waiters[d], t)}
  BY <1>1 DEF CondInv, CondTypes
<1>5. \A d \in Cond : t \notin Range(cond_waiters[d])
  <2>1. ~InWait(t)
    BY <1>1 DEF InWait
  <2> QED BY <2>1, NotLinked
<1>6. Range(cond_waiters'[c]) = Range(cond_waiters[c]) \cup {t}
  <2>1. cond_waiters'[c] = Append(cond_waiters[c], t) /\ cond_waiters[c] \in Seq(Thread)
    BY <1>1 DEF CondInv, CondTypes
  <2> QED BY <1>5, <2>1, AppendRange
<1>7. OthersUnseen(t)
  BY <1>1, <1>3, <1>4, <1>6 DEF OthersUnseen, Linked, CondInv, CondTypes
<1>8. SignalOK(t)'
  BY <1>2, <1>3, <1>6 DEF SignalOK, Linked, Leaving
<1>9. SameOwners
  BY CondOwnOwners DEF CondOwn
<1> QED BY <1>1, <1>2, <1>7, <1>8, <1>9, Unseen, NotInWait, NotInWaitNext

LEMMA CondSignalUnseen ==
  ASSUME IInv, IInv', CondInv, SignalInv, fault = "none",
         NEW t \in Thread, NEW c \in Cond, NEW all \in BOOLEAN, CondSignal(t, c, all)
  PROVE  SignalInv' /\ UNCHANGED <<owner, waiting, signaled>>
<1>1. /\ pc[t] = "run" /\ cond_pc[t] = "out"
      /\ UNCHANGED <<pc, obj, value, cond_waiters, max_elem>>
      /\ cond' = cond \/ cond' = [cond EXCEPT ![t] = c]
      /\ cond_pc' = cond_pc \/ cond_pc' = [cond_pc EXCEPT ![t] = "choose"]
  BY DEF CondSignal, Calls, At, objectVars, localVars, condLocals, CondGoto
<1>2. cond_pc'[t] \in {"out", "choose"}
  BY <1>1 DEF CondInv, CondTypes
<1>3. OthersUnseen(t)
  BY <1>1 DEF OthersUnseen, Linked, CondInv, CondTypes
<1>4. SignalOK(t)' /\ ~Unsignaled(t)'
  BY <1>1, <1>2 DEF SignalOK, Linked, Leaving, InWait, Unsignaled
<1>5. SameOwners
  BY CondOwnOwners DEF CondOwn
<1> QED BY <1>1, <1>2, <1>3, <1>4, <1>5, Unseen, NotInWait, NotInWaitNext

LEMMA CondChooseUnseen ==
  ASSUME IInv, IInv', CondInv, SignalInv, fault = "none", NEW t \in Thread, CondChoose(t)
  PROVE  SignalInv' /\ UNCHANGED <<owner, waiting, signaled>>
<1>1. /\ cond_pc[t] = "choose" /\ cond_pc' = [cond_pc EXCEPT ![t] = "up"]
      /\ \E n : max_elem' = [max_elem EXCEPT ![t] = n]
      /\ UNCHANGED <<pc, obj, value, cond_waiters, cond>>
  BY DEF CondChoose, CondAt, CondGoto, vars, threadVars, synchVars, objectVars, localVars
<1>2. cond_pc'[t] = "up"
  BY <1>1 DEF CondInv, CondTypes
<1>3. OthersUnseen(t)
  BY <1>1 DEF OthersUnseen, Linked, CondInv, CondTypes
<1>4. SignalOK(t)' /\ ~Unsignaled(t)'
  BY <1>2 DEF SignalOK, Linked, Leaving, InWait, Unsignaled
<1>5. SameOwners
  BY CondOwnOwners DEF CondOwn
<1> QED BY <1>1, <1>2, <1>3, <1>4, <1>5, Unseen, NotInWait, NotInWaitNext

(* In cond_wait: the lock is released, but not yet free ... *)
LEMMA CondReleaseUnseen ==
  ASSUME IInv, IInv', CondInv, SignalInv, fault = "none", NEW t \in Thread, CondRelease(t)
  PROVE  SignalInv' /\ UNCHANGED <<owner, waiting, signaled>>
<1> DEFINE l == CondLock[cond[t]]
<1>1. /\ cond_pc[t] = "release" /\ cond_pc' = [cond_pc EXCEPT ![t] = "down"]
      /\ LockRelease(t, l)
      /\ UNCHANGED <<cond_waiters, cond, max_elem>>
  BY DEF CondRelease, CondAt, CondGoto
<1>2. /\ value' = value /\ obj' = [obj EXCEPT ![t] = l] /\ pc' = [pc EXCEPT ![t] = "release"]
  BY <1>1 DEF LockRelease, Goto
<1>3. /\ cond_pc'[t] = "down" /\ pc'[t] = "release" /\ obj'[t] = l
  BY <1>1, <1>2 DEF CondInv, CondTypes, IInv, SynchTypeInv, TypeInv, LockTypeOK
<1>4. OthersUnseen(t)
  BY <1>1, <1>2 DEF OthersUnseen, Linked, CondInv, CondTypes, IInv, SynchTypeInv, TypeInv, LockTypeOK
<1>5. value[WaiterSema[t]] = 0 /\ Unsignaled(t) /\ Linked(t, cond[t])
  BY <1>1 DEF SignalInv, SignalOK, Leaving, Unsignaled
<1>6. SignalOK(t)'
  BY <1>1, <1>2, <1>3, <1>5 DEF SignalOK, Linked
<1>7. SameOwners
  <2>1. l \in Lock
    BY <1>1, CondConstants DEF CondInv, ArgumentsKnown
  <2> QED BY <1>1, <2>1, LockReleaseOwners DEF IInv
<1>8. ~HasSignal(t)' /\ \A c \in Cond : ~WaitsOn(t, c)'
  BY <1>2, <1>3, <1>5 DEF HasSignal, WaitsOn
<1> QED BY <1>1, <1>4, <1>5, <1>6, <1>7, <1>8, Unseen, NotInWait

(* ... the waiter gets to its sema_down, upped or not ... *)
LEMMA CondDownUnseen ==
  ASSUME IInv, IInv', CondInv, SignalInv, fault = "none", NEW t \in Thread, CondDown(t)
  PROVE  SignalInv' /\ UNCHANGED <<owner, waiting, signaled>>
<1>1. /\ cond_pc[t] = "down" /\ pc[t] = "run" /\ cond_pc' = [cond_pc EXCEPT ![t] = "reacquire"]
      /\ EnterDown(t, WaiterSema[t])
      /\ UNCHANGED <<cond_waiters, cond, max_elem>>
  BY DEF CondDown, CondAt, At, CondGoto
<1>2. /\ value' = value /\ obj' = [obj EXCEPT ![t] = WaiterSema[t]] /\ pc' = [pc EXCEPT ![t] = "down"]
  BY <1>1 DEF EnterDown, Goto, objectVars
<1>3. /\ cond_pc'[t] = "reacquire" /\ pc'[t] = "down"
  BY <1>1, <1>2 DEF CondInv, CondTypes, IInv, SynchTypeInv, TypeInv, LockTypeOK
<1>4. OthersUnseen(t)
  BY <1>1, <1>2 DEF OthersUnseen, Linked, CondInv, CondTypes, IInv, SynchTypeInv, TypeInv, LockTypeOK
<1>5. Unsignaled(t)' <=> Unsignaled(t)
  BY <1>1, <1>2, <1>3 DEF Unsignaled
<1>6. SignalOK(t)'
  BY <1>1, <1>2, <1>3, <1>5 DEF SignalInv, SignalOK, Linked, InWait, Leaving
<1>7. SameOwners
  BY CondOwnOwners DEF CondOwn
<1>8. (HasSignal(t)' <=> HasSignal(t)) /\ \A c \in Cond : WaitsOn(t, c)' <=> WaitsOn(t, c)
  BY <1>1, <1>2, <1>3 DEF HasSignal, WaitsOn
<1> QED BY <1>4, <1>5, <1>6, <1>7, <1>8, Unseen

(* ... and asks for its lock again. *)
LEMMA CondReacquireUnseen ==
  ASSUME IInv, IInv', CondInv, SignalInv, fault = "none", NEW t \in Thread, CondReacquire(t)
  PROVE  SignalInv' /\ UNCHANGED <<owner, waiting, signaled>>
<1> DEFINE l == CondLock[cond[t]]
<1>1. /\ cond_pc[t] = "reacquire" /\ pc[t] = "run" /\ cond_pc' = [cond_pc EXCEPT ![t] = "return"]
      /\ EnterAcquire(t, l)
      /\ UNCHANGED <<cond_waiters, cond, max_elem>>
  BY DEF CondReacquire, CondAt, At, CondGoto
<1>2. /\ value' = value /\ obj' = [obj EXCEPT ![t] = l] /\ pc' = [pc EXCEPT ![t] = "holder"]
  BY <1>1 DEF EnterAcquire, Goto, objectVars
<1>3. /\ cond_pc'[t] = "return" /\ pc'[t] = "holder"
  BY <1>1, <1>2 DEF CondInv, CondTypes, IInv, SynchTypeInv, TypeInv, LockTypeOK
<1>4. OthersUnseen(t)
  BY <1>1, <1>2 DEF OthersUnseen, Linked, CondInv, CondTypes, IInv, SynchTypeInv, TypeInv, LockTypeOK
<1>5. ~Unsignaled(t)'
  BY <1>3 DEF Unsignaled
<1>6. SignalOK(t)'
  BY <1>1, <1>2, <1>3, <1>5 DEF SignalInv, SignalOK, Linked, InWait, Leaving
<1>7. SameOwners
  BY CondOwnOwners DEF CondOwn
<1>8. (HasSignal(t)' <=> HasSignal(t)) /\ \A c \in Cond : WaitsOn(t, c)' <=> WaitsOn(t, c)
  BY <1>1, <1>2, <1>3 DEF HasSignal, WaitsOn
<1> QED BY <1>4, <1>5, <1>6, <1>7, <1>8, Unseen

(* cond_signal unlinks whom it has upped. *)
LEMMA CondRemoveUnseen ==
  ASSUME IInv, IInv', CondInv, SignalInv, fault = "none", NEW t \in Thread, CondRemove(t)
  PROVE  SignalInv' /\ UNCHANGED <<owner, waiting, signaled>>
<1> DEFINE c == cond[t]
           n == max_elem[t]
<1>1. /\ pc[t] = "run" /\ cond_pc[t] = "remove" /\ c \in Cond /\ n \in Thread
      /\ cond_waiters' = [cond_waiters EXCEPT ![c] = list_without(@, {n})]
      /\ max_elem' = [max_elem EXCEPT ![t] = None]
      /\ UNCHANGED <<pc, obj, value>>
      /\ \E label \in {"choose", "out"} : cond_pc' = [cond_pc EXCEPT ![t] = label]
      /\ cond' = cond \/ cond' = [cond EXCEPT ![t] = None]
  BY DEF CondRemove, CondAt, At, CondGoto, CondInv, ArgumentsKnown, CondTypes, vars, threadVars,
         synchVars, objectVars, localVars
<1>2. cond_pc'[t] \in {"choose", "out"}
  BY <1>1 DEF CondInv, CondTypes
<1>3. ~Unsignaled(n)
  BY <1>1 DEF SignalInv, SignalOK
<1>4. \A d \in Cond, u \in Thread : u # n => (Linked(u, d)' <=> Linked(u, d))
  <2>1. cond_waiters'[c] = list_without(cond_waiters[c], {n}) /\ cond_waiters[c] \in Seq(Thread)
    BY <1>1 DEF CondInv, CondTypes
  <2>2. Range(cond_waiters'[c]) = Range(cond_waiters[c]) \ {n}
    BY <1>1, <2>1, WithoutRange DEF CondInv, ListsSound
  <2>3. \A d \in Cond : d # c => cond_waiters'[d] = cond_waiters[d]
    BY <1>1 DEF CondInv, CondTypes
  <2> QED BY <2>2, <2>3 DEF Linked
<1> HIDE DEF c, n
<1>5. \A u \in Thread : u # t => /\ cond_pc'[u] = cond_pc[u] /\ cond'[u] = cond[u]
                                 /\ max_elem'[u] = max_elem[u]
  BY <1>1 DEF CondInv, CondTypes
<1>6. OthersUnseen(t)
  BY <1>1, <1>3, <1>4, <1>5 DEF OthersUnseen
<1>7. SignalOK(t)' /\ ~Unsignaled(t)'
  BY <1>1, <1>2 DEF SignalOK, Leaving, InWait, Unsignaled
<1>8. SameOwners
  BY CondOwnOwners DEF CondOwn
<1> QED BY <1>1, <1>2, <1>6, <1>7, <1>8, Unseen, NotInWait, NotInWaitNext

(* The sema_up of cond_signal is the signal. *)
LEMMA CondUpSignals ==
  ASSUME IInv, IInv', CondInv, SignalInv, fault = "none", NEW t \in Thread, CondUp(t)
  PROVE  SignalInv' /\ (UNCHANGED <<owner, waiting, signaled>> \/ Mesa!Signal(t, cond[t]))
<1> DEFINE c == cond[t]
           n == max_elem[t]
           s == WaiterSema[n]
<1>1. /\ pc[t] = "run" /\ cond_pc[t] = "up"
      /\ cond_pc' = [cond_pc EXCEPT ![t] = "remove"]
      /\ UNCHANGED <<cond_waiters, cond, max_elem>>
  BY DEF CondUp, CondAt, At, CondGoto
<1>2. /\ n \in Thread /\ c \in Cond /\ cond[n] = c /\ Linked(n, c)
      /\ Owns(t, CondLock[c]) /\ Unsignaled(n) /\ ~Leaving(n)
  BY <1>1, ChosenUnsignaled DEF Linked
<1>3. SameOwners
  BY CondOwnOwners DEF CondOwn
<1>4. cond_pc'[t] = "remove" /\ \A u \in Thread : u # t => cond_pc'[u] = cond_pc[u]
  BY <1>1 DEF CondInv, CondTypes
<1>5. ASSUME NEW why, Panic(why), why # "none"
      PROVE  SignalInv' /\ UNCHANGED <<owner, waiting, signaled>>
  <2>1. UNCHANGED <<pc, obj, value>> /\ fault' # "none"
    BY <1>5 DEF Panic, threadVars, objectVars, localVars
  <2>2. OthersUnseen(t)
    BY <1>1, <1>4, <2>1 DEF OthersUnseen, Linked
  <2>3. SignalOK(t)' /\ ~Unsignaled(t)'
    BY <1>4, <2>1 DEF SignalOK, Leaving, InWait, Unsignaled
  <2> QED BY <1>1, <1>3, <1>4, <2>2, <2>3, Unseen, NotInWait, NotInWaitNext
<1>6. ASSUME sema_up(s, FALSE), UNCHANGED <<pc, ops, obj>>
      PROVE  SignalInv' /\ Mesa!Signal(t, c)
  <2>1. value' = [value EXCEPT ![s] = @ + 1]
    BY <1>6 DEF sema_up
  <2>2. \A u \in Thread : value'[WaiterSema[u]] = IF u = n THEN 1 ELSE value[WaiterSema[u]]
    BY <1>2, <2>1, CondConstants DEF IInv, SynchTypeInv, LockTypeOK, Unsignaled
  <2>3. cond_pc[n] \in {"down", "reacquire"} /\ n # t
    BY <1>1, <1>2 DEF Unsignaled, Leaving
  <2> HIDE DEF n, c
  <2>4. \A u \in Thread : Unsignaled(u)' => Unsignaled(u) /\ u # n
    BY <1>4, <1>6, <2>2 DEF Unsignaled
  <2>5. SignalInv'
    <3> SUFFICES ASSUME NEW u \in Thread PROVE SignalOK(u)'
      BY DEF SignalInv
    <3>1. (cond_pc[u] = "remove" => ~Unsignaled(max_elem[u]))'
      <4> SUFFICES ASSUME cond_pc'[u] = "remove" PROVE ~Unsignaled(max_elem[u])'
        OBVIOUS
      <4>1. CASE u = t
        <5>1. PICK v \in Thread : v = n
          BY <1>2
        <5>2. ~Unsignaled(v)'
          BY <2>4, <5>1
        <5>3. max_elem'[u] = v
          BY <1>1, <4>1, <5>1 DEF n
        <5> QED BY <5>2, <5>3 DEF Unsignaled
      <4>2. CASE u # t
        <5>1. PICK v \in Thread : v = max_elem[u] /\ ~Unsignaled(v)
          BY <1>4, <4>2 DEF SignalInv, SignalOK, CondInv, CondTypes, ArgumentsKnown
        <5>2. ~Unsignaled(v)'
          BY <2>4, <5>1
        <5> QED BY <1>1, <5>1, <5>2 DEF Unsignaled
      <4> QED BY <4>1, <4>2
    <3>2. (Unsignaled(u) => Linked(u, cond[u]))'
      <4>1. Unsignaled(u) => Linked(u, cond[u])
        BY DEF SignalInv, SignalOK
      <4> QED BY <1>1, <2>4, <4>1 DEF Linked
    <3>3. CASE u = t
      BY <1>1, <1>4, <1>6, <3>1, <3>2, <3>3 DEF SignalOK, InWait, Leaving
    <3>4. CASE u # t
      <4>1. SignalOK(u)
        BY DEF SignalInv
      <4>2. (InWait(u)' <=> InWait(u)) /\ (Leaving(u)' <=> Leaving(u))
        BY <1>4, <1>6, <3>4 DEF InWait, Leaving
      <4>3. InWait(u) => value'[WaiterSema[u]] \in {0, 1}
        BY <2>2, <4>1 DEF SignalOK
      <4>4. Leaving(u) => value'[WaiterSema[u]] = 0
        BY <1>2, <2>2, <4>1 DEF SignalOK
      <4>5. cond_pc'[u] = cond_pc[u] /\ UNCHANGED <<pc, obj, cond>>
        BY <1>1, <1>4, <1>6, <3>4
      <4> QED BY <3>1, <3>2, <4>1, <4>2, <4>3, <4>4, <4>5 DEF SignalOK
    <3> QED BY <3>3, <3>4
  <2>6. ASSUME NEW u \in Thread, NEW d \in Cond
        PROVE  WaitsOn(u, d)' <=> WaitsOn(u, d) /\ ~(u = n /\ d = c)
    <3>1. CASE u = t
      BY <1>1, <1>4, <3>1, NotInWait, NotInWaitNext
    <3>2. CASE u = n
      <4>1. ~WaitsOn(u, d)'
        BY <2>2, <3>2 DEF WaitsOn
      <4>2. d # c => ~WaitsOn(u, d)
        BY <1>2, <3>2 DEF WaitsOn, CondInv, ListsSound
      <4> QED BY <3>2, <4>1, <4>2
    <3>3. CASE u # t /\ u # n
      BY <1>1, <1>4, <1>6, <2>2, <3>3 DEF WaitsOn
    <3> QED BY <3>1, <3>2, <3>3
  <2>7. ASSUME NEW u \in Thread
        PROVE  HasSignal(u)' <=> HasSignal(u) \/ u = n
    <3>1. CASE u = t
      BY <1>1, <1>4, <2>3, <3>1, NotInWait, NotInWaitNext
    <3>2. CASE u = n
      BY <1>4, <2>2, <2>3, <3>2 DEF HasSignal
    <3>3. CASE u # t /\ u # n
      BY <1>1, <1>4, <1>6, <2>2, <3>3 DEF HasSignal
    <3> QED BY <3>1, <3>2, <3>3
  <2>8. WaitsOn(n, c)
    BY <1>2, <2>3 DEF WaitsOn, Linked, Unsignaled, Leaving, CondInv, WaitersCalls
  <2>9. waiting' = [waiting EXCEPT ![c] = @ \ {n}]
    BY <2>6 DEF waiting
  <2>10. signaled' = signaled \cup {n}
    BY <1>2, <2>7 DEF signaled
  <2>11. n \in waiting[c]
    BY <1>2, <2>8 DEF waiting
  <2>12. owner' = owner /\ owner[CondLock[c]] = t
    BY <1>2, <1>3, SameOwner, OwnerValue, CondConstants DEF IInv
  <2> QED BY <2>5, <2>9, <2>10, <2>11, <2>12 DEF Mesa!Signal
<1>7. "freed donor" # "none"
  BY Zenon
<1>8. CASE Panic("freed donor")
  BY <1>5, <1>7, <1>8
<1>9. CASE sema_up(s, FALSE) /\ UNCHANGED <<pc, ops, obj>>
  BY <1>6, <1>9
<1> QED BY <1>8, <1>9 DEF CondUp

-----------------------------------------------------------------------------
(* The steps of the calls that cond_wait makes, and those outside of it. *)

LEMMA OtherStepOwners ==
  ASSUME IInv, NEW t \in Thread, OtherStep(t)
  PROVE  SameOwners \/ \E l \in Lock : Takes(t, l) \/ Gives(t, l)
<1> USE DEF IInv
<1>1. CASE \/ \E c \in Thread, p \in Priority : Create(t, c, p)
           \/ Schedules(t) \/ Exit(t)
  BY <1>1, UndisturbedOther, UndisturbedOwners
<1>2. CASE LockStep(t)
  BY <1>2, UndisturbedLockStep, UndisturbedOwners, LockTryAcquireOwners, LockReleaseOwners,
     SetHolderOwners, ReleaseUpOwners DEF LockStep
<1>3. CASE SemaDown(t)
  BY <1>3, SemaDownOwners
<1>4. (CreateUnblock(t) \/ CreatePreempt(t)) /\ UNCHANGED synchVars => Schedules(t)
  BY DEF Schedules
<1> QED BY <1>1, <1>2, <1>3, <1>4 DEF OtherStep

(* The sema_up of the lock_release in cond_wait frees the lock. *)
LEMMA WaiterReleases ==
  ASSUME IInv, CondInv, SignalInv, NEW t \in Thread, OtherStep(t), cond_pc[t] = "down"
  PROVE  /\ pc[t] = "release" /\ CondLock[cond[t]] \in Lock
         /\ \/ pc'[t] = "release" /\ UNCHANGED obj /\ SameOwners
            \/ pc'[t] = "run" /\ Gives(t, CondLock[cond[t]])
<1>1. pc[t] = "release"
  BY DEF OtherStep, CondInv, WaitersCalls
<1>2. ReleaseUp(t)
  BY <1>1 DEF OtherStep, Create, CreateThread, CreateUnblock, CreatePreempt, Exit, ThreadExit,
     LockStep, LockAcquire, LockTryAcquire, LockRelease, Calls, TestHolder, ComparePriority,
     PushDonation, DonateStart, DonateSet, DonateTest, DonateNext, SetHolder, SemaDown, At, Runs
<1>3. obj[t] = CondLock[cond[t]]
  BY <1>1 DEF SignalInv, SignalOK
<1>4. CondLock[cond[t]] \in Lock
  BY CondConstants DEF CondInv, ArgumentsKnown
<1>5. ASSUME NEW why, Panic(why) PROVE UNCHANGED <<pc, obj>>
  BY <1>5 DEF Panic, threadVars, localVars
<1> QED BY <1>1, <1>2, <1>3, <1>4, <1>5, ReleaseUpOwners DEF IInv

(* The lock_acquire in cond_wait. *)
LEMMA WaiterReturns ==
  ASSUME IInv, CondInv, SignalInv, NEW t \in Thread, OtherStep(t), cond_pc[t] = "return"
  PROVE  /\ CondLock[cond[t]] \in Lock
         /\ \/ pc[t] # "acquired" /\ pc'[t] \in Acquiring \ {"acquired"} /\ SameOwners
            \/ pc[t] # "acquired" /\ pc'[t] = "acquired" /\ Takes(t, CondLock[cond[t]])
            \/ pc[t] = "acquired" /\ pc'[t] = "run" /\ SameOwners
<1> USE DEF IInv, SynchTypeInv, TypeInv, LockTypeOK, Goto, At, Runs
<1> USE DEF localVars
<1>1. pc[t] \in Acquiring /\ obj[t] = CondLock[cond[t]]
  BY DEF CondInv, WaitersCalls
<1>2. CondLock[cond[t]] \in Lock
  BY CondConstants DEF CondInv, ArgumentsKnown
<1>3. \/ TestHolder(t) \/ ComparePriority(t) \/ PushDonation(t)
      \/ DonateStart(t) \/ DonateSet(t) \/ DonateTest(t) \/ DonateNext(t)
      \/ SetHolder(t) \/ SemaDown(t)
  BY <1>1 DEF Acquiring, InLockAcquire, OtherStep, Create, CreateThread, CreateUnblock,
     CreatePreempt, Exit, ThreadExit, LockStep, LockAcquire, LockTryAcquire, LockRelease,
     Calls, ReleaseUp
<1>4. CASE SetHolder(t)
  <2>1. pc[t] = "acquired" /\ pc' = [pc EXCEPT ![t] = "run"]
    BY <1>4 DEF SetHolder
  <2> QED BY <1>2, <1>4, <2>1, SetHolderOwners
<1>5. CASE SemaDown(t)
  <2>1. pc[t] \in {"down", "retry"}
    BY <1>5 DEF SemaDown
  <2> QED BY <1>1, <1>2, <1>5, <2>1, SemaDownOwners DEF Acquiring
<1>6. CASE \/ TestHolder(t) \/ ComparePriority(t) \/ PushDonation(t)
           \/ DonateStart(t) \/ DonateSet(t) \/ DonateTest(t) \/ DonateNext(t)
  <2>1. SameOwners
    BY <1>6, UndisturbedLockStep, UndisturbedOwners
  <2>2. pc[t] \in InLockAcquire
    BY <1>6 DEF TestHolder, ComparePriority, PushDonation, DonateStart, DonateSet, DonateTest,
       DonateNext, InLockAcquire
  <2>3. ASSUME NEW why, Panic(why) PROVE pc'[t] = pc[t]
    BY <2>3 DEF Panic, threadVars
  <2>4. ASSUME NEW h, FollowTo(t, h) PROVE pc'[t] \in InLockAcquire \cup {"down"}
    BY <2>4 DEF FollowTo, InLockAcquire
  <2>5. ASSUME \/ TestHolder(t) \/ ComparePriority(t) \/ PushDonation(t)
               \/ DonateSet(t) \/ DonateTest(t)
        PROVE  pc'[t] \in InLockAcquire \cup {"down"}
    <3>1. pc'[t] = pc[t] \/ pc'[t] \in InLockAcquire \cup {"down"}
      BY <2>3, <2>5 DEF TestHolder, ComparePriority, PushDonation, DonateSet, DonateTest,
         InLockAcquire
    <3> QED BY <2>2, <3>1
  <2>6. pc'[t] \in InLockAcquire \cup {"down"}
    <3>1. DonateStart(t) => \E h : FollowTo(t, h)
      BY DEF DonateStart
    <3>2. DonateNext(t) => (\E why : Panic(why)) \/ \E h : FollowTo(t, h)
      BY DEF DonateNext
    <3> QED BY <1>6, <2>2, <2>3, <2>4, <2>5, <3>1, <3>2
  <2> QED BY <1>2, <2>1, <2>2, <2>6 DEF Acquiring, InLockAcquire
<1> QED BY <1>3, <1>4, <1>5, <1>6

LEMMA OtherStepSignalOK ==
  ASSUME IInv, CondInv, SignalInv, NEW t \in Thread, OtherStep(t)
  PROVE  OthersUnseen(t) /\ SignalOK(t)' /\ (Unsignaled(t)' => Unsignaled(t))
<1>1. UNCHANGED <<cond_waiters, max_elem>>
  BY DEF OtherStep
<1>2. /\ Returning(t) => cond_pc' = [cond_pc EXCEPT ![t] = "out"]
                         /\ cond' = [cond EXCEPT ![t] = None]
      /\ ~Returning(t) => UNCHANGED <<cond_pc, cond>>
  BY DEF OtherStep, CondGoto
<1>3. \A u \in Thread : u # t => cond_pc'[u] = cond_pc[u] /\ cond'[u] = cond[u]
  BY <1>2 DEF CondInv, CondTypes
<1>4. OthersUnseen(t)
  BY <1>1, <1>3, OtherStepFrame, WaiterSemasStay DEF OthersUnseen, OthersStay, Linked
<1>5. \/ cond_pc[t] = "return" /\ pc'[t] = "run" /\ cond_pc'[t] = "out"
      \/ cond_pc'[t] = cond_pc[t] /\ cond'[t] = cond[t]
  BY <1>2 DEF Returning, CondInv, CondTypes
<1>6. cond_pc[t] \in {"out", "down", "reacquire", "return"}
  BY OtherStepFrame DEF CondInv, CondTypes, CondLabel, MonitorHeld, Working
<1>7. SignalOK(t)
  BY DEF SignalInv
<1>8. CASE cond_pc[t] = "out"
  BY <1>4, <1>5, <1>8, OutsideAsksLocks DEF SignalOK, InWait, Leaving, Unsignaled
<1>9. CASE cond_pc[t] = "down"
  <2>1. value'[WaiterSema[t]] = value[WaiterSema[t]]
    BY <1>9, WaiterSemasStay
  <2>2. pc[t] = "release" /\ ((pc'[t] = "release" /\ UNCHANGED obj) \/ pc'[t] = "run")
    BY <1>9, WaiterReleases
  <2> QED BY <1>1, <1>4, <1>5, <1>7, <1>9, <2>1, <2>2
             DEF SignalOK, InWait, Leaving, Unsignaled, Linked
<1>10. CASE cond_pc[t] = "reacquire"
  <2>1. /\ pc[t] \in {"down", "retry"}
        /\ \/ pc'[t] = "retry" /\ value[WaiterSema[t]] = 0 /\ value'[WaiterSema[t]] = 0
           \/ /\ pc'[t] = "run" /\ value[WaiterSema[t]] # 0
              /\ value'[WaiterSema[t]] = value[WaiterSema[t]] - 1
    BY <1>10, WaiterDowns
  <2>2. value[WaiterSema[t]] \in {0, 1}
    BY <1>7, <1>10 DEF SignalOK, InWait
  <2>3. value'[WaiterSema[t]] \in {0, 1}
    BY <2>1, <2>2
  <2>4. Unsignaled(t)' => Unsignaled(t)
    BY <1>5, <1>10, <2>1 DEF Unsignaled
  <2> QED BY <1>1, <1>4, <1>5, <1>7, <1>10, <2>3, <2>4 DEF SignalOK, InWait, Leaving, Linked
<1>11. CASE cond_pc[t] = "return"
  <2>1. value'[WaiterSema[t]] = value[WaiterSema[t]]
    BY <1>11, WaiterSemasStay
  <2> QED BY <1>4, <1>5, <1>7, <1>11, <2>1 DEF SignalOK, InWait, Leaving, Unsignaled
<1> QED BY <1>4, <1>6, <1>8, <1>9, <1>10, <1>11

LEMMA OtherStepImplements ==
  ASSUME IInv, IInv', CondInv, SignalInv, fault = "none", NEW t \in Thread, OtherStep(t)
  PROVE  SignalInv' /\ (UNCHANGED <<owner, waiting, signaled>> \/ Mesa!Next)
<1>1. OthersUnseen(t) /\ SignalOK(t)' /\ (Unsignaled(t)' => Unsignaled(t))
  BY OtherStepSignalOK
<1>2. /\ SignalInv'
      /\ \A u \in Thread : u # t => /\ HasSignal(u)' <=> HasSignal(u)
                                    /\ \A c \in Cond : WaitsOn(u, c)' <=> WaitsOn(u, c)
  BY <1>1, SignalFrame
<1>3. \/ cond_pc[t] = "return" /\ pc'[t] = "run" /\ cond_pc'[t] = "out"
      \/ cond_pc'[t] = cond_pc[t] /\ (cond_pc[t] = "return" => pc'[t] # "run")
  BY DEF OtherStep, CondGoto, Returning, CondInv, CondTypes
<1>4. cond_pc[t] \in {"out", "down", "reacquire", "return"}
  BY OtherStepFrame DEF CondInv, CondTypes, CondLabel, MonitorHeld, Working
<1>5. UNCHANGED cond_waiters
  BY DEF OtherStep
<1>6. LockPermit /\ LockPermit'
  BY DEF IInv
<1>7. CASE cond_pc[t] = "out"
  <2>1. ~HasSignal(t) /\ \A c \in Cond : ~WaitsOn(t, c)
    BY <1>7, NotInWait
  <2>2. ~HasSignal(t)' /\ \A c \in Cond : ~WaitsOn(t, c)'
    BY <1>3, <1>7, NotInWaitNext
  <2>3. UNCHANGED <<waiting, signaled>>
    BY <1>1, <2>1, <2>2, ViewKept
  <2>4. ~Mesa!Inside(t)
    BY <2>1 DEF Mesa!Inside, waiting, signaled
  <2>5. ASSUME NEW l \in Lock, Takes(t, l) PROVE Mesa!Acquire(t, l)
    BY <1>6, <2>3, <2>4, <2>5, TakesAcquires DEF Abstract!Acquire, Mesa!Acquire
  <2>6. ASSUME NEW l \in Lock, Gives(t, l) PROVE Mesa!Release(t, l)
    BY <1>6, <2>3, <2>6, GivesReleases DEF Abstract!Release, Mesa!Release
  <2>7. CASE SameOwners
    BY <1>2, <1>6, <2>3, <2>7, SameOwner
  <2> QED BY <1>2, <2>5, <2>6, <2>7, OtherStepOwners DEF Mesa!Next
<1>8. CASE cond_pc[t] = "down"
  <2> DEFINE c == cond[t]
  <2>1. c \in Cond /\ CondLock[c] \in Lock /\ pc[t] = "release"
    BY <1>8, WaiterReleases DEF CondInv, ArgumentsKnown
  <2>2. value[WaiterSema[t]] = 0 /\ value'[WaiterSema[t]] = 0 /\ Linked(t, c)
    BY <1>8, <2>1, WaiterSemasStay DEF SignalInv, SignalOK, Leaving, Unsignaled
  <2>3. ~HasSignal(t) /\ ~HasSignal(t)' /\ \A d \in Cond : ~WaitsOn(t, d)
    BY <1>3, <1>8, <2>1, <2>2 DEF HasSignal, WaitsOn
  <2>4. \A d \in Cond : d # c => ~Linked(t, d)
    BY DEF CondInv, ListsSound, Linked
  <2>5. CASE pc'[t] = "release" /\ SameOwners
    <3>1. \A d \in Cond : ~WaitsOn(t, d)'
      BY <1>3, <1>8, <2>5 DEF WaitsOn
    <3> QED BY <1>1, <2>3, <2>5, <3>1, Unseen
  <2>6. CASE pc'[t] = "run" /\ Gives(t, CondLock[c])
    <3> HIDE DEF c
    <3>1. \A d \in Cond : WaitsOn(t, d)' <=> d = c
      BY <1>3, <1>5, <1>8, <2>2, <2>4, <2>6 DEF WaitsOn, Linked
    <3>2. \A u \in Thread, d \in Cond : WaitsOn(u, d)' <=> WaitsOn(u, d) \/ (u = t /\ d = c)
      BY <1>2, <2>3, <3>1
    <3>3. waiting' = [waiting EXCEPT ![c] = @ \cup {t}]
      BY <2>1, <3>2 DEF waiting
    <3>4. signaled' = signaled
      BY <1>2, <2>3 DEF signaled
    <3>5. Mesa!Wait(t, c)
      BY <1>6, <2>1, <2>6, <3>3, <3>4, GivesReleases DEF Abstract!Release, Mesa!Wait
    <3> QED BY <1>2, <2>1, <3>5 DEF Mesa!Next
  <2> QED BY <1>8, <2>5, <2>6, WaiterReleases
<1>9. CASE cond_pc[t] = "reacquire"
  <2>1. /\ pc[t] \in {"down", "retry"} /\ Undisturbed
        /\ \/ pc'[t] = "retry" /\ value[WaiterSema[t]] = 0 /\ value'[WaiterSema[t]] = 0
           \/ /\ pc'[t] = "run" /\ value[WaiterSema[t]] # 0
              /\ value'[WaiterSema[t]] = value[WaiterSema[t]] - 1
    BY <1>9, WaiterDowns
  <2>2. value[WaiterSema[t]] \in {0, 1}
    BY <1>9 DEF SignalInv, SignalOK, InWait
  <2>3. HasSignal(t)' <=> HasSignal(t)
    BY <1>3, <1>9, <2>1, <2>2 DEF HasSignal
  <2>4. \A c \in Cond : WaitsOn(t, c)' <=> WaitsOn(t, c)
    BY <1>3, <1>5, <1>9, <2>1 DEF WaitsOn
  <2>5. SameOwners
    BY <2>1, UndisturbedOwners DEF IInv
  <2> QED BY <1>1, <2>3, <2>4, <2>5, Unseen
<1>10. CASE cond_pc[t] = "return"
  <2> DEFINE c == cond[t]
  <2>1. c \in Cond /\ CondLock[c] \in Lock
    BY <1>10, WaiterReturns DEF CondInv, ArgumentsKnown
  <2>2. \A d \in Cond : ~WaitsOn(t, d) /\ ~WaitsOn(t, d)'
    BY <1>3, <1>10 DEF WaitsOn
  <2>3. HasSignal(t) <=> pc[t] # "acquired"
    BY <1>10 DEF HasSignal
  <2>4. HasSignal(t)' <=> pc'[t] \in Acquiring \ {"acquired"}
    <3>1. "run" \notin Acquiring
      BY DEF Acquiring, InLockAcquire
    <3> QED BY <1>3, <1>10, <3>1, WaiterReturns DEF HasSignal
  <2>5. CASE SameOwners /\ (HasSignal(t)' <=> HasSignal(t))
    BY <1>1, <2>2, <2>5, Unseen
  <2>6. CASE pc[t] # "acquired" /\ pc'[t] = "acquired" /\ Takes(t, CondLock[c])
    <3> HIDE DEF c
    <3>1. waiting' = waiting
      BY <1>2, <2>2 DEF waiting
    <3>2. signaled' = signaled \ {t} /\ t \in signaled
      BY <1>2, <2>3, <2>4, <2>6 DEF signaled
    <3>3. Mesa!Return(t, c)
      BY <1>6, <2>1, <2>6, <3>1, <3>2, TakesAcquires DEF Abstract!Acquire, Mesa!Return
    <3> QED BY <1>2, <2>1, <3>3 DEF Mesa!Next
  <2>7. "run" \notin Acquiring
    BY DEF Acquiring, InLockAcquire
  <2> QED BY <1>10, <2>3, <2>4, <2>5, <2>6, <2>7, WaiterReturns
<1> QED BY <1>4, <1>7, <1>8, <1>9, <1>10

(* The timer, the idle thread and stuttering. *)
LEMMA BackgroundUnseen ==
  ASSUME IInv, IInv', SignalInv, Undisturbed, UNCHANGED <<condVars, pc, obj, value, fault>>
  PROVE  SignalInv' /\ UNCHANGED <<owner, waiting, signaled>>
<1> USE DEF condVars, condLocals
<1>1. SignalInv'
  BY DEF SignalInv, SignalOK, Linked, InWait, Leaving, Unsignaled
<1>2. UNCHANGED <<waiting, signaled>>
  BY DEF waiting, signaled, WaitsOn, HasSignal
<1>3. owner' = owner
  BY UndisturbedOwners, SameOwner DEF IInv
<1> QED BY <1>1, <1>2, <1>3

LEMMA MonitorStep ==
  ASSUME IInv, CondInv, SignalInv, [CondNext]_allVars
  PROVE  SignalInv' /\ (UNCHANGED <<owner, waiting, signaled>> \/ Mesa!Next)
<1>1. IInv'
  BY CondStep
<1>2. ASSUME fault = "none", NEW t \in Thread, CondThreadStep(t)
      PROVE  SignalInv' /\ (UNCHANGED <<owner, waiting, signaled>> \/ Mesa!Next)
  <2>1. CASE CondUp(t)
    <3>1. cond[t] \in Cond
      BY <2>1 DEF CondUp, CondAt, CondInv, ArgumentsKnown
    <3> QED BY <1>1, <1>2, <2>1, <3>1, CondUpSignals DEF Mesa!Next
  <2> QED BY <1>1, <1>2, <2>1, CondWaitUnseen, CondSignalUnseen, CondReleaseUnseen,
             CondDownUnseen, CondReacquireUnseen, CondChooseUnseen, CondRemoveUnseen
          DEF CondThreadStep
<1>3. ASSUME fault = "none", NEW t \in Thread, OtherStep(t)
      PROVE  SignalInv' /\ (UNCHANGED <<owner, waiting, signaled>> \/ Mesa!Next)
  BY <1>1, <1>3, OtherStepImplements
<1>4. ASSUME (Timer \/ Idling) /\ UNCHANGED condVars
      PROVE  SignalInv' /\ UNCHANGED <<owner, waiting, signaled>>
  <2>1. UNCHANGED <<pc, obj, value, fault>>
    BY <1>4 DEF Timer, Idling, Interrupt, TimerInterrupt, wake_up, IntrReturn, idle, synchVars,
       objectVars, localVars
  <2>2. Undisturbed
    BY <1>4, UndisturbedBackground DEF IInv
  <2> QED BY <1>1, <1>4, <2>1, <2>2, BackgroundUnseen
<1>5. ASSUME UNCHANGED allVars PROVE SignalInv' /\ UNCHANGED <<owner, waiting, signaled>>
  <2>1. UNCHANGED vars /\ UNCHANGED <<condVars, pc, obj, value, fault>>
    BY <1>5 DEF allVars, vars, threadVars, synchVars, objectVars, localVars
  <2>2. Undisturbed
    BY <2>1, UndisturbedBackground DEF IInv
  <2> QED BY <1>1, <2>1, <2>2, BackgroundUnseen
<1> QED BY <1>2, <1>3, <1>4, <1>5 DEF CondNext

LEMMA MonitorInit == CondInit => Mesa!Init
<1> SUFFICES ASSUME CondInit PROVE Mesa!Init
  OBVIOUS
<1>1. \A l \in Lock, t \in Thread : ~Owns(t, l)
  BY ThreadsAssumption DEF CondInit, SynchInit, Init, Owns
<1>2. \A t \in Thread : ~HasSignal(t) /\ \A c \in Cond : ~WaitsOn(t, c)
  BY NotInWait DEF CondInit
<1> QED BY <1>1, <1>2 DEF owner, waiting, signaled, Mesa!Init

(* The promise of a monitor is kept: to its clients cond_wait lets the     *)
(* lock go and waits in one step, each signal moves one thread that waits, *)
(* and that thread returns, once, when it has the lock again.              *)
THEOREM CondImplementsMonitor == CondSpec => ImplementsMonitor
<1>1. CondInit => IInv /\ CondInv /\ SignalInv
  BY InitCondInv, InitSignalInv
<1>2. IInv /\ CondInv /\ SignalInv /\ [CondNext]_allVars => (IInv /\ CondInv /\ SignalInv)'
  BY CondStep, MonitorStep
<1>3. IInv /\ CondInv /\ SignalInv /\ [CondNext]_allVars => [Mesa!Next]_<<owner, waiting, signaled>>
  BY MonitorStep
<1> QED BY <1>1, <1>2, <1>3, MonitorInit, PTL
        DEF CondSpec, ImplementsMonitor, Mesa!Spec, Mesa!monitorVars
=============================================================================
