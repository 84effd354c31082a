---------------------------- MODULE MutexProofs -----------------------------
(***************************************************************************)
(* For every finite set of threads: the type invariant, the absence of     *)
(* lost wakeups and the refinement of ExclusiveAccess, from one inductive  *)
(* invariant.                                                              *)
(***************************************************************************)
EXTENDS Mutex, FiniteSetTheorems, TLAPS

\* The mutex word is LOCKED while a thread owns the mutex, and one thread
\* owns it at a time
Exclusion ==
    /\ \A t \in Threads : Owns(t) => state = LOCKED
    /\ \A t, u \in Threads : Owns(t) /\ Owns(u) => t = u

IInv == TypeOK /\ Exclusion /\ CounterCoversWaiters /\ NoLostWakeup

-----------------------------------------------------------------------------
\* The waiting threads can be counted.
LEMMA WaitersFinite == IsFiniteSet(Waiters)
  BY FS_Subset, ThreadsAssumption DEF Waiters

\* The same after a step.
LEMMA WaitersFinitePrime == IsFiniteSet(Waiters')
  BY FS_Subset, ThreadsAssumption DEF Waiters

\* A thread that adds itself to waiting_counter_ raises the count by one.
LEMMA CountIn ==
  ASSUME NEW t \in Threads, t \notin Waiters, Waiters' = Waiters \cup {t}
  PROVE  Cardinality(Waiters') = Cardinality(Waiters) + 1
  BY WaitersFinite, FS_AddElement

\* A thread that subtracts itself lowers it by one.
LEMMA CountOut ==
  ASSUME NEW t \in Threads, t \in Waiters, Waiters' = Waiters \ {t}
  PROVE  /\ Cardinality(Waiters') = Cardinality(Waiters) - 1
         /\ Cardinality(Waiters) # 0
  BY WaitersFinite, FS_RemoveElement, FS_EmptySet

\* A counter of zero means that nobody sleeps.
LEMMA ZeroMeansNoneBlocked ==
  ASSUME CounterCoversWaiters, waiting_counter = 0
  PROVE  Blocked = {}
  BY WaitersFinite, FS_EmptySet DEF CounterCoversWaiters, Blocked, Waiters
-----------------------------------------------------------------------------
\* Nobody waits at first, and the mutex is unlocked.
LEMMA InitIInv == Init => IInv
<1> SUFFICES ASSUME Init PROVE IInv
  OBVIOUS
<1>1. TypeOK /\ Exclusion
  BY DEF Init, TypeOK, Exclusion, Owns, PCs, UNLOCKED, LOCKED
<1>2. Waiters = {} /\ Blocked = {}
  BY DEF Init, Waiters, Blocked
<1>3. CounterCoversWaiters
  BY <1>2, FS_EmptySet DEF Init, CounterCoversWaiters
<1> QED
  BY <1>1, <1>2, <1>3 DEF IInv, NoLostWakeup

\* Every action of Lock() and Unlock() preserves the invariant: one step per
\* action, and in it one per conjunct that the action can disturb.
LEMMA NextIInv == IInv /\ [Next]_vars => IInv'
<1> SUFFICES ASSUME IInv, [Next]_vars PROVE IInv'
  OBVIOUS
<1> USE DEF IInv, TypeOK, PCs, UNLOCKED, LOCKED
<1>1. ASSUME NEW t \in Threads, LockExchange(t) PROVE IInv'
  <2> USE <1>1 DEF LockExchange, Exchange, Goto
  <2>1. TypeOK' /\ Exclusion'
    BY DEF Exclusion, Owns
  <2>2. Waiters' = Waiters
    BY DEF Waiters
  <2> QED
    BY <2>1, <2>2 DEF CounterCoversWaiters, NoLostWakeup
<1>2. ASSUME NEW t \in Threads, LockAdd(t) PROVE IInv'
  <2> USE <1>2 DEF LockAdd, Goto
  <2>1. TypeOK' /\ Exclusion'
    BY DEF Exclusion, Owns
  <2>2. t \notin Waiters /\ Waiters' = Waiters \cup {t}
    BY DEF Waiters
  <2>3. CounterCoversWaiters'
    BY <2>2, CountIn DEF CounterCoversWaiters
  <2>4. NoLostWakeup'
    BY DEF NoLostWakeup
  <2> QED
    BY <2>1, <2>3, <2>4
<1>3. ASSUME NEW t \in Threads, LockWait(t) PROVE IInv'
  <2> USE <1>3 DEF LockWait, Goto
  <2>1. TypeOK' /\ Exclusion'
    BY DEF Exclusion, Owns
  <2>2. Waiters' = Waiters
    BY DEF Waiters
  <2>3. NoLostWakeup'
    BY DEF NoLostWakeup
  <2> QED
    BY <2>1, <2>2, <2>3 DEF CounterCoversWaiters
<1>4. ASSUME NEW t \in Threads, LockRetry(t) PROVE IInv'
  <2> USE <1>4 DEF LockRetry, Exchange, Goto
  <2>1. TypeOK' /\ Exclusion'
    BY DEF Exclusion, Owns
  <2>2. Waiters' = Waiters
    BY DEF Waiters
  <2> QED
    BY <2>1, <2>2 DEF CounterCoversWaiters, NoLostWakeup
<1>5. ASSUME NEW t \in Threads, LockSub(t) PROVE IInv'
  <2> USE <1>5 DEF LockSub, Goto
  <2>1. t \in Waiters /\ Waiters' = Waiters \ {t}
    BY DEF Waiters
  <2>2. CounterCoversWaiters' /\ waiting_counter # 0
    BY <2>1, CountOut DEF CounterCoversWaiters
  <2>3. TypeOK' /\ Exclusion'
    BY <2>2 DEF Exclusion, Owns
  <2>4. NoLostWakeup'
    BY DEF NoLostWakeup, Exclusion, Owns
  <2> QED
    BY <2>2, <2>3, <2>4
<1>6. ASSUME NEW t \in Threads, UnlockStore(t) PROVE IInv'
  <2> USE <1>6 DEF UnlockStore, Goto
  <2>1. TypeOK' /\ Exclusion'
    BY DEF Exclusion, Owns
  <2>2. Waiters' = Waiters
    BY DEF Waiters
  <2>3. NoLostWakeup'
    BY DEF NoLostWakeup
  <2> QED
    BY <2>1, <2>2, <2>3 DEF CounterCoversWaiters
<1>7. ASSUME NEW t \in Threads, UnlockCheck(t) PROVE IInv'
  <2> USE <1>7 DEF UnlockCheck, Goto
  <2>1. TypeOK' /\ Exclusion'
    BY DEF Exclusion, Owns
  <2>2. Waiters' = Waiters
    BY DEF Waiters
  <2>3. Blocked' = Blocked
    BY DEF Blocked
  <2>4. NoLostWakeup'
    BY <2>3, ZeroMeansNoneBlocked DEF NoLostWakeup
  <2> QED
    BY <2>1, <2>2, <2>4 DEF CounterCoversWaiters
<1>8. ASSUME NEW t \in Threads, UnlockNotify(t) PROVE IInv'
  <2> USE <1>8 DEF UnlockNotify
  <2>1. TypeOK' /\ Exclusion'
    BY DEF Exclusion, Owns, Blocked
  <2>2. Waiters' = Waiters
    BY DEF Waiters, Blocked
  <2>3. NoLostWakeup'
    BY DEF NoLostWakeup, Blocked
  <2> QED
    BY <2>1, <2>2, <2>3 DEF CounterCoversWaiters
<1>9. ASSUME UNCHANGED vars PROVE IInv'
  BY <1>9 DEF vars, Exclusion, Owns, CounterCoversWaiters, NoLostWakeup,
              Waiters, Blocked
<1> QED
  BY <1>1, <1>2, <1>3, <1>4, <1>5, <1>6, <1>7, <1>8, <1>9 DEF Next, Step

\* The inductive invariant holds in every reachable state.
THEOREM Invariance == Spec => []IInv
  BY InitIInv, NextIInv, PTL DEF Spec

\* Type correctness of state_, waiting_counter_ (which fetch_sub never takes
\* below zero) and the control points.
THEOREM TypeCorrect == Spec => []TypeOK
  BY Invariance, PTL DEF IInv

\* Unlock() may skip notify_one and still leaves no thread asleep on a free
\* mutex that nobody is about to hand on.
THEOREM WakeupSafety == Spec => []NoLostWakeup
  BY Invariance, PTL DEF IInv

\* waiting_counter_ is exactly the number of threads in Lock()'s slow path.
THEOREM CounterExact == Spec => []CounterCoversWaiters
  BY Invariance, PTL DEF IInv

-----------------------------------------------------------------------------
(* The refinement of ExclusiveAccess *)

\* Under Exclusion the owner, if there is one, is the holder.
LEMMA HolderIs ==
  ASSUME Exclusion, NEW t \in Threads, Owns(t)
  PROVE  Holder = t
  BY DEF Exclusion, Holder

\* Without an owner the abstract lock is free.
LEMMA HolderNone ==
  ASSUME \A t \in Threads : ~Owns(t)
  PROVE  Holder = NoThread
  BY DEF Holder

\* A step that changes no thread's ownership is a stutter of the abstract lock.
LEMMA SameOwner ==
  ASSUME \A t \in Threads : Owns(t)' = Owns(t)
  PROVE  Holder' = Holder
  BY DEF Holder

\* A step of the mutex is a handover or changes nothing it sees.
LEMMA StepSimulation ==
  ASSUME IInv, IInv', [Next]_vars
  PROVE  [L!Handover]_Holder
<1> USE DEF IInv, TypeOK, PCs, UNLOCKED, LOCKED
<1>1. ASSUME NEW t \in Threads, LockExchange(t) \/ LockRetry(t), state = UNLOCKED
      PROVE  L!Handover
  <2>1. Holder = NoThread
    BY <1>1, HolderNone DEF Exclusion
  <2>2. Owns(t)'
    BY <1>1 DEF LockExchange, LockRetry, Exchange, Goto, Owns
  <2>3. Holder' = t
    BY <2>2 DEF Exclusion, Holder
  <2> QED
    BY <2>1, <2>3 DEF L!Handover, L!Handovers
<1>2. ASSUME NEW t \in Threads, UnlockStore(t) PROVE L!Handover
  <2>1. Owns(t)
    BY <1>2 DEF UnlockStore, Goto, Owns
  <2>2. Holder = t
    BY <2>1, HolderIs
  <2>3. \A u \in Threads : ~Owns(u)'
    BY <1>2, <2>1 DEF UnlockStore, Goto, Owns, Exclusion
  <2>4. Holder' = NoThread
    BY <2>3 DEF Holder
  <2> QED
    BY <2>2, <2>4 DEF L!Handover, L!Handovers
<1>3. ASSUME NEW t \in Threads, LockExchange(t) \/ LockRetry(t), state # UNLOCKED
      PROVE  Holder' = Holder
  <2>1. \A u \in Threads : Owns(u)' = Owns(u)
    BY <1>3 DEF LockExchange, LockRetry, Exchange, Goto, Owns
  <2> QED
    BY <2>1, SameOwner
<1>4. ASSUME NEW t \in Threads,
             \/ LockAdd(t) \/ LockWait(t) \/ LockSub(t)
             \/ UnlockCheck(t) \/ UnlockNotify(t)
      PROVE  Holder' = Holder
  <2>1. \A u \in Threads : Owns(u)' = Owns(u)
    BY <1>4 DEF LockAdd, LockWait, LockSub, UnlockCheck, UnlockNotify, Goto,
                Owns, Blocked
  <2> QED
    BY <2>1, SameOwner
<1>5. ASSUME UNCHANGED vars PROVE Holder' = Holder
  BY <1>5 DEF vars, Holder, Owns
<1> QED
  BY <1>1, <1>2, <1>3, <1>4, <1>5 DEF Next, Step

\* The futex mutex implements the abstract lock: mutual exclusion, and only
\* the holder's Unlock() releases it.
THEOREM Refinement == Spec => ImplementsLock
<1>1. Init => L!Free
  BY HolderNone DEF Init, L!Free, Owns
<1> QED
  BY <1>1, Invariance, StepSimulation, PTL DEF Spec, ImplementsLock, L!Promise
=============================================================================
