-------------------------- MODULE TicketLockProofs --------------------------
(***************************************************************************)
(* For every set of threads and every number of tickets: mutual exclusion  *)
(* (as refinement of ExclusiveAccess), the account of tickets, first come  *)
(* first served, and the justification of a failed TryLock.                *)
(***************************************************************************)
EXTENDS TicketLock, TLAPS

\* Queued threads have tickets between the two counters; the holder's ticket
\* is the owner's, and Unlock() has loaded it
QueueOrder ==
    /\ owner_ticket <= next_free_ticket
    /\ \A t \in Threads : InQueue(t) =>
         owner_ticket <= ticket[t] /\ ticket[t] < next_free_ticket
    /\ \A t \in Threads : Holds(t) => ticket[t] = owner_ticket
    /\ \A t \in Threads : pc[t] = "store" => seen[t] = owner_ticket

\* What TryLock() loaded is at most the current owner, and is still both
\* counters' value if the lock has been free ever since
TryOrder ==
    \A t \in Threads : pc[t] = "cas" =>
      /\ seen[t] <= owner_ticket
      /\ seen[t] < MaxTickets
      /\ ~sawBusy[t] => seen[t] = owner_ticket /\ next_free_ticket = owner_ticket

IInv == TypeOK /\ QueueOrder /\ TryOrder /\ NoAbandonedTicket

-----------------------------------------------------------------------------
\* At first no ticket has been handed out.
LEMMA InitIInv == Init => IInv
  BY TicketAssumption
  DEF Init, IInv, TypeOK, PCs, QueueOrder, TryOrder, NoAbandonedTicket,
      InQueue, Holds

\* The history variable keeps its type in every step
LEMMA ObserveType == Observe => sawBusy' \in [Threads -> BOOLEAN]
  BY DEF Observe

\* Every step of Lock, TryLock and Unlock keeps the invariant.
LEMMA NextIInv == IInv /\ [Next]_vars => IInv'
<1> SUFFICES ASSUME IInv, [Next]_vars PROVE IInv'
  OBVIOUS
<1> USE TicketAssumption, ObserveType DEF IInv, TypeOK, PCs
<1>1. ASSUME NEW t \in Threads, LockTake(t), Observe PROVE IInv'
  <2> USE <1>1 DEF LockTake, Goto
  <2>1. TypeOK'
    OBVIOUS
  <2>2. QueueOrder'
    BY DEF QueueOrder, InQueue, Holds
  <2>3. TryOrder'
    BY DEF TryOrder, QueueOrder, Observe, Busy
  <2>4. NoAbandonedTicket'
    BY DEF NoAbandonedTicket, QueueOrder, InQueue
  <2> QED
    BY <2>1, <2>2, <2>3, <2>4
<1>2. ASSUME NEW t \in Threads, LockEnter(t), Observe PROVE IInv'
  <2> USE <1>2 DEF LockEnter, Goto
  <2>1. TypeOK'
    OBVIOUS
  <2>2. QueueOrder'
    BY DEF QueueOrder, InQueue, Holds
  <2>3. TryOrder'
    BY DEF TryOrder, Observe, Busy
  <2>4. NoAbandonedTicket'
    BY DEF NoAbandonedTicket, InQueue
  <2> QED
    BY <2>1, <2>2, <2>3, <2>4
<1>3. ASSUME NEW t \in Threads, TryLoad(t), Observe PROVE IInv'
  <2> USE <1>3 DEF TryLoad, Goto
  <2>1. TypeOK'
    OBVIOUS
  <2>2. QueueOrder'
    BY DEF QueueOrder, InQueue, Holds
  <2>3. TryOrder'
    <3>1. ASSUME NEW u \in Threads, pc'[u] = "cas"
          PROVE  sawBusy'[u] <=> Busy \/ (pc[u] = "cas" /\ sawBusy[u])
      BY <3>1 DEF Observe, Busy
    <3>2. seen'[t] = owner_ticket /\ \A u \in Threads : u # t => seen'[u] = seen[u]
      OBVIOUS
    <3>3. \A u \in Threads : u # t => pc'[u] = pc[u]
      OBVIOUS
    <3> QED
      BY <3>1, <3>2, <3>3 DEF TryOrder, Busy
  <2>4. NoAbandonedTicket'
    BY DEF NoAbandonedTicket, InQueue
  <2> QED
    BY <2>1, <2>2, <2>3, <2>4
<1>4. ASSUME NEW t \in Threads, pc[t] = "cas", next_free_ticket = seen[t],
             CasSucceeds(t), Observe
      PROVE  IInv'
  <2> USE <1>4 DEF CasSucceeds, Goto
  <2>1. owner_ticket = next_free_ticket /\ seen[t] = owner_ticket
    BY DEF QueueOrder, TryOrder
  <2>2. \A u \in Threads : ~InQueue(u)
    BY <2>1 DEF QueueOrder
  <2>3. TypeOK'
    BY DEF TryOrder
  <2>4. QueueOrder'
    BY <2>1, <2>2 DEF QueueOrder, InQueue, Holds
  <2>5. TryOrder'
    BY <2>1 DEF TryOrder, Observe, Busy
  <2>6. NoAbandonedTicket'
    BY <2>1, <2>2 DEF NoAbandonedTicket, InQueue
  <2> QED
    BY <2>3, <2>4, <2>5, <2>6
<1>5. ASSUME NEW t \in Threads, CasFails(t), Observe PROVE IInv'
  <2> USE <1>5 DEF CasFails, Goto
  <2>1. TypeOK'
    OBVIOUS
  <2>2. QueueOrder'
    BY DEF QueueOrder, InQueue, Holds
  <2>3. TryOrder'
    BY DEF TryOrder, Observe, Busy
  <2>4. NoAbandonedTicket'
    BY DEF NoAbandonedTicket, InQueue
  <2> QED
    BY <2>1, <2>2, <2>3, <2>4
<1>6. ASSUME NEW t \in Threads, UnlockLoad(t), Observe PROVE IInv'
  <2> USE <1>6 DEF UnlockLoad, Goto
  <2>1. TypeOK'
    OBVIOUS
  <2>2. QueueOrder'
    BY DEF QueueOrder, InQueue, Holds
  <2>3. TryOrder'
    BY DEF TryOrder, Observe, Busy
  <2>4. NoAbandonedTicket'
    BY DEF NoAbandonedTicket, InQueue
  <2> QED
    BY <2>1, <2>2, <2>3, <2>4
<1>7. ASSUME NEW t \in Threads, UnlockStore(t), Observe PROVE IInv'
  <2> USE <1>7 DEF UnlockStore, Goto
  <2>1. /\ ticket[t] = owner_ticket
        /\ seen[t] = owner_ticket
        /\ owner_ticket < next_free_ticket
    BY DEF QueueOrder, Holds, InQueue
  <2>2. \A u \in Threads : InQueue(u) /\ u # t => owner_ticket < ticket[u]
    BY <2>1 DEF QueueOrder, NoAbandonedTicket, InQueue
  <2>3. TypeOK'
    BY <2>1
  <2>4. QueueOrder'
    BY <2>1, <2>2 DEF QueueOrder, InQueue, Holds
  <2>5. TryOrder'
    BY <2>1 DEF TryOrder, Observe, Busy
  <2>6. NoAbandonedTicket'
    BY <2>1 DEF NoAbandonedTicket, InQueue
  <2> QED
    BY <2>3, <2>4, <2>5, <2>6
<1>8. ASSUME UNCHANGED vars PROVE IInv'
  BY <1>8 DEF vars, QueueOrder, TryOrder, NoAbandonedTicket, InQueue, Holds
<1> QED
  BY <1>1, <1>2, <1>3, <1>4, <1>5, <1>6, <1>7, <1>8
  DEF Next, Call, Step, TryCas, CasSucceeds, Goto, Terminated

\* The inductive invariant holds in every reachable state of the lock.
THEOREM Invariance == Spec => []IInv
  BY InitIInv, NextIInv, PTL DEF Spec

-----------------------------------------------------------------------------
\* The counters stay within the tickets handed out, and threads within the
\* operations of the code.
THEOREM TypeCorrect == Spec => []TypeOK
  BY Invariance, PTL DEF IInv

\* No ticket is abandoned, and none is given to two threads.
THEOREM TicketAccount == Spec => []NoAbandonedTicket
  BY Invariance, PTL DEF IInv

\* At most one thread is between Lock()/TryLock() and the store of Unlock().
LEMMA OneHolder ==
  ASSUME IInv, NEW t \in Threads, NEW u \in Threads, Holds(t), Holds(u)
  PROVE  t = u
  BY DEF IInv, QueueOrder, NoAbandonedTicket, Holds, InQueue

\* The holder of the abstract lock is the thread that holds the ticket lock.
LEMMA HolderIs ==
  ASSUME IInv, NEW t \in Threads, Holds(t)
  PROVE  Holder = t
  BY OneHolder DEF Holder

\* Without an owner the abstract lock is free.
LEMMA HolderNone ==
  ASSUME \A t \in Threads : ~Holds(t)
  PROVE  Holder = NoThread
  BY DEF Holder

\* A step that changes no thread's hold is a stutter of the abstract lock.
LEMMA SameHolder ==
  ASSUME \A t \in Threads : Holds(t)' = Holds(t)
  PROVE  Holder' = Holder
  BY DEF Holder

\* When a thread gets the lock, its ticket is the owner's; it got it in Lock()
\* or by a CAS that found the queue empty.
LEMMA Entering ==
  ASSUME IInv, [Next]_vars, NEW t \in Threads, ~Holds(t), Holds(t)'
  PROVE  \/ LockEnter(t)
         \/ CasSucceeds(t) /\ \A u \in Threads : ~InQueue(u)
<1> USE DEF IInv, TypeOK, PCs
<1>1. LockEnter(t) \/ (next_free_ticket = seen[t] /\ CasSucceeds(t))
  BY DEF Next, Call, Step, LockTake, LockEnter, TryLoad, TryCas, CasSucceeds,
         CasFails, UnlockLoad, UnlockStore, Terminated, vars, Goto, Holds
<1>2. ASSUME next_free_ticket = seen[t], CasSucceeds(t)
      PROVE  \A u \in Threads : ~InQueue(u)
  BY <1>2 DEF CasSucceeds, Goto, QueueOrder, TryOrder
<1> QED
  BY <1>1, <1>2

\* First come, first served, TryLock() included.
THEOREM Fifo == Spec => NoOvertaking
<1>1. ASSUME IInv, [Next]_vars, NEW t \in Threads, NEW u \in Threads,
             ~Holds(t), Holds(t)', t # u, pc[u] = "spin"
      PROVE  pc[t] = "spin" /\ ticket[t] < ticket[u]
  <2>1. InQueue(u)
    BY <1>1 DEF InQueue
  <2>2. LockEnter(t)
    BY <1>1, <2>1, Entering
  <2>3. InQueue(t) /\ ticket[t] = owner_ticket /\ pc[t] = "spin"
    BY <2>2 DEF LockEnter, Goto, InQueue
  <2>4. ticket[t] # ticket[u] /\ owner_ticket <= ticket[u]
    BY <1>1, <2>1, <2>3 DEF IInv, NoAbandonedTicket, QueueOrder
  <2> QED
    BY <1>1, <2>3, <2>4 DEF IInv, TypeOK
<1>2. IInv /\ [Next]_vars => [EntersInOrder]_vars
  BY <1>1 DEF EntersInOrder
<1> QED
  BY <1>2, Invariance, PTL DEF Spec, NoOvertaking

\* TryLock() fails only if the lock was taken at some moment of the call.
THEOREM TryLockHonest == Spec => FailureJustified
<1>1. ASSUME IInv, [Next]_vars, NEW t \in Threads, pc[t] = "cas", pc'[t] = "idle"
      PROVE  sawBusy[t]
  <2> USE <1>1 DEF IInv, TypeOK, PCs
  <2>1. next_free_ticket # seen[t]
    BY DEF Next, Call, Step, LockTake, LockEnter, TryLoad, TryCas, CasSucceeds,
           CasFails, UnlockLoad, UnlockStore, Terminated, vars, Goto
  <2> QED
    BY <2>1 DEF TryOrder
<1>2. IInv /\ [Next]_vars => [FailsOnBusyLock]_vars
  BY <1>1 DEF FailsOnBusyLock
<1> QED
  BY <1>2, Invariance, PTL DEF Spec, FailureJustified

\* A step of the ticket lock is a handover or changes nothing it sees.
LEMMA StepSimulation ==
  ASSUME IInv, IInv', [Next]_vars
  PROVE  [L!Handover]_Holder
<1> USE DEF IInv, TypeOK, PCs
<1>1. ASSUME NEW t \in Threads, ~Holds(t), Holds(t)' PROVE L!Handover
  <2>1. \A u \in Threads : ~Holds(u)
    BY <1>1, Entering DEF LockEnter, Goto, InQueue, Holds, NoAbandonedTicket,
                          QueueOrder
  <2>2. Holder = NoThread
    BY <2>1, HolderNone
  <2>3. \A u \in Threads : Holds(u)' => u = t
    BY <1>1 DEF QueueOrder, NoAbandonedTicket, Holds, InQueue
  <2>4. Holder' = t
    BY <1>1, <2>3 DEF Holder
  <2> QED
    BY <2>2, <2>4 DEF L!Handover, L!Handovers
<1>2. ASSUME NEW t \in Threads, Holds(t), ~Holds(t)' PROVE L!Handover
  <2>1. Holder = t
    BY <1>2, HolderIs
  <2>2. UnlockStore(t)
    BY <1>2 DEF Next, Call, Step, LockTake, LockEnter, TryLoad, TryCas,
         CasSucceeds, CasFails, UnlockLoad, UnlockStore, Terminated, vars,
         Goto, Holds
  <2>3. \A u \in Threads : ~Holds(u)'
    BY <1>2, <2>2, OneHolder DEF UnlockStore, Goto, Holds
  <2>4. Holder' = NoThread
    BY <2>3 DEF Holder
  <2> QED
    BY <2>1, <2>4 DEF L!Handover, L!Handovers
<1>3. ASSUME \A t \in Threads : Holds(t)' = Holds(t) PROVE Holder' = Holder
  BY <1>3, SameHolder
<1> QED
  <2>1. \A t \in Threads : Holds(t) \in BOOLEAN /\ Holds(t)' \in BOOLEAN
    BY DEF Holds
  <2> QED
    BY <1>1, <1>2, <1>3, <2>1

\* The ticket lock implements the abstract lock: mutual exclusion, through
\* Lock() and through TryLock().
THEOREM Refinement == Spec => ImplementsLock
<1>1. Init => L!Free
  BY HolderNone DEF Init, L!Free, Holds
<1> QED
  BY <1>1, Invariance, StepSimulation, PTL DEF Spec, ImplementsLock, L!Promise
=============================================================================
