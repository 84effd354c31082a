---------------------------- MODULE CondVarProofs ---------------------------
(***************************************************************************)
(* Proofs about the two users of wait and notify: the cyclic barrier, for  *)
(* any number of participants and rounds, and the condition variable, for  *)
(* any number of waiters and notifiers and any width of its ticket.        *)
(***************************************************************************)
EXTENDS ConditionVariable, CyclicBarrier, FiniteSetTheorems, TLAPS

-----------------------------------------------------------------------------
(* The cyclic barrier *)

\* The threads that have come to the round after round g
ArrivedAfter(g) == {t \in Participants : round[t] = g + 1}

\* Round g is complete and the next is not.  Its counter, at the other index,
\* stays full as long as somebody has still to leave it.
RoundComplete(g) ==
    /\ \A t \in Participants : round[t] \in {g, g + 1}
    /\ \A t \in Participants : round[t] = g + 1 => arrival[t] # "out" /\ slot[t] = index
    /\ \A t \in Participants : round[t] = g /\ arrival[t] # "out" =>
         slot[t] = 1 - index /\ to_wait_counter[1 - index] = participants
    /\ to_wait_counter[index] = Cardinality(ArrivedAfter(g))
    /\ ArrivedAfter(g) # Participants

BarrierInv == BarrierTypeOK /\ \E g \in Nat : RoundComplete(g)

\* Sets of participants are counted.
LEMMA CountParticipants ==
  /\ participants \in Nat
  /\ \A S \in SUBSET Participants :
       /\ IsFiniteSet(S) /\ Cardinality(S) \in 0..participants
       /\ Cardinality(S) = participants => S = Participants
       /\ \A t \in Participants \ S : Cardinality(S \cup {t}) = Cardinality(S) + 1
<1>1. participants \in Nat
  BY FS_CardinalityType, BarrierAssumption DEF participants
<1>2. ASSUME NEW S \in SUBSET Participants
      PROVE  /\ IsFiniteSet(S) /\ Cardinality(S) \in 0..participants
             /\ Cardinality(S) = participants => S = Participants
  BY <1>1, FS_Subset, FS_CardinalityType, BarrierAssumption DEF participants
<1>3. ASSUME NEW S \in SUBSET Participants, NEW t \in Participants \ S
      PROVE  Cardinality(S \cup {t}) = Cardinality(S) + 1
  BY <1>2, FS_AddElement
<1> QED
  BY <1>1, <1>2, <1>3

\* Nobody has come when the barrier is made.
LEMMA BarrierInitInv == BarrierInit => BarrierInv
<1> SUFFICES ASSUME BarrierInit PROVE BarrierInv
  OBVIOUS
<1>1. BarrierTypeOK
  BY CountParticipants, BarrierAssumption DEF BarrierInit, BarrierTypeOK
<1>2. ArrivedAfter(0) = {}
  BY DEF ArrivedAfter, BarrierInit
<1>3. RoundComplete(0)
  BY <1>2, FS_EmptySet, BarrierAssumption DEF BarrierInit, RoundComplete
<1> QED
  BY <1>1, <1>3 DEF BarrierInv

\* One more has come to the round.
LEMMA ArriveWaitInv ==
  ASSUME BarrierInv, NEW t \in Participants, ArriveWait(t) PROVE BarrierInv'
<1> USE DEF ArriveWait, Enters
<1>1. PICK g \in Nat : RoundComplete(g)
  BY DEF BarrierInv
<1>2. round[t] = g
  BY <1>1 DEF RoundComplete
<1>3. /\ ArrivedAfter(g)' = ArrivedAfter(g) \cup {t} /\ t \notin ArrivedAfter(g)
      /\ ArrivedAfter(g) \subseteq Participants
  BY <1>2 DEF BarrierInv, BarrierTypeOK, ArrivedAfter
<1>4. /\ Cardinality(ArrivedAfter(g)') = to_wait_counter[index] + 1
      /\ to_wait_counter[index] + 1 \in 0..participants
      /\ ArrivedAfter(g)' # Participants
  <2> DEFINE A == ArrivedAfter(g)
  <2> HIDE DEF A
  <2>1. A \cup {t} \subseteq Participants /\ A \subseteq Participants /\ t \notin A
    BY <1>3 DEF A
  <2>2. Cardinality(A) = to_wait_counter[index]
    BY <1>1 DEF A, RoundComplete
  <2>3. /\ Cardinality(A \cup {t}) = to_wait_counter[index] + 1
        /\ Cardinality(A \cup {t}) \in 0..participants
    BY <2>1, <2>2, CountParticipants
  <2>4. A \cup {t} # Participants
    BY <2>3 DEF participants
  <2> QED
    BY <1>3, <2>3, <2>4 DEF A
<1>5. BarrierTypeOK'
  BY <1>4, BarrierAssumption DEF BarrierInv, BarrierTypeOK, participants
<1>6. /\ index' = index /\ index # 1 - index
      /\ to_wait_counter'[index] = to_wait_counter[index] + 1
      /\ to_wait_counter'[1 - index] = to_wait_counter[1 - index]
      /\ round'[t] = g + 1 /\ slot'[t] = index /\ arrival'[t] = "asleep"
      /\ \A u \in Participants : u # t =>
           round'[u] = round[u] /\ slot'[u] = slot[u] /\ arrival'[u] = arrival[u]
  BY <1>2 DEF BarrierInv, BarrierTypeOK
<1>7. RoundComplete(g)'
  BY <1>1, <1>4, <1>6 DEF RoundComplete
<1> QED
  BY <1>5, <1>7 DEF BarrierInv

\* The last has come: the round is complete, and the other counter is full.
LEMMA ArriveLastInv ==
  ASSUME BarrierInv, NEW t \in Participants, ArriveLast(t) PROVE BarrierInv'
<1> USE DEF ArriveLast, Enters, NotifyAll
<1>1. PICK g \in Nat : RoundComplete(g)
  BY DEF BarrierInv
<1>2. round[t] = g
  BY <1>1 DEF RoundComplete
<1>3. \A u \in Participants : u # t => round[u] = g + 1
  <2> DEFINE A == ArrivedAfter(g)
  <2> HIDE DEF A
  <2>1. A \cup {t} \subseteq Participants /\ A \subseteq Participants /\ t \notin A
    BY <1>2 DEF A, ArrivedAfter
  <2>2. Cardinality(A) = to_wait_counter[index]
    BY <1>1 DEF A, RoundComplete
  <2>3. A \cup {t} = Participants
    BY <2>1, <2>2, CountParticipants
  <2> QED
    BY <2>3 DEF A, ArrivedAfter
<1>4. \A u \in Participants : round'[u] = g + 1
  BY <1>2, <1>3 DEF BarrierInv, BarrierTypeOK
<1>5. ArrivedAfter(g + 1)' = {} /\ g + 1 \in Nat
  BY <1>4 DEF ArrivedAfter
<1>6. /\ to_wait_counter'[1 - index] = 0 /\ to_wait_counter'[index] = participants
      /\ index' \in {0, 1} /\ index' = 1 - index /\ 1 - index' = index
  BY DEF BarrierInv, BarrierTypeOK
<1>7. BarrierTypeOK'
  BY <1>6, CountParticipants, BarrierAssumption
  DEF BarrierInv, BarrierTypeOK, participants
<1>8. \A u \in Participants : arrival'[u] # "out" => slot'[u] = index
  BY <1>1, <1>3 DEF RoundComplete, BarrierInv, BarrierTypeOK
<1>9. RoundComplete(g + 1)'
  <2>1. to_wait_counter'[index'] = Cardinality(ArrivedAfter(g + 1)')
    BY <1>5, <1>6, FS_EmptySet
  <2>2. to_wait_counter'[1 - index'] = participants'
    BY <1>6 DEF participants
  <2>3. ArrivedAfter(g + 1)' # Participants
    BY <1>5, BarrierAssumption
  <2>4. \A u \in Participants : /\ round'[u] \in {g + 1, (g + 1) + 1}
                                 /\ round'[u] # (g + 1) + 1
    BY <1>4
  <2>5. \A u \in Participants : arrival'[u] # "out" => slot'[u] = 1 - index'
    BY <1>6, <1>8
  <2> QED
    BY <2>1, <2>2, <2>3, <2>4, <2>5 DEF RoundComplete
<1> QED
  BY <1>5, <1>7, <1>9 DEF BarrierInv

\* A thread leaves only if its round is complete, for the counter it looks at
\* is full and the present round's is not.
LEMMA RecheckInv ==
  ASSUME BarrierInv, NEW t \in Participants, Recheck(t) \/ WakesSpuriously(t)
  PROVE  BarrierInv'
<1>1. PICK g \in Nat : RoundComplete(g)
  BY DEF BarrierInv
<1>2. /\ UNCHANGED <<index, to_wait_counter, slot, round>>
      /\ BarrierTypeOK' /\ ArrivedAfter(g)' = ArrivedAfter(g)
      /\ \A u \in Participants : u # t => arrival'[u] = arrival[u]
      /\ arrival[t] # "out"
  BY DEF Recheck, WakesSpuriously, BarrierInv, BarrierTypeOK, ArrivedAfter
<1>3. to_wait_counter[index] # participants
  BY <1>1, CountParticipants DEF RoundComplete, ArrivedAfter
<1>4. round[t] = g + 1 => arrival'[t] # "out"
  BY <1>1, <1>2, <1>3 DEF RoundComplete, Recheck, WakesSpuriously, BarrierInv, BarrierTypeOK
<1>5. RoundComplete(g)'
  BY <1>1, <1>2, <1>4 DEF RoundComplete
<1> QED
  BY <1>2, <1>5 DEF BarrierInv

\* BarrierInv holds in every state.
THEOREM BarrierInvariance == BarrierSpec => []BarrierInv
<1>1. BarrierInv /\ [BarrierNext]_barrierVars => BarrierInv'
  <2> SUFFICES ASSUME BarrierInv, [BarrierNext]_barrierVars PROVE BarrierInv'
    OBVIOUS
  <2>1. ASSUME UNCHANGED barrierVars PROVE BarrierInv'
    BY <2>1 DEF barrierVars, BarrierInv, BarrierTypeOK, RoundComplete, ArrivedAfter
  <2> QED
    BY <2>1, ArriveWaitInv, ArriveLastInv, RecheckInv DEF BarrierNext, BarrierOver
<1> QED
  BY <1>1, BarrierInitInv, PTL DEF BarrierSpec

\* Nobody leaves a round of the barrier before all have come to it, for any
\* number of participants and of rounds.
THEOREM BarrierHolds == BarrierSpec => []NobodyLeavesEarly
<1>1. BarrierInv => NobodyLeavesEarly
  BY DEF BarrierInv, BarrierTypeOK, RoundComplete, NobodyLeavesEarly
<1> QED
  BY <1>1, BarrierInvariance, PTL

\* A thread sleeps in the barrier only while somebody has still to come to its
\* round: a complete round leaves no sleeper behind, and not all sleep at once.
SleepersAreWaiting ==
    \A t \in Participants :
      arrival[t] = "asleep" => \E u \in Participants : round[u] < round[t]

\* notify_all wakes the sleepers of the round that is complete, and a woken
\* thread goes back to sleep only if its counter is not full.
LEMMA SleepersStep ==
  ASSUME BarrierInv, BarrierInv', SleepersAreWaiting, [BarrierNext]_barrierVars
  PROVE  SleepersAreWaiting'
<1>1. ASSUME NEW t \in Participants, ArriveWait(t) PROVE SleepersAreWaiting'
  <2>1. PICK g \in Nat : RoundComplete(g)'
    BY DEF BarrierInv
  <2>2. PICK u \in Participants : round'[u] # g + 1
    BY <2>1 DEF RoundComplete, ArrivedAfter
  <2>3. round'[u] = g
    BY <2>1, <2>2 DEF RoundComplete
  <2>4. round'[t] = g + 1
    <3>1. arrival'[t] = "asleep" /\ slot'[t] = index' /\ index' \in {0, 1}
      BY <1>1 DEF ArriveWait, Enters, BarrierInv, BarrierTypeOK
    <3> QED
      BY <2>1, <3>1 DEF RoundComplete
  <2>5. \A v \in Participants : v # t => arrival'[v] = arrival[v] /\ round'[v] = round[v]
    BY <1>1 DEF ArriveWait, Enters, BarrierInv, BarrierTypeOK
  <2>6. ASSUME NEW v \in Participants, v # t, arrival'[v] = "asleep"
        PROVE  round'[v] = g + 1
    <3>1. PICK x \in Participants : round[x] < round[v]
      BY <2>5, <2>6 DEF SleepersAreWaiting
    <3>2. round'[v] = round[v] /\ round'[v] \in {g, g + 1} /\ round'[x] \in {g, g + 1}
      BY <2>1, <2>5, <2>6 DEF RoundComplete
    <3>3. x # t => round'[x] = round[x]
      BY <2>5
    <3>4. x = t => round[x] = g
      BY <1>1, <2>4 DEF ArriveWait, Enters, BarrierInv, BarrierTypeOK
    <3> QED
      BY <3>1, <3>2, <3>3, <3>4
  <2> QED
    BY <2>3, <2>4, <2>6 DEF SleepersAreWaiting
<1>2. ASSUME NEW t \in Participants, ArriveLast(t) PROVE SleepersAreWaiting'
  BY <1>2 DEF ArriveLast, Enters, NotifyAll, SleepersAreWaiting, BarrierInv, BarrierTypeOK
<1>3. ASSUME NEW t \in Participants, Recheck(t) PROVE SleepersAreWaiting'
  <2>1. PICK g \in Nat : RoundComplete(g)
    BY DEF BarrierInv
  <2>2. PICK u \in Participants : round[u] = g
    BY <2>1 DEF RoundComplete, ArrivedAfter
  <2>3. arrival'[t] = "asleep" => round[t] = g + 1
    BY <1>3, <2>1 DEF Recheck, RoundComplete, BarrierInv, BarrierTypeOK
  <2>4. /\ UNCHANGED round
        /\ \A v \in Participants : v # t => arrival'[v] = arrival[v]
    BY <1>3 DEF Recheck, BarrierInv, BarrierTypeOK
  <2> QED
    BY <2>2, <2>3, <2>4 DEF SleepersAreWaiting
<1>4. ASSUME NEW t \in Participants, WakesSpuriously(t) PROVE SleepersAreWaiting'
  BY <1>4 DEF WakesSpuriously, SleepersAreWaiting, BarrierInv, BarrierTypeOK
<1>5. ASSUME UNCHANGED barrierVars PROVE SleepersAreWaiting'
  BY <1>5 DEF barrierVars, SleepersAreWaiting
<1> QED
  BY <1>1, <1>2, <1>3, <1>4, <1>5 DEF BarrierNext, BarrierOver

\* No sleeper of a complete round is left behind, also when fast threads are
\* already in the next one.
THEOREM NoSleeperLeftBehind == BarrierSpec => []SleepersAreWaiting
<1>1. BarrierInit => SleepersAreWaiting
  BY DEF BarrierInit, SleepersAreWaiting
<1>2. BarrierInv /\ BarrierInv' /\ SleepersAreWaiting /\ [BarrierNext]_barrierVars
        => SleepersAreWaiting'
  BY SleepersStep
<1> QED
  BY <1>1, <1>2, BarrierInvariance, PTL DEF BarrierSpec

-----------------------------------------------------------------------------
(* The condition variable *)

\* How many notifications lead from ticket a to ticket b, if fewer than Modulus
Distance(a, b) == IF a <= b THEN b - a ELSE b + Modulus - a

\* Notifiers that have not moved ticket_ yet, and those that have
Unannounced == {t \in Notifiers : pc[t] \in {"unlock", "bumpIn", "bumpOut"}}
Announced == {t \in Notifiers : pc[t] \in {"wakeIn", "wakeOut", "unlockLast", "end"}}

\* Waiters that hold a value of ticket_
Loaded == {t \in Waiters : pc[t] \in {"unlock", "wait", "blocked"}}

PcsApart ==
    /\ \A t \in Waiters : pc[t] \in {"lock", "test", "load", "unlock", "wait", "blocked",
                                     "relock", "unlockLast", "end"}
    /\ \A t \in Notifiers : pc[t] \in {"lock", "add", "bumpIn", "wakeIn", "unlockLast",
                                       "unlock", "bumpOut", "wakeOut", "end"}

\* Who has the mutex; items is only touched under it
HolderKnown ==
    /\ \A t \in Threads : pc[t] \in {"test", "load", "unlock", "add", "bumpIn", "wakeIn",
                                     "unlockLast"} => mutex = t
    /\ \A t \in Waiters : pc[t] = "load" => items = 0

\* ticket_ does not come round to the value that a waiter holds
NoWrap == \A t \in Loaded : Distance(seen[t], ticket) <= Cardinality(Announced)

\* What came after a waiter has loaded the present ticket_ is still unannounced
FreshTicket == \A t \in Loaded : seen[t] = ticket => items <= Cardinality(Unannounced)

CondVarInv == /\ TypeOK /\ PcsApart /\ HolderKnown
              /\ NoWrap /\ FreshTicket /\ NoLostNotification

\* Sets of threads are counted.
LEMMA CountThreads ==
  \A S \in SUBSET Threads :
    /\ IsFiniteSet(S) /\ Cardinality(S) \in Nat
    /\ \A t \in Threads \ S : Cardinality(S \cup {t}) = Cardinality(S) + 1
    /\ \A t \in S : Cardinality(S \ {t}) = Cardinality(S) - 1
    /\ \A T \in SUBSET S : Cardinality(T) <= Cardinality(S)
<1>1. IsFiniteSet(Threads)
  BY FS_Union, CondVarAssumption DEF Threads
<1>2. ASSUME NEW S \in SUBSET Threads PROVE IsFiniteSet(S) /\ Cardinality(S) \in Nat
  BY <1>1, FS_Subset, FS_CardinalityType
<1> QED
  BY <1>2, FS_AddElement, FS_RemoveElement, FS_Subset

\* The sets that are counted are sets of threads.
LEMMA CountedSets ==
  /\ Unannounced \subseteq Threads /\ Announced \subseteq Threads
  /\ Awake \subseteq Threads /\ Notifying \subseteq Threads
  BY DEF Unannounced, Announced, Awake, Notifying, Threads

\* One notification more: the distance grows by one, as long as ticket_ does
\* not come round.
LEMMA TicketMoves ==
  ASSUME NEW a \in 0..(Modulus - 1), NEW b \in 0..(Modulus - 1),
         Distance(a, b) < Modulus - 1
  PROVE  /\ (b + 1) % Modulus \in 0..(Modulus - 1)
         /\ Distance(a, (b + 1) % Modulus) = Distance(a, b) + 1
         /\ a # (b + 1) % Modulus
<1>1. Modulus \in Nat
  BY CondVarAssumption
<1>2. (b + 1) % Modulus = IF b + 1 = Modulus THEN 0 ELSE b + 1
  BY <1>1
<1> QED
  BY <1>1, <1>2 DEF Distance

\* No thread has begun, whatever ticket_ is.
LEMMA CondVarInit0 == Init => CondVarInv
<1> SUFFICES ASSUME Init PROVE CondVarInv
  OBVIOUS
<1>1. TypeOK /\ PcsApart /\ HolderKnown
  BY CondVarAssumption DEF Init, TypeOK, PCs, PcsApart, HolderKnown, Threads
<1>2. Loaded = {} /\ Blocked = {}
  BY DEF Init, Loaded, Blocked, Threads
<1> QED
  BY <1>1, <1>2 DEF CondVarInv, NoWrap, FreshTicket, NoLostNotification

\* Control points, the mutex and the ticket after a step.
LEMMA CondVarTypes ==
  ASSUME TypeOK, PcsApart, HolderKnown, Next PROVE TypeOK' /\ PcsApart' /\ HolderKnown'
<1> USE CondVarAssumption DEF TypeOK, PcsApart, HolderKnown, Threads, PCs, Goto
<1>1. ASSUME NEW t \in Waiters, WaiterLocks(t) \/ WaitRelock(t) \/ WaitUnlock(t) \/ WaiterLeaves(t)
      PROVE  TypeOK' /\ PcsApart' /\ HolderKnown'
  BY <1>1 DEF WaiterLocks, WaitRelock, WaitUnlock, WaiterLeaves, Acquire, Release
<1>2. ASSUME NEW t \in Waiters, WaiterTests(t) PROVE TypeOK' /\ PcsApart' /\ HolderKnown'
  BY <1>2 DEF WaiterTests
<1>3. ASSUME NEW t \in Waiters, WaitLoad(t) \/ WaitBlocks(t)
      PROVE  TypeOK' /\ PcsApart' /\ HolderKnown'
  BY <1>3 DEF WaitLoad, WaitBlocks
<1>4. ASSUME NEW t \in Notifiers, NotifierLocks(t) \/ NotifierUnlocks(t) \/ NotifierLeaves(t)
      PROVE  TypeOK' /\ PcsApart' /\ HolderKnown'
  BY <1>4 DEF NotifierLocks, NotifierUnlocks, NotifierLeaves, Acquire, Release
<1>5. ASSUME NEW t \in Notifiers, NotifierAdds(t) PROVE TypeOK' /\ PcsApart' /\ HolderKnown'
  <2>1. \A w \in Waiters : pc[w] # "load"
    BY <1>5 DEF NotifierAdds
  <2> QED
    BY <1>5, <2>1 DEF NotifierAdds
<1>6. ASSUME NEW t \in Notifiers, NotifyBump(t) PROVE TypeOK' /\ PcsApart' /\ HolderKnown'
  <2>1. (ticket + 1) % Modulus \in 0..(Modulus - 1)
    OBVIOUS
  <2> QED
    BY <1>6, <2>1 DEF NotifyBump, NextPc
<1>7. ASSUME NEW t \in Notifiers, NotifyWake(t) PROVE TypeOK' /\ PcsApart' /\ HolderKnown'
  <2>1. PICK W \in {{w} : w \in Eligible} \cup {Eligible} :
          pc' = [u \in Threads |-> IF u = t THEN NextPc(pc[t])
                                   ELSE IF u \in W THEN "wait" ELSE pc[u]]
    BY <1>7 DEF NotifyWake
  <2>2. W \subseteq Waiters
    BY DEF Eligible, Blocked
  <2> QED
    BY <1>7, <2>1, <2>2 DEF NotifyWake, NextPc
<1>8. ASSUME Finished PROVE TypeOK' /\ PcsApart' /\ HolderKnown'
  BY <1>8 DEF Finished, vars
<1> QED
  BY <1>1, <1>2, <1>3, <1>4, <1>5, <1>6, <1>7, <1>8 DEF Next, Waiter, Notifier

\* A waiter's step leaves the sets of notifiers alone.
LEMMA NotifiersStand ==
  ASSUME TypeOK, NEW t \in Waiters, NEW q, pc' = [pc EXCEPT ![t] = q]
  PROVE  /\ Unannounced' = Unannounced /\ Announced' = Announced
         /\ Notifying' = Notifying
         /\ \A u \in Waiters : u # t => pc'[u] = pc[u]
         /\ pc'[t] = q
  BY CondVarAssumption DEF TypeOK, Threads, Unannounced, Announced, Notifying

\* The waiter takes or gives back the mutex: nobody's sleep is touched.
LEMMA WaiterMutexInv ==
  ASSUME CondVarInv, NEW t \in Waiters,
         WaiterLocks(t) \/ WaitRelock(t) \/ WaitUnlock(t) \/ WaiterLeaves(t)
  PROVE  NoWrap' /\ FreshTicket' /\ NoLostNotification'
<1> USE DEF WaiterLocks, WaitRelock, WaitUnlock, WaiterLeaves, Acquire, Release, Goto
<1>1. UNCHANGED <<ticket, items, seen>>
  OBVIOUS
<1>2. /\ Unannounced' = Unannounced /\ Announced' = Announced /\ Notifying' = Notifying
      /\ \A u \in Waiters : u # t => pc'[u] = pc[u]
  BY NotifiersStand DEF CondVarInv
<1>3. /\ \/ pc[t] \in {"lock", "relock"} /\ pc'[t] = "test"
         \/ pc[t] = "unlock" /\ pc'[t] = "wait"
         \/ pc[t] = "unlockLast" /\ pc'[t] = "end"
  BY DEF CondVarInv, TypeOK, Threads
<1>4. Loaded' = Loaded /\ Blocked' = Blocked /\ Awake \subseteq Awake' /\ Awake' \subseteq Threads
  BY <1>1, <1>2, <1>3 DEF Loaded, Blocked, Awake, Threads
<1>5. NoWrap' /\ FreshTicket'
  BY <1>1, <1>2, <1>4 DEF CondVarInv, NoWrap, FreshTicket
<1>6. Cardinality(Awake) <= Cardinality(Awake') /\ Cardinality(Awake) \in Nat
      /\ Cardinality(Awake') \in Nat /\ Cardinality(Notifying) \in Nat
  BY <1>4, CountThreads, CountedSets
<1>7. NoLostNotification'
  BY <1>1, <1>2, <1>4, <1>6 DEF CondVarInv, TypeOK, NoLostNotification
<1> QED
  BY <1>5, <1>7

\* The waiter finds nothing, or takes an item and is no longer awake.
LEMMA WaiterTestsInv ==
  ASSUME CondVarInv, NEW t \in Waiters, WaiterTests(t)
  PROVE  NoWrap' /\ FreshTicket' /\ NoLostNotification'
<1> USE DEF WaiterTests, Goto
<1>1. /\ UNCHANGED <<ticket, seen>> /\ items \in Nat /\ items' \in Nat
      /\ items' <= items /\ (items' = 0 \/ items' = items - 1)
      /\ pc[t] = "test" /\ pc'[t] \in {"load", "unlockLast"}
  BY DEF CondVarInv, TypeOK, Threads
<1>2. /\ Unannounced' = Unannounced /\ Announced' = Announced /\ Notifying' = Notifying
      /\ \A u \in Waiters : u # t => pc'[u] = pc[u]
  BY NotifiersStand DEF CondVarInv
<1>3. Loaded' = Loaded /\ Blocked' = Blocked /\ Awake' = Awake \ {t} /\ t \in Awake
  BY <1>1, <1>2 DEF Loaded, Blocked, Awake
<1>4. /\ Cardinality(Awake') = Cardinality(Awake) - 1 /\ Cardinality(Awake) \in Nat
      /\ Cardinality(Awake') \in Nat /\ Cardinality(Notifying) \in Nat
      /\ Cardinality(Unannounced) \in Nat
  <2>1. /\ Awake \ {t} \in SUBSET Threads /\ Awake \in SUBSET Threads
        /\ Notifying \in SUBSET Threads /\ Unannounced \in SUBSET Threads
    BY CountedSets
  <2> QED
    BY <1>3, <2>1, CountThreads
<1>5. NoWrap' /\ FreshTicket'
  BY <1>1, <1>2, <1>3, <1>4 DEF CondVarInv, NoWrap, FreshTicket
<1>6. NoLostNotification'
  BY <1>1, <1>2, <1>3, <1>4 DEF CondVarInv, NoLostNotification
<1> QED
  BY <1>5, <1>6

\* The waiter holds the present ticket while there is no item.
LEMMA WaitLoadInv ==
  ASSUME CondVarInv, NEW t \in Waiters, WaitLoad(t)
  PROVE  NoWrap' /\ FreshTicket' /\ NoLostNotification'
<1> USE DEF WaitLoad, Goto
<1>1. UNCHANGED <<ticket, items>> /\ items = 0 /\ seen'[t] = ticket
      /\ \A u \in Waiters : u # t => seen'[u] = seen[u]
  BY DEF CondVarInv, TypeOK, HolderKnown
<1>2. Unannounced' = Unannounced /\ Announced' = Announced /\ Notifying' = Notifying
      /\ \A u \in Waiters : u # t => pc'[u] = pc[u]
  BY NotifiersStand DEF CondVarInv
<1>3. \A u \in Loaded' : u = t \/ u \in Loaded
  BY <1>2 DEF Loaded
<1>4. /\ Cardinality(Announced) \in Nat /\ Cardinality(Unannounced) \in Nat
      /\ Cardinality(Awake') \in Nat /\ Cardinality(Notifying) \in Nat
  <2>1. Awake' \in SUBSET Threads
    BY DEF Awake, Threads
  <2> QED
    BY <2>1, CountThreads, CountedSets
<1>5. Distance(ticket, ticket) = 0
  BY DEF Distance, CondVarInv, TypeOK
<1>6. NoWrap'
  <2> SUFFICES ASSUME NEW u \in Loaded' PROVE Distance(seen'[u], ticket') <= Cardinality(Announced')
    BY DEF NoWrap
  <2>1. CASE u = t
    BY <2>1, <1>1, <1>2, <1>4, <1>5
  <2>2. CASE u # t
    BY <2>2, <1>1, <1>2, <1>3 DEF CondVarInv, NoWrap, Loaded
  <2> QED
    BY <2>1, <2>2
<1>7. FreshTicket' /\ NoLostNotification'
  BY <1>1, <1>2, <1>4 DEF FreshTicket, NoLostNotification
<1> QED
  BY <1>6, <1>7

\* The waiter sleeps only on the present ticket: then every item is unannounced.
LEMMA WaitBlocksInv ==
  ASSUME CondVarInv, NEW t \in Waiters, WaitBlocks(t)
  PROVE  NoWrap' /\ FreshTicket' /\ NoLostNotification'
<1> USE DEF WaitBlocks, Goto
<1>1. /\ UNCHANGED <<ticket, items, seen>> /\ items \in Nat /\ pc[t] = "wait"
      /\ pc'[t] = IF ticket = seen[t] THEN "blocked" ELSE "relock"
  BY DEF CondVarInv, TypeOK, Threads
<1>2. /\ Unannounced' = Unannounced /\ Announced' = Announced /\ Notifying' = Notifying
      /\ \A u \in Waiters : u # t => pc'[u] = pc[u]
  BY NotifiersStand DEF CondVarInv
<1>3. Loaded' \subseteq Loaded /\ t \in Loaded /\ Awake' = Awake
  BY <1>1, <1>2 DEF Loaded, Awake
<1>4. NoWrap' /\ FreshTicket'
  BY <1>1, <1>2, <1>3 DEF CondVarInv, NoWrap, FreshTicket
<1>5. /\ Cardinality(Unannounced) <= Cardinality(Notifying)
      /\ Cardinality(Unannounced) \in Nat /\ Cardinality(Notifying) \in Nat
      /\ Cardinality(Awake) \in Nat
  <2>1. Unannounced \in SUBSET Notifying
    BY DEF Unannounced, Notifying
  <2> QED
    BY <2>1, CountThreads, CountedSets
<1>6. NoLostNotification'
  <2>1. CASE ticket = seen[t]
    BY <2>1, <1>1, <1>2, <1>3, <1>5 DEF CondVarInv, FreshTicket, NoLostNotification
  <2>2. CASE ticket # seen[t]
    <3>1. Blocked' = Blocked
      BY <2>2, <1>1, <1>2 DEF Blocked
    <3> QED
      BY <3>1, <1>1, <1>2, <1>3 DEF CondVarInv, NoLostNotification
  <2> QED
    BY <2>1, <2>2
<1> QED
  BY <1>4, <1>6

\* A notifier's step leaves the waiters where they are, unless it wakes some.
LEMMA WaitersStand ==
  ASSUME TypeOK, NEW t \in Notifiers, NEW q, pc' = [pc EXCEPT ![t] = q]
  PROVE  /\ Loaded' = Loaded /\ Blocked' = Blocked
         /\ \A u \in Waiters : pc'[u] = pc[u]
         /\ \A u \in Notifiers : u # t => pc'[u] = pc[u]
         /\ pc'[t] = q
  BY CondVarAssumption DEF TypeOK, Threads, Loaded, Blocked

\* The notifier takes or gives back the mutex.
LEMMA NotifierMutexInv ==
  ASSUME CondVarInv, NEW t \in Notifiers,
         NotifierLocks(t) \/ NotifierUnlocks(t) \/ NotifierLeaves(t)
  PROVE  NoWrap' /\ FreshTicket' /\ NoLostNotification'
<1> USE DEF NotifierLocks, NotifierUnlocks, NotifierLeaves, Acquire, Release, Goto
<1>1. UNCHANGED <<ticket, items, seen>>
  OBVIOUS
<1>2. /\ Loaded' = Loaded /\ Blocked' = Blocked
      /\ \A u \in Waiters : pc'[u] = pc[u]
      /\ \A u \in Notifiers : u # t => pc'[u] = pc[u]
  BY WaitersStand DEF CondVarInv
<1>3. \/ pc[t] = "lock" /\ pc'[t] = "add"
      \/ pc[t] = "unlock" /\ pc'[t] = "bumpOut"
      \/ pc[t] = "unlockLast" /\ pc'[t] = "end"
  BY WaitersStand DEF CondVarInv
<1>4. /\ Unannounced' = Unannounced /\ Announced' = Announced
      /\ Notifying' = Notifying /\ Awake' = Awake
  BY <1>1, <1>2, <1>3 DEF Unannounced, Announced, Notifying, Awake
<1> QED
  BY <1>1, <1>2, <1>4 DEF CondVarInv, NoWrap, FreshTicket, NoLostNotification

\* The new item has a notifier that is still to announce it.
LEMMA NotifierAddsInv ==
  ASSUME CondVarInv, NEW t \in Notifiers, NotifierAdds(t)
  PROVE  NoWrap' /\ FreshTicket' /\ NoLostNotification'
<1> USE DEF NotifierAdds, Goto
<1>1. UNCHANGED <<ticket, seen>> /\ items' = items + 1 /\ items \in Nat
  BY DEF CondVarInv, TypeOK
<1>2. /\ Loaded' = Loaded /\ Blocked' = Blocked
      /\ \A u \in Waiters : pc'[u] = pc[u]
      /\ \A u \in Notifiers : u # t => pc'[u] = pc[u]
      /\ pc[t] = "add" /\ pc'[t] \in {"bumpIn", "unlock"}
  BY WaitersStand DEF CondVarInv
<1>3. /\ Unannounced' = Unannounced \cup {t} /\ Announced' = Announced
      /\ Notifying' = Notifying \cup {t} /\ Awake' = Awake
      /\ t \in Threads \ Unannounced /\ t \in Threads \ Notifying
  BY <1>1, <1>2 DEF Unannounced, Announced, Notifying, Awake, Threads
<1>4. /\ Cardinality(Unannounced') = Cardinality(Unannounced) + 1
      /\ Cardinality(Notifying') = Cardinality(Notifying) + 1
      /\ Cardinality(Unannounced) \in Nat /\ Cardinality(Notifying) \in Nat
      /\ Cardinality(Awake) \in Nat
  BY <1>3, CountThreads, CountedSets
<1> QED
  BY <1>1, <1>2, <1>3, <1>4 DEF CondVarInv, NoWrap, FreshTicket, NoLostNotification

\* ticket_ moves on, away from everything a waiter holds.
LEMMA NotifyBumpInv ==
  ASSUME CondVarInv, NEW t \in Notifiers, NotifyBump(t)
  PROVE  NoWrap' /\ FreshTicket' /\ NoLostNotification'
<1>1. /\ UNCHANGED <<seen, items>> /\ items \in Nat /\ ticket' = (ticket + 1) % Modulus
      /\ ticket \in 0..(Modulus - 1) /\ seen \in [Waiters -> 0..(Modulus - 1)]
  BY DEF CondVarInv, TypeOK, NotifyBump
<1>2. /\ Loaded' = Loaded /\ Blocked' = Blocked
      /\ \A u \in Waiters : pc'[u] = pc[u]
      /\ \A u \in Notifiers : u # t => pc'[u] = pc[u]
      /\ pc'[t] = NextPc(pc[t])
  BY WaitersStand DEF CondVarInv, NotifyBump, TypeOK, Threads
<1>3. pc[t] \in {"bumpIn", "bumpOut"} /\ pc'[t] \in {"wakeIn", "wakeOut"}
  BY <1>2 DEF NotifyBump, NextPc
<1>4. /\ Announced' = Announced \cup {t} /\ t \in Threads \ Announced
      /\ Announced \cup {t} \in SUBSET Notifiers /\ Notifying' = Notifying
  BY <1>2, <1>3 DEF Announced, Notifying, Threads
<1>5. /\ Cardinality(Announced') = Cardinality(Announced) + 1
      /\ Cardinality(Announced) \in Nat /\ Cardinality(Announced') < Modulus
      /\ Modulus \in Nat
  <2>1. /\ Cardinality(Announced') = Cardinality(Announced) + 1
        /\ Cardinality(Announced) \in Nat
    BY <1>4, CountThreads, CountedSets
  <2>2. Cardinality(Announced') <= Cardinality(Notifiers) /\ Cardinality(Notifiers) \in Nat
    BY <1>4, FS_Subset, FS_CardinalityType, CondVarAssumption
  <2> QED
    BY <2>1, <2>2, CondVarAssumption
<1>6. ASSUME NEW u \in Loaded
      PROVE  Distance(seen[u], ticket') <= Cardinality(Announced') /\ seen[u] # ticket'
  <2>1. seen[u] \in 0..(Modulus - 1)
    BY <1>1 DEF Loaded
  <2>2. Distance(seen[u], ticket) <= Cardinality(Announced)
    BY DEF CondVarInv, NoWrap
  <2>3. Distance(seen[u], ticket) \in Int
    BY <1>1, <1>5, <2>1 DEF Distance
  <2>4. Distance(seen[u], ticket) < Modulus - 1
    BY <1>5, <2>2, <2>3
  <2> QED
    BY <1>1, <1>5, <2>1, <2>2, <2>3, <2>4, TicketMoves
<1>7. NoWrap' /\ FreshTicket'
  BY <1>1, <1>2, <1>6 DEF NoWrap, FreshTicket
<1>8. Awake \subseteq Awake' /\ Awake' \subseteq Threads
  BY <1>1, <1>2, <1>6 DEF Awake, Loaded, Threads
<1>9. /\ Cardinality(Awake) <= Cardinality(Awake') /\ Cardinality(Awake) \in Nat
      /\ Cardinality(Awake') \in Nat /\ Cardinality(Notifying) \in Nat
  BY <1>8, CountThreads, CountedSets
<1>10. NoLostNotification'
  BY <1>1, <1>2, <1>4, <1>9 DEF CondVarInv, NoLostNotification
<1> QED
  BY <1>7, <1>10

\* A notification wakes a sleeper, or there is none that it must wake: the
\* sleepers hold the present ticket, and every item is unannounced.
LEMMA NotifyWakeInv ==
  ASSUME CondVarInv, NEW t \in Notifiers, NotifyWake(t)
  PROVE  NoWrap' /\ FreshTicket' /\ NoLostNotification'
<1>1. PICK W \in {{w} : w \in Eligible} \cup {Eligible} :
        pc' = [u \in Threads |-> IF u = t THEN NextPc(pc[t])
                                 ELSE IF u \in W THEN "wait" ELSE pc[u]]
  BY DEF NotifyWake
<1>2. /\ W \subseteq Eligible /\ W \subseteq Waiters /\ t \notin Waiters
      /\ Waiters \subseteq Threads /\ Notifiers \subseteq Threads
      /\ (W = {} => Eligible = {})
  BY CondVarAssumption DEF Eligible, Blocked, Threads
<1>3. UNCHANGED <<ticket, items, seen>> /\ items \in Nat
  BY DEF NotifyWake, CondVarInv, TypeOK
<1>4. /\ \A u \in Waiters \ W : pc'[u] = pc[u]
      /\ \A u \in W : pc[u] = "blocked" /\ seen[u] # ticket /\ pc'[u] = "wait"
  BY <1>1, <1>2 DEF Eligible, Blocked
<1>5. \A u \in Notifiers : u # t => pc'[u] = pc[u]
  <2> SUFFICES ASSUME NEW u \in Notifiers, u # t PROVE pc'[u] = pc[u]
    OBVIOUS
  <2>1. u \notin W
    BY <1>2, CondVarAssumption
  <2> QED
    BY <1>1, <1>2, <2>1
<1>6. pc[t] \in {"wakeIn", "wakeOut"} /\ pc'[t] \in {"unlockLast", "end"}
  <2>1. pc'[t] = NextPc(pc[t])
    BY <1>1, <1>2
  <2> QED
    BY <2>1 DEF NotifyWake, NextPc
<1>7. /\ Loaded' = Loaded /\ Unannounced' = Unannounced /\ Announced' = Announced
      /\ Notifying' = Notifying \ {t} /\ t \in Notifying
      /\ Unannounced \subseteq Notifying \ {t}
  <2>1. Loaded' = Loaded
    BY <1>2, <1>4 DEF Loaded
  <2>2. Unannounced' = Unannounced /\ Announced' = Announced
    BY <1>5, <1>6 DEF Unannounced, Announced
  <2>3. /\ Notifying' = Notifying \ {t} /\ t \in Notifying
        /\ Unannounced \subseteq Notifying \ {t}
    BY <1>5, <1>6 DEF Unannounced, Notifying
  <2> QED
    BY <2>1, <2>2, <2>3
<1>8. NoWrap' /\ FreshTicket'
  BY <1>3, <1>7 DEF CondVarInv, NoWrap, FreshTicket
<1>9. /\ Cardinality(Notifying') = Cardinality(Notifying) - 1
      /\ Cardinality(Notifying) \in Nat /\ Cardinality(Notifying') \in Nat
      /\ Cardinality(Awake) \in Nat /\ Cardinality(Awake') \in Nat
      /\ Cardinality(Unannounced) <= Cardinality(Notifying') /\ Cardinality(Unannounced) \in Nat
  <2>1. /\ Notifying \ {t} \in SUBSET Threads /\ Notifying \in SUBSET Threads
        /\ Awake \in SUBSET Threads /\ Awake' \in SUBSET Threads
        /\ Unannounced \in SUBSET Threads
    BY CountedSets DEF Awake, Threads
  <2> QED
    BY <1>7, <2>1, CountThreads
<1>10. NoLostNotification'
  <2>1. CASE W = {}
    <3> SUFFICES ASSUME Blocked' # {} PROVE items <= Cardinality(Unannounced)
      BY <1>3, <1>9 DEF NoLostNotification
    <3>1. PICK u \in Waiters : pc'[u] = "blocked"
      BY DEF Blocked
    <3>2. u \in Loaded /\ seen[u] = ticket
      BY <2>1, <3>1, <1>2, <1>4 DEF Loaded, Eligible, Blocked
    <3> QED
      BY <3>2 DEF CondVarInv, FreshTicket
  <2>2. CASE W # {}
    <3>1. PICK w \in W : TRUE
      BY <2>2
    <3>2. /\ Awake \cup {w} \subseteq Awake' /\ w \in Threads \ Awake
          /\ Blocked # {}
      BY <1>2, <1>3, <1>4, <3>1 DEF Awake, Blocked
    <3>3. Cardinality(Awake \cup {w}) = Cardinality(Awake) + 1
          /\ Cardinality(Awake \cup {w}) <= Cardinality(Awake')
      <4>1. Awake' \in SUBSET Threads /\ Awake \in SUBSET Threads
        BY CountedSets DEF Awake, Threads
      <4> QED
        BY <3>2, <4>1, CountThreads
    <3> QED
      BY <1>3, <1>9, <3>2, <3>3 DEF CondVarInv, NoLostNotification
  <2> QED
    BY <2>1, <2>2
<1> QED
  BY <1>8, <1>10

\* CondVarInv holds in every state.
THEOREM CondVarInvariance == Spec => []CondVarInv
<1>1. CondVarInv /\ [Next]_vars => CondVarInv'
  <2> SUFFICES ASSUME CondVarInv, [Next]_vars PROVE CondVarInv'
    OBVIOUS
  <2>1. ASSUME UNCHANGED vars PROVE CondVarInv'
    BY <2>1 DEF vars, CondVarInv, TypeOK, PcsApart, HolderKnown, NoWrap, FreshTicket,
       NoLostNotification, Loaded, Blocked, Awake, Notifying, Announced, Unannounced
  <2>2. ASSUME Next PROVE TypeOK' /\ PcsApart' /\ HolderKnown'
    BY <2>2, CondVarTypes DEF CondVarInv
  <2>3. ASSUME NEW t \in Waiters, Waiter(t)
        PROVE  NoWrap' /\ FreshTicket' /\ NoLostNotification'
    BY <2>3, WaiterMutexInv, WaiterTestsInv, WaitLoadInv, WaitBlocksInv DEF Waiter
  <2>4. ASSUME NEW t \in Notifiers, Notifier(t)
        PROVE  NoWrap' /\ FreshTicket' /\ NoLostNotification'
    BY <2>4, NotifierMutexInv, NotifierAddsInv, NotifyBumpInv, NotifyWakeInv DEF Notifier
  <2>5. ASSUME Finished PROVE CondVarInv'
    BY <2>1, <2>5 DEF Finished
  <2> QED
    BY <2>1, <2>2, <2>3, <2>4, <2>5 DEF CondVarInv, Next
<1> QED
  BY <1>1, CondVarInit0, PTL DEF Spec

\* Whenever a waiter sleeps, every item has an awake waiter or a pending
\* notification to answer for it: for any number of waiters and notifiers, as
\* long as there are fewer notifications than values of ticket_.
THEOREM NotificationsKept == Spec => []NoLostNotification
<1>1. CondVarInv => NoLostNotification
  BY DEF CondVarInv
<1> QED
  BY <1>1, CondVarInvariance, PTL
=============================================================================
