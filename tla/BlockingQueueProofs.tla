------------------------- MODULE BlockingQueueProofs ------------------------
(***************************************************************************)
(* Proofs about the bounded queue of three semaphores, for any number of   *)
(* producers and consumers, any capacity and any set of values.            *)
(***************************************************************************)
EXTENDS BlockingQueue, FiniteSetTheorems, TLAPS

-----------------------------------------------------------------------------
(* One semaphore: n permits, threads S asleep, threads W woken *)

PermitSeen(n, S, W) == /\ n \in Nat /\ S \subseteq Threads /\ W \subseteq Threads \ S
                       /\ S # {} => n <= Cardinality(W)

\* Sets of threads are counted.
LEMMA CountThreads ==
  \A S \in SUBSET Threads :
    /\ IsFiniteSet(S) /\ Cardinality(S) \in Nat
    /\ \A t \in Threads \ S : Cardinality(S \cup {t}) = Cardinality(S) + 1
    /\ \A t \in S : Cardinality(S \ {t}) = Cardinality(S) - 1
    /\ \A T \in SUBSET S : Cardinality(T) <= Cardinality(S)
<1>1. IsFiniteSet(Threads)
  BY FS_Union, QueueAssumption DEF Threads
<1>2. ASSUME NEW S \in SUBSET Threads PROVE IsFiniteSet(S) /\ Cardinality(S) \in Nat
  BY <1>1, FS_Subset, FS_CardinalityType
<1> QED
  BY <1>2, FS_AddElement, FS_RemoveElement, FS_Subset

\* Acquire takes a permit: at most one woken thread is used up with it.
LEMMA AcquireSeen ==
  ASSUME NEW n, NEW S, NEW W, NEW t, PermitSeen(n, S, W), n > 0
  PROVE  PermitSeen(n - 1, S, W \ {t})
<1>1. W \in SUBSET Threads /\ W \ {t} \in SUBSET Threads
  BY DEF PermitSeen
<1>2. /\ Cardinality(W) \in Nat /\ Cardinality(W \ {t}) \in Nat
      /\ Cardinality(W) - 1 <= Cardinality(W \ {t})
  <2>1. CASE t \in W
    BY <1>1, <2>1, CountThreads
  <2>2. CASE t \notin W
    <3>1. W \ {t} = W
      BY <2>2
    <3> QED
      BY <1>1, <3>1, CountThreads
  <2> QED
    BY <2>1, <2>2
<1> QED
  BY <1>1, <1>2 DEF PermitSeen

\* Acquire goes to sleep only if there is no permit.
LEMMA BlocksSeen ==
  ASSUME NEW n, NEW S, NEW W, NEW t \in Threads, PermitSeen(n, S, W), n = 0
  PROVE  PermitSeen(n, S \cup {t}, W \ {t})
<1>1. W \ {t} \in SUBSET Threads
  BY DEF PermitSeen
<1>2. Cardinality(W \ {t}) \in Nat
  BY <1>1, CountThreads
<1> QED
  BY <1>1, <1>2 DEF PermitSeen

\* A wakeup, with a new permit or spurious, adds a woken thread.
LEMMA WakeSeen ==
  ASSUME NEW n, NEW S, NEW W, NEW t \in S, PermitSeen(n, S, W)
  PROVE  /\ PermitSeen(n + 1, S \ {t}, W \cup {t})
         /\ PermitSeen(n, S \ {t}, W \cup {t})
<1>1. W \in SUBSET Threads /\ t \in Threads \ W
  BY DEF PermitSeen
<1>2. Cardinality(W) \in Nat /\ Cardinality(W \cup {t}) = Cardinality(W) + 1
  BY <1>1, CountThreads
<1> QED
  BY <1>1, <1>2 DEF PermitSeen

\* Release, whether or not somebody sleeps.
LEMMA ReleaseSeen ==
  ASSUME NEW n, NEW S, NEW W, NEW m, NEW T, NEW V, PermitSeen(n, S, W), m = n + 1,
         \/ S = {} /\ T = S /\ V = W
         \/ \E t \in S : T = S \ {t} /\ V = W \cup {t}
  PROVE  PermitSeen(m, T, V)
<1>1. ASSUME S = {} /\ T = S /\ V = W PROVE PermitSeen(m, T, V)
  BY <1>1 DEF PermitSeen
<1>2. ASSUME NEW t \in S, T = S \ {t} /\ V = W \cup {t} PROVE PermitSeen(m, T, V)
  BY <1>2, WakeSeen
<1> QED
  BY <1>1, <1>2

-----------------------------------------------------------------------------
(* The queue *)

TopSeen == PermitSeen(topNumber, topSleeping, topWoken)
BottomSeen == PermitSeen(bottomNumber, bottomSleeping, bottomWoken)
LockSeen == PermitSeen(lockNumber, lockSleeping, lockWoken)

\* A producer has a value in hand until it has pushed it
ValueInHand == \A t \in Producers : pc[t] \in {"tokens", "lock", "access"} => val[t] \in Values

QueueTypeOK == /\ pc \in [Threads -> PCs]
               /\ val \in [Producers -> Values \cup {NoValue}]
               /\ buffer \in Seq(Values)
               /\ returned \in Values \cup {NoValue}

\* The counts of PermitsAddUp, and its first three conjuncts
Inside == At({"lock", "access", "unlock", "signal"}, Threads)
Pushed == At({"unlock", "signal"}, Producers)
Promised == At({"lock", "access"}, Consumers)
Holding == At({"access", "unlock"}, Threads)

PlacesAddUp == /\ topNumber + bottomNumber + Inside = capacity
               /\ Len(buffer) = bottomNumber + Pushed + Promised
               /\ lockNumber + Holding = 1

QueueInv == /\ TopSeen /\ BottomSeen /\ LockSeen
            /\ QueueTypeOK /\ ValueInHand /\ PlacesAddUp

\* How a count changes when thread t moves to point q
CountMoves(t, q, points, group) ==
    /\ At(points, group) \in Nat
    /\ t \in group /\ pc[t] \notin points /\ q \in points =>
         At(points, group)' = At(points, group) + 1
    /\ t \in group /\ pc[t] \in points /\ q \notin points =>
         At(points, group)' = At(points, group) - 1
    /\ t \notin group \/ (pc[t] \in points <=> q \in points) =>
         At(points, group)' = At(points, group)

\* Counts follow the threads.
LEMMA AtMoves ==
  ASSUME pc \in [Threads -> PCs], NEW t \in Threads, NEW q, pc' = [pc EXCEPT ![t] = q]
  PROVE  \A points : \A group \in SUBSET Threads : CountMoves(t, q, points, group)
<1> SUFFICES ASSUME NEW points, NEW group \in SUBSET Threads
             PROVE  CountMoves(t, q, points, group)
  OBVIOUS
<1> DEFINE A == {u \in group : pc[u] \in points}
           B == {u \in group : pc'[u] \in points}
<1>1. A \in SUBSET Threads /\ B \in SUBSET Threads
  OBVIOUS
<1>2. \A u \in Threads : pc'[u] = IF u = t THEN q ELSE pc[u]
  OBVIOUS
<1>3. At(points, group) = Cardinality(A) /\ At(points, group)' = Cardinality(B)
  BY DEF At
<1>4. ASSUME t \in group, pc[t] \notin points, q \in points
      PROVE  B = A \cup {t} /\ t \in Threads \ A
  BY <1>2, <1>4
<1>5. ASSUME t \in group, pc[t] \in points, q \notin points
      PROVE  B = A \ {t} /\ t \in A
  BY <1>2, <1>5
<1>6. ASSUME t \notin group \/ (pc[t] \in points <=> q \in points) PROVE B = A
  BY <1>2, <1>6
<1>7. Cardinality(A) \in Nat
  BY <1>1, CountThreads
<1> HIDE DEF A, B
<1>8. t \in group /\ pc[t] \notin points /\ q \in points => Cardinality(B) = Cardinality(A) + 1
  BY <1>1, <1>4, CountThreads
<1>9. t \in group /\ pc[t] \in points /\ q \notin points => Cardinality(B) = Cardinality(A) - 1
  BY <1>1, <1>5, CountThreads
<1> QED
  BY <1>3, <1>6, <1>7, <1>8, <1>9 DEF CountMoves

\* The queue is made with all its places free.
LEMMA QueueInit0 == Init => QueueInv
<1> SUFFICES ASSUME Init PROVE QueueInv
  OBVIOUS
<1>1. \A points, group : group \in SUBSET Threads /\ "idle" \notin points => At(points, group) = 0
  <2> SUFFICES ASSUME NEW points, NEW group \in SUBSET Threads, "idle" \notin points
               PROVE  At(points, group) = 0
    OBVIOUS
  <2>1. {t \in group : pc[t] \in points} = {}
    BY DEF Init
  <2> QED
    BY <2>1, FS_EmptySet DEF At
<1>2. TopSeen /\ BottomSeen /\ LockSeen
  BY QueueAssumption
  DEF Init, Top!Init, Bottom!Init, Lock!Init, TopSeen, BottomSeen, LockSeen, PermitSeen
<1>3. QueueTypeOK /\ ValueInHand
  BY DEF Init, QueueTypeOK, ValueInHand, PCs, Threads
<1>4. Inside = 0 /\ Pushed = 0 /\ Promised = 0 /\ Holding = 0
  BY <1>1 DEF Threads, Inside, Pushed, Promised, Holding
<1>5. PlacesAddUp
  BY <1>4, QueueAssumption DEF Init, Top!Init, Bottom!Init, Lock!Init, PlacesAddUp
<1> QED
  BY <1>2, <1>3, <1>5 DEF QueueInv

\* Producers and consumers are different threads.
LEMMA Groups ==
  /\ Producers \in SUBSET Threads /\ Consumers \in SUBSET Threads
  /\ Threads \in SUBSET Threads
  /\ \A t \in Producers : t \notin Consumers
  BY QueueAssumption DEF Threads

\* The counts are numbers, and each point of a call is counted where it is due.
LEMMA CountsMove ==
  ASSUME pc \in [Threads -> PCs], NEW t \in Threads, NEW q, pc' = [pc EXCEPT ![t] = q]
  PROVE  /\ Inside \in Nat /\ Pushed \in Nat /\ Promised \in Nat /\ Holding \in Nat
         /\ pc[t] = "idle" /\ q = "tokens" =>
              Inside' = Inside /\ Pushed' = Pushed /\ Promised' = Promised /\ Holding' = Holding
         /\ pc[t] = "tokens" /\ q = "lock" =>
              /\ Inside' = Inside + 1 /\ Pushed' = Pushed /\ Holding' = Holding
              /\ t \in Producers => Promised' = Promised
              /\ t \in Consumers => Promised' = Promised + 1
         /\ pc[t] = "lock" /\ q = "access" =>
              Inside' = Inside /\ Pushed' = Pushed /\ Promised' = Promised /\ Holding' = Holding + 1
         /\ pc[t] = "access" /\ q = "unlock" =>
              /\ Inside' = Inside /\ Holding' = Holding
              /\ t \in Producers => Pushed' = Pushed + 1 /\ Promised' = Promised
              /\ t \in Consumers => Pushed' = Pushed /\ Promised' = Promised - 1
         /\ pc[t] = "unlock" /\ q = "signal" =>
              Inside' = Inside /\ Pushed' = Pushed /\ Promised' = Promised /\ Holding' = Holding - 1
         /\ pc[t] = "signal" /\ q = "idle" =>
              /\ Inside' = Inside - 1 /\ Promised' = Promised /\ Holding' = Holding
              /\ t \in Producers => Pushed' = Pushed - 1
              /\ t \in Consumers => Pushed' = Pushed
<1> DEFINE in == {"lock", "access", "unlock", "signal"}
           us == {"unlock", "signal"}
           la == {"lock", "access"}
           au == {"access", "unlock"}
<1>1. \A points : \A group \in SUBSET Threads : CountMoves(t, q, points, group)
  BY AtMoves
<1>2. /\ CountMoves(t, q, in, Threads) /\ CountMoves(t, q, us, Producers)
      /\ CountMoves(t, q, la, Consumers) /\ CountMoves(t, q, au, Threads)
  BY <1>1, Groups
<1> QED
  BY <1>2, Groups DEF CountMoves, Inside, Pushed, Promised, Holding

\* A thread at the buffer: a producer finds room, a consumer finds an element.
LEMMA RoomAndElement ==
  ASSUME QueueInv, NEW t \in Threads, pc[t] = "access"
  PROVE  /\ t \in Producers => Len(buffer) < capacity
         /\ t \in Consumers => Len(buffer) > 0
<1> DEFINE I == {u \in Threads : pc[u] \in {"lock", "access", "unlock", "signal"}}
           P == {u \in Producers : pc[u] \in {"unlock", "signal"}}
           C == {u \in Consumers : pc[u] \in {"lock", "access"}}
<1>1. /\ Inside = Cardinality(I) /\ Pushed = Cardinality(P) /\ Promised = Cardinality(C)
      /\ I \in SUBSET Threads /\ P \in SUBSET Threads /\ C \in SUBSET Threads
      /\ IsFiniteSet(P) /\ IsFiniteSet(C)
  <2>1. I \in SUBSET Threads /\ P \in SUBSET Threads /\ C \in SUBSET Threads
    BY Groups
  <2> QED
    BY <2>1, CountThreads DEF Inside, Pushed, Promised, At
<1>2. P \cap C = {} /\ P \cup C \in SUBSET I /\ t \in I
  BY Groups
<1>3. t \in Producers => P \cup C \in SUBSET (I \ {t})
  BY Groups
<1>4. t \in Consumers => t \in C
  OBVIOUS
<1> HIDE DEF I, P, C
<1>5. Cardinality(P \cup C) = Cardinality(P) + Cardinality(C)
  <2>1. Cardinality(P \cap C) = 0
    BY <1>2, FS_EmptySet
  <2>2. Cardinality(P \cup C) = Cardinality(P) + Cardinality(C) - Cardinality(P \cap C)
    BY <1>1, FS_Union
  <2>3. Cardinality(P) \in Nat /\ Cardinality(C) \in Nat
    BY <1>1, CountThreads
  <2> QED
    BY <2>1, <2>2, <2>3
<1>6. /\ topNumber \in Nat /\ bottomNumber \in Nat /\ capacity \in Nat
      /\ topNumber + bottomNumber + Inside = capacity
      /\ Len(buffer) = bottomNumber + Pushed + Promised
  BY QueueAssumption
  DEF QueueInv, TopSeen, BottomSeen, PermitSeen, PlacesAddUp
<1>7. ASSUME t \in Producers PROVE Len(buffer) < capacity
  <2>1. I \ {t} \in SUBSET Threads /\ Cardinality(I \ {t}) = Cardinality(I) - 1
    BY <1>1, <1>2, CountThreads
  <2>2. Cardinality(P \cup C) <= Cardinality(I \ {t})
    BY <1>3, <1>7, <2>1, CountThreads
  <2>3. Cardinality(P) \in Nat /\ Cardinality(C) \in Nat /\ Cardinality(I) \in Nat
    BY <1>1, CountThreads
  <2> QED
    BY <1>1, <1>5, <1>6, <2>1, <2>2, <2>3
<1>8. ASSUME t \in Consumers PROVE Len(buffer) > 0
  <2>1. Cardinality(C \ {t}) = Cardinality(C) - 1 /\ C \ {t} \in SUBSET Threads
    BY <1>1, <1>4, <1>8, CountThreads
  <2>2. Cardinality(C \ {t}) \in Nat /\ Cardinality(P) \in Nat /\ Cardinality(C) \in Nat
    BY <1>1, <2>1, CountThreads
  <2> QED
    BY <1>1, <1>6, <2>1, <2>2
<1> QED
  BY <1>7, <1>8

-----------------------------------------------------------------------------
(* One lemma per action *)

\* A call begins: Put has its value in hand.
LEMMA CallInv ==
  ASSUME QueueInv, NEW t \in Threads, Call(t) PROVE QueueInv'
<1> USE DEF Call, PutCall, TakeCall, Goto
<1>1. /\ pc[t] = "idle" /\ pc' = [pc EXCEPT ![t] = "tokens"]
      /\ UNCHANGED <<buffer, top, bottom, lock, returned>>
  OBVIOUS
<1>2. QueueTypeOK' /\ ValueInHand'
  BY <1>1, Groups DEF QueueInv, QueueTypeOK, ValueInHand, PCs
<1>3. Inside' = Inside /\ Pushed' = Pushed /\ Promised' = Promised /\ Holding' = Holding
  BY <1>1, CountsMove DEF QueueInv, QueueTypeOK
<1> QED
  BY <1>1, <1>2, <1>3
  DEF QueueInv, PlacesAddUp, TopSeen, BottomSeen, LockSeen, top, bottom, lock

\* Put gets a place, or waits for one.
LEMMA PutTokensInv ==
  ASSUME QueueInv, NEW t \in Producers, PutTokens(t) PROVE QueueInv'
<1>1. t \in Threads /\ UNCHANGED <<buffer, bottom, lock, val, returned>>
  BY Groups DEF PutTokens
<1>2. ASSUME Top!Acquire(t), Goto(t, "tokens", "lock") PROVE QueueInv'
  <2> USE <1>2 DEF Top!Acquire, Goto
  <2>1. TopSeen' /\ topNumber \in Nat
    BY AcquireSeen DEF QueueInv, TopSeen, PermitSeen
  <2>2. QueueTypeOK' /\ ValueInHand'
    BY <1>1 DEF QueueInv, QueueTypeOK, ValueInHand, PCs
  <2>3. Inside' = Inside + 1 /\ Pushed' = Pushed /\ Promised' = Promised /\ Holding' = Holding
        /\ Inside \in Nat
    BY <1>1, CountsMove DEF QueueInv, QueueTypeOK
  <2>4. PlacesAddUp'
    BY <1>1, <2>1, <2>3 DEF QueueInv, PlacesAddUp, bottom, lock, BottomSeen, PermitSeen
  <2> QED
    BY <1>1, <2>1, <2>2, <2>4 DEF QueueInv, BottomSeen, LockSeen, bottom, lock
<1>3. ASSUME Top!AcquireBlocks(t), pc[t] = "tokens", UNCHANGED pc PROVE QueueInv'
  <2>1. TopSeen'
    BY <1>1, <1>3, BlocksSeen DEF QueueInv, TopSeen, Top!AcquireBlocks
  <2> QED
    BY <1>1, <1>3, <2>1 DEF QueueInv, QueueTypeOK, ValueInHand, PlacesAddUp, Inside, Pushed,
       Promised, Holding, At, BottomSeen, LockSeen, bottom, lock, Top!AcquireBlocks
<1> QED
  BY <1>2, <1>3 DEF PutTokens

\* Take is promised an element, or waits for one.
LEMMA TakeTokensInv ==
  ASSUME QueueInv, NEW t \in Consumers, TakeTokens(t) PROVE QueueInv'
<1>1. t \in Threads /\ UNCHANGED <<buffer, top, lock, val, returned>>
  BY Groups DEF TakeTokens
<1>2. ASSUME Bottom!Acquire(t), Goto(t, "tokens", "lock") PROVE QueueInv'
  <2> USE <1>2 DEF Bottom!Acquire, Goto
  <2>1. BottomSeen' /\ bottomNumber \in Nat
    BY AcquireSeen DEF QueueInv, BottomSeen, PermitSeen
  <2>2. QueueTypeOK' /\ ValueInHand'
    BY <1>1, Groups DEF QueueInv, QueueTypeOK, ValueInHand, PCs
  <2>3. /\ Inside' = Inside + 1 /\ Pushed' = Pushed /\ Promised' = Promised + 1
        /\ Holding' = Holding /\ Inside \in Nat /\ Pushed \in Nat /\ Promised \in Nat
    BY <1>1, CountsMove DEF QueueInv, QueueTypeOK
  <2>4. PlacesAddUp'
    BY <1>1, <2>1, <2>3 DEF QueueInv, PlacesAddUp, top, lock, TopSeen, PermitSeen
  <2> QED
    BY <1>1, <2>1, <2>2, <2>4 DEF QueueInv, TopSeen, LockSeen, top, lock
<1>3. ASSUME Bottom!AcquireBlocks(t), pc[t] = "tokens", UNCHANGED pc PROVE QueueInv'
  <2>1. BottomSeen'
    BY <1>1, <1>3, BlocksSeen DEF QueueInv, BottomSeen, Bottom!AcquireBlocks
  <2> QED
    BY <1>1, <1>3, <2>1 DEF QueueInv, QueueTypeOK, ValueInHand, PlacesAddUp, Inside, Pushed,
       Promised, Holding, At, TopSeen, LockSeen, top, lock, Bottom!AcquireBlocks
<1> QED
  BY <1>2, <1>3 DEF TakeTokens

\* The protector is taken by one thread at a time.
LEMMA ProtectInv ==
  ASSUME QueueInv, NEW t \in Threads, Protect(t) PROVE QueueInv'
<1>1. UNCHANGED <<buffer, top, bottom, val, returned>>
  BY DEF Protect
<1>2. ASSUME Lock!Acquire(t), Goto(t, "lock", "access") PROVE QueueInv'
  <2> USE <1>2 DEF Lock!Acquire, Goto
  <2>1. LockSeen' /\ lockNumber \in Nat
    BY AcquireSeen DEF QueueInv, LockSeen, PermitSeen
  <2>2. QueueTypeOK' /\ ValueInHand'
    BY <1>1 DEF QueueInv, QueueTypeOK, ValueInHand, PCs
  <2>3. /\ Inside' = Inside /\ Pushed' = Pushed /\ Promised' = Promised
        /\ Holding' = Holding + 1 /\ Holding \in Nat
    BY CountsMove DEF QueueInv, QueueTypeOK
  <2>4. PlacesAddUp'
    BY <1>1, <2>1, <2>3 DEF QueueInv, PlacesAddUp, top, bottom
  <2> QED
    BY <1>1, <2>1, <2>2, <2>4 DEF QueueInv, TopSeen, BottomSeen, top, bottom
<1>3. ASSUME Lock!AcquireBlocks(t), pc[t] = "lock", UNCHANGED pc PROVE QueueInv'
  <2>1. LockSeen'
    BY <1>3, BlocksSeen DEF QueueInv, LockSeen, Lock!AcquireBlocks
  <2> QED
    BY <1>1, <1>3, <2>1 DEF QueueInv, QueueTypeOK, ValueInHand, PlacesAddUp, Inside, Pushed,
       Promised, Holding, At, TopSeen, BottomSeen, top, bottom, Lock!AcquireBlocks
<1> QED
  BY <1>2, <1>3 DEF Protect

\* ... and given back.
LEMMA UnprotectInv ==
  ASSUME QueueInv, NEW t \in Threads, Unprotect(t) PROVE QueueInv'
<1> USE DEF Unprotect, Goto
<1>1. LockSeen' /\ lockNumber \in Nat /\ lockNumber' = lockNumber + 1
  <2>1. /\ lockNumber' = lockNumber + 1
        /\ \/ lockSleeping = {} /\ lockSleeping' = lockSleeping /\ lockWoken' = lockWoken
           \/ \E u \in lockSleeping : lockSleeping' = lockSleeping \ {u} /\ lockWoken' = lockWoken \cup {u}
    BY DEF Lock!Release
  <2>2. PermitSeen(lockNumber, lockSleeping, lockWoken)
    BY DEF QueueInv, LockSeen
  <2>3. PermitSeen(lockNumber', lockSleeping', lockWoken')
    BY <2>1, <2>2, ReleaseSeen
  <2> QED
    BY <2>1, <2>2, <2>3 DEF LockSeen, PermitSeen
<1>2. QueueTypeOK' /\ ValueInHand'
  BY DEF QueueInv, QueueTypeOK, ValueInHand, PCs
<1>3. /\ Inside' = Inside /\ Pushed' = Pushed /\ Promised' = Promised
      /\ Holding' = Holding - 1 /\ Holding \in Nat
  BY CountsMove DEF QueueInv, QueueTypeOK
<1>4. PlacesAddUp'
  BY <1>1, <1>3 DEF QueueInv, PlacesAddUp, top, bottom
<1> QED
  BY <1>1, <1>2, <1>4 DEF QueueInv, TopSeen, BottomSeen, top, bottom

\* The value goes from the producer's hand into the buffer.
LEMMA PutPushInv ==
  ASSUME QueueInv, NEW t \in Producers, PutPush(t) PROVE QueueInv'
<1> USE DEF PutPush, Goto
<1>1. t \in Threads /\ val[t] \in Values /\ Len(buffer') = Len(buffer) + 1
  BY Groups DEF QueueInv, QueueTypeOK, ValueInHand
<1>2. QueueTypeOK' /\ ValueInHand'
  BY <1>1 DEF QueueInv, QueueTypeOK, ValueInHand, PCs
<1>3. /\ Inside' = Inside /\ Pushed' = Pushed + 1 /\ Promised' = Promised
      /\ Holding' = Holding /\ Pushed \in Nat /\ Promised \in Nat
  BY <1>1, CountsMove DEF QueueInv, QueueTypeOK
<1>4. PlacesAddUp'
  BY <1>1, <1>3 DEF QueueInv, PlacesAddUp, top, bottom, lock, BottomSeen, PermitSeen
<1> QED
  BY <1>2, <1>4 DEF QueueInv, TopSeen, BottomSeen, LockSeen, top, bottom, lock

\* The oldest element goes to the consumer; there is one.
LEMMA TakePopInv ==
  ASSUME QueueInv, NEW t \in Consumers, TakePop(t) PROVE QueueInv'
<1> USE DEF TakePop, Goto
<1>1. t \in Threads /\ Len(buffer) > 0
  BY Groups, RoomAndElement
<1>2. /\ buffer # <<>> /\ Head(buffer) \in Values /\ Tail(buffer) \in Seq(Values)
      /\ Len(buffer') = Len(buffer) - 1
  BY <1>1 DEF QueueInv, QueueTypeOK
<1>3. QueueTypeOK' /\ ValueInHand'
  BY <1>1, <1>2, Groups DEF QueueInv, QueueTypeOK, ValueInHand, PCs
<1>4. /\ Inside' = Inside /\ Pushed' = Pushed /\ Promised' = Promised - 1
      /\ Holding' = Holding /\ Pushed \in Nat /\ Promised \in Nat
  BY <1>1, CountsMove DEF QueueInv, QueueTypeOK
<1>5. PlacesAddUp'
  BY <1>2, <1>4 DEF QueueInv, PlacesAddUp, top, bottom, lock, BottomSeen, PermitSeen
<1> QED
  BY <1>3, <1>5 DEF QueueInv, TopSeen, BottomSeen, LockSeen, top, bottom, lock

\* The new element is announced.
LEMMA PutSignalInv ==
  ASSUME QueueInv, NEW t \in Producers, PutSignal(t) PROVE QueueInv'
<1> USE DEF PutSignal, Goto
<1>1. t \in Threads
  BY Groups
<1>2. BottomSeen' /\ bottomNumber \in Nat /\ bottomNumber' = bottomNumber + 1
  <2>1. /\ bottomNumber' = bottomNumber + 1
        /\ \/ bottomSleeping = {} /\ bottomSleeping' = bottomSleeping /\ bottomWoken' = bottomWoken
           \/ \E u \in bottomSleeping : bottomSleeping' = bottomSleeping \ {u} /\ bottomWoken' = bottomWoken \cup {u}
    BY DEF Bottom!Release
  <2>2. PermitSeen(bottomNumber, bottomSleeping, bottomWoken)
    BY DEF QueueInv, BottomSeen
  <2>3. PermitSeen(bottomNumber', bottomSleeping', bottomWoken')
    BY <2>1, <2>2, ReleaseSeen
  <2> QED
    BY <2>1, <2>2, <2>3 DEF BottomSeen, PermitSeen
<1>3. QueueTypeOK' /\ ValueInHand'
  BY <1>1 DEF QueueInv, QueueTypeOK, ValueInHand, PCs
<1>4. /\ Inside' = Inside - 1 /\ Pushed' = Pushed - 1 /\ Promised' = Promised
      /\ Holding' = Holding /\ Inside \in Nat /\ Pushed \in Nat /\ Promised \in Nat
  BY <1>1, CountsMove DEF QueueInv, QueueTypeOK
<1>5. PlacesAddUp'
  BY <1>2, <1>4 DEF QueueInv, PlacesAddUp, top, lock, TopSeen, PermitSeen
<1> QED
  BY <1>2, <1>3, <1>5 DEF QueueInv, TopSeen, LockSeen, top, lock

\* The room is announced.
LEMMA TakeSignalInv ==
  ASSUME QueueInv, NEW t \in Consumers, TakeSignal(t) PROVE QueueInv'
<1> USE DEF TakeSignal, Goto
<1>1. t \in Threads
  BY Groups
<1>2. TopSeen' /\ topNumber \in Nat /\ topNumber' = topNumber + 1
  <2>1. /\ topNumber' = topNumber + 1
        /\ \/ topSleeping = {} /\ topSleeping' = topSleeping /\ topWoken' = topWoken
           \/ \E u \in topSleeping : topSleeping' = topSleeping \ {u} /\ topWoken' = topWoken \cup {u}
    BY DEF Top!Release
  <2>2. PermitSeen(topNumber, topSleeping, topWoken)
    BY DEF QueueInv, TopSeen
  <2>3. PermitSeen(topNumber', topSleeping', topWoken')
    BY <2>1, <2>2, ReleaseSeen
  <2> QED
    BY <2>1, <2>2, <2>3 DEF TopSeen, PermitSeen
<1>3. QueueTypeOK' /\ ValueInHand'
  BY <1>1, Groups DEF QueueInv, QueueTypeOK, ValueInHand, PCs
<1>4. /\ Inside' = Inside - 1 /\ Pushed' = Pushed /\ Promised' = Promised
      /\ Holding' = Holding /\ Inside \in Nat
  BY <1>1, CountsMove DEF QueueInv, QueueTypeOK
<1>5. PlacesAddUp'
  BY <1>2, <1>4 DEF QueueInv, PlacesAddUp, bottom, lock, BottomSeen, PermitSeen
<1> QED
  BY <1>2, <1>3, <1>5 DEF QueueInv, BottomSeen, LockSeen, bottom, lock

\* A spurious wakeup changes nothing but who sleeps.
LEMMA SpuriousInv == ASSUME QueueInv, SpuriousWakeup PROVE QueueInv'
<1>1. UNCHANGED <<buffer, pc, val, returned, topNumber, bottomNumber, lockNumber>>
  BY DEF SpuriousWakeup, Top!SpuriousWakeup, Bottom!SpuriousWakeup,
     Lock!SpuriousWakeup, top, bottom, lock
<1>2. TopSeen' /\ BottomSeen' /\ LockSeen'
  <2>1. ASSUME Top!SpuriousWakeup, UNCHANGED <<bottom, lock>>
        PROVE  TopSeen' /\ BottomSeen' /\ LockSeen'
    <3>1. PICK t \in topSleeping : /\ topSleeping' = topSleeping \ {t}
                                  /\ topWoken' = topWoken \cup {t}
                                  /\ topNumber' = topNumber
      BY <2>1 DEF Top!SpuriousWakeup
    <3>2. TopSeen'
      BY <3>1, WakeSeen DEF QueueInv, TopSeen
    <3> QED
      BY <2>1, <3>2 DEF QueueInv, BottomSeen, LockSeen, bottom, lock
  <2>2. ASSUME Bottom!SpuriousWakeup, UNCHANGED <<top, lock>>
        PROVE  TopSeen' /\ BottomSeen' /\ LockSeen'
    <3>1. PICK t \in bottomSleeping : /\ bottomSleeping' = bottomSleeping \ {t}
                                  /\ bottomWoken' = bottomWoken \cup {t}
                                  /\ bottomNumber' = bottomNumber
      BY <2>2 DEF Bottom!SpuriousWakeup
    <3>2. BottomSeen'
      BY <3>1, WakeSeen DEF QueueInv, BottomSeen
    <3> QED
      BY <2>2, <3>2 DEF QueueInv, TopSeen, LockSeen, top, lock
  <2>3. ASSUME Lock!SpuriousWakeup, UNCHANGED <<top, bottom>>
        PROVE  TopSeen' /\ BottomSeen' /\ LockSeen'
    <3>1. PICK t \in lockSleeping : /\ lockSleeping' = lockSleeping \ {t}
                                  /\ lockWoken' = lockWoken \cup {t}
                                  /\ lockNumber' = lockNumber
      BY <2>3 DEF Lock!SpuriousWakeup
    <3>2. LockSeen'
      BY <3>1, WakeSeen DEF QueueInv, LockSeen
    <3> QED
      BY <2>3, <3>2 DEF QueueInv, TopSeen, BottomSeen, top, bottom
  <2> QED
    BY <2>1, <2>2, <2>3 DEF SpuriousWakeup
<1> QED
  BY <1>1, <1>2 DEF QueueInv, QueueTypeOK, ValueInHand, PlacesAddUp, Inside, Pushed,
     Promised, Holding, At

\* QueueInv holds in every state.
THEOREM QueueInvariance == Spec => []QueueInv
<1>1. QueueInv /\ [Next]_vars => QueueInv'
  <2> SUFFICES ASSUME QueueInv, [Next]_vars PROVE QueueInv'
    OBVIOUS
  <2>1. ASSUME UNCHANGED vars PROVE QueueInv'
    BY <2>1 DEF vars, top, bottom, lock, QueueInv, TopSeen, BottomSeen, LockSeen,
       QueueTypeOK, ValueInHand, PlacesAddUp, Inside, Pushed, Promised, Holding, At
  <2>2. ASSUME NEW t \in Threads, Step(t) PROVE QueueInv'
    BY <2>2, ProtectInv, UnprotectInv, PutTokensInv, PutPushInv, PutSignalInv,
       TakeTokensInv, TakePopInv, TakeSignalInv DEF Step
  <2> QED
    BY <2>1, <2>2, CallInv, SpuriousInv DEF Next
<1> QED
  BY <1>1, QueueInit0, PTL DEF Spec

\* The variables keep their types; the buffer only ever holds values.
THEOREM QueueTypes == Spec => []TypeOK
<1>1. QueueInv => TypeOK
  BY DEF QueueInv, QueueTypeOK, TypeOK, Top!TypeOK, Bottom!TypeOK, Lock!TypeOK,
     TopSeen, BottomSeen, LockSeen, PermitSeen
<1> QED
  BY <1>1, QueueInvariance, PTL

\* Places, elements and calls under way add up to the capacity, one thread at a
\* time is at the buffer, and no permit is lost on a sleeper.
THEOREM PermitsAreExact == Spec => []PermitsAddUp
<1>1. QueueInv => PermitsAddUp
  <2> SUFFICES ASSUME QueueInv PROVE PermitsAddUp
    OBVIOUS
  <2>1. PlacesAddUp
    BY DEF QueueInv
  <2>2. topNumber \in Nat /\ (topSleeping # {} => topNumber <= Cardinality(topWoken))
        /\ Cardinality(topWoken) \in Nat
    BY CountThreads DEF QueueInv, TopSeen, PermitSeen
  <2>3. bottomNumber \in Nat /\ (bottomSleeping # {} => bottomNumber <= Cardinality(bottomWoken))
        /\ Cardinality(bottomWoken) \in Nat
    BY CountThreads DEF QueueInv, BottomSeen, PermitSeen
  <2>4. lockNumber \in Nat /\ (lockSleeping # {} => lockNumber <= Cardinality(lockWoken))
        /\ Cardinality(lockWoken) \in Nat
    BY CountThreads DEF QueueInv, LockSeen, PermitSeen
  <2>5. ~LostPermit(top) /\ ~LostPermit(bottom) /\ ~LostPermit(lock)
    BY <2>2, <2>3, <2>4 DEF LostPermit, top, bottom, lock
  <2> QED
    BY <2>1, <2>5 DEF PermitsAddUp, PlacesAddUp, Inside, Pushed, Promised, Holding
<1> QED
  BY <1>1, QueueInvariance, PTL

\* Every step of the queue is a step of a bounded FIFO queue or none at all:
\* nothing is pushed beyond the capacity, nothing is taken from an empty deque,
\* and elements leave in the order they came.
THEOREM QueueIsFifo == Spec => ImplementsFifo
<1>1. Init => Fifo!Init
  BY DEF Init, Fifo!Init
<1>2. QueueInv /\ [Next]_vars => [Fifo!Next]_<<buffer, returned>>
  <2> SUFFICES ASSUME QueueInv, [Next]_vars PROVE [Fifo!Next]_<<buffer, returned>>
    OBVIOUS
  <2>1. ASSUME NEW t \in Producers, PutPush(t) PROVE Fifo!Next
    <3>1. val[t] \in Values /\ Len(buffer) < capacity
      BY <2>1, Groups, RoomAndElement DEF QueueInv, ValueInHand, PutPush, Goto
    <3>2. Fifo!Put(val[t])
      BY <2>1, <3>1 DEF PutPush, Fifo!Put
    <3> QED
      BY <3>1, <3>2 DEF Fifo!Next
  <2>2. ASSUME NEW t \in Consumers, TakePop(t) PROVE Fifo!Next
    <3>1. buffer # <<>>
      BY <2>2, Groups, RoomAndElement DEF TakePop, Goto
    <3> QED
      BY <2>2, <3>1 DEF TakePop, Fifo!Next, Fifo!Take
  <2>3. ASSUME NEW t \in Threads, Call(t) \/ Protect(t) \/ Unprotect(t)
        PROVE  UNCHANGED <<buffer, returned>>
    BY <2>3 DEF Call, PutCall, TakeCall, Protect, Unprotect
  <2>4. ASSUME NEW t \in Threads, PutTokens(t) \/ PutSignal(t) \/ TakeTokens(t) \/ TakeSignal(t)
        PROVE  UNCHANGED <<buffer, returned>>
    BY <2>4 DEF PutTokens, PutSignal, TakeTokens, TakeSignal
  <2>5. ASSUME SpuriousWakeup \/ UNCHANGED vars PROVE UNCHANGED <<buffer, returned>>
    BY <2>5 DEF SpuriousWakeup, vars
  <2> QED
    BY <2>1, <2>2, <2>3, <2>4, <2>5 DEF Step, Next
<1> QED
  BY <1>1, <1>2, QueueInvariance, PTL DEF Spec, ImplementsFifo, Fifo!Spec

-----------------------------------------------------------------------------
(* No deadlock *)

\* Who sleeps on a semaphore, or was woken there, is inside its Acquire
SleepersPlaced ==
    /\ \A t \in topSleeping \cup topWoken : t \in Producers /\ pc[t] = "tokens"
    /\ \A t \in bottomSleeping \cup bottomWoken : t \in Consumers /\ pc[t] = "tokens"
    /\ \A t \in lockSleeping \cup lockWoken : t \in Threads /\ pc[t] = "lock"

\* Producers and consumers never all wait for one another: somebody is awake,
\* outside of every wait of the three semaphores.
SomebodyAwake ==
    Producers # {} /\ Consumers # {} =>
      \E t \in Threads : t \notin topSleeping \cup bottomSleeping \cup lockSleeping

\* A thread goes to sleep inside Acquire and leaves it awake.
LEMMA SleepersPlacedStep ==
  ASSUME QueueInv, SleepersPlaced, [Next]_vars
  PROVE  SleepersPlaced'
<1>0. pc \in [Threads -> PCs] /\ Producers \subseteq Threads /\ Consumers \subseteq Threads
      /\ Producers \cap Consumers = {}
  BY QueueAssumption DEF QueueInv, QueueTypeOK, Threads
<1> USE DEF SleepersPlaced, top, bottom, lock, Goto
<1>1. ASSUME NEW t \in Threads, Call(t) PROVE SleepersPlaced'
  BY <1>0, <1>1 DEF Call, PutCall, TakeCall
<1>2. ASSUME NEW t \in Threads, Protect(t) PROVE SleepersPlaced'
  BY <1>0, <1>2 DEF Protect, Lock!Acquire, Lock!AcquireBlocks
<1>3. ASSUME NEW t \in Threads, Unprotect(t) PROVE SleepersPlaced'
  BY <1>0, <1>3 DEF Unprotect, Lock!Release
<1>4. ASSUME NEW t \in Producers, PutTokens(t) PROVE SleepersPlaced'
  BY <1>0, <1>4 DEF PutTokens, Top!Acquire, Top!AcquireBlocks
<1>5. ASSUME NEW t \in Consumers, TakeTokens(t) PROVE SleepersPlaced'
  BY <1>0, <1>5 DEF TakeTokens, Bottom!Acquire, Bottom!AcquireBlocks
<1>6. ASSUME NEW t \in Threads, PutPush(t) \/ TakePop(t) PROVE SleepersPlaced'
  BY <1>0, <1>6 DEF PutPush, TakePop
<1>7. ASSUME NEW t \in Threads, PutSignal(t) PROVE SleepersPlaced'
  BY <1>0, <1>7 DEF PutSignal, Bottom!Release
<1>8. ASSUME NEW t \in Threads, TakeSignal(t) PROVE SleepersPlaced'
  BY <1>0, <1>8 DEF TakeSignal, Top!Release
<1>9. ASSUME SpuriousWakeup PROVE SleepersPlaced'
  BY <1>9 DEF SpuriousWakeup, Top!SpuriousWakeup, Bottom!SpuriousWakeup, Lock!SpuriousWakeup
<1>10. ASSUME UNCHANGED vars PROVE SleepersPlaced'
  BY <1>10 DEF vars
<1> QED
  BY <1>0, <1>1, <1>2, <1>3, <1>4, <1>5, <1>6, <1>7, <1>8, <1>9, <1>10 DEF Next, Step

\* If all slept, the protector would be free and every place would be a permit
\* of one of the other two semaphores, with nobody woken to take it.
LEMMA AwakeFromCounts ==
  ASSUME QueueInv, SleepersPlaced
  PROVE  SomebodyAwake
<1> SUFFICES ASSUME Producers # {}, Consumers # {},
                    \A t \in Threads : t \in topSleeping \cup bottomSleeping \cup lockSleeping
             PROVE  FALSE
  BY DEF SomebodyAwake
<1>0. Producers \subseteq Threads /\ Consumers \subseteq Threads
      /\ Producers \cap Consumers = {} /\ capacity \in Nat /\ capacity # 0
      /\ Cardinality({}) = 0
  BY QueueAssumption, FS_EmptySet DEF Threads
<1>1. \A t \in Threads : pc[t] \in {"tokens", "lock"}
  BY DEF SleepersPlaced
<1>2. lockNumber = 1
  <2>1. {t \in Threads : pc[t] \in {"access", "unlock"}} = {}
    BY <1>1
  <2>2. Holding = 0
    BY <1>0, <2>1 DEF Holding, At
  <2>3. lockNumber \in Nat
    BY DEF QueueInv, LockSeen, PermitSeen
  <2> QED
    BY <2>2, <2>3 DEF QueueInv, PlacesAddUp
<1>3. lockSleeping = {}
  <2>1. lockWoken = {}
    BY <1>0 DEF QueueInv, LockSeen, PermitSeen, SleepersPlaced
  <2> QED
    BY <1>0, <1>2, <2>1 DEF QueueInv, LockSeen, PermitSeen
<1>4. /\ \A t \in Producers : t \in topSleeping
      /\ \A t \in Consumers : t \in bottomSleeping
      /\ \A t \in Threads : pc[t] = "tokens"
  BY <1>0, <1>3 DEF SleepersPlaced
<1>5. topWoken = {} /\ bottomWoken = {}
  BY <1>4 DEF QueueInv, TopSeen, BottomSeen, PermitSeen, SleepersPlaced
<1>6. topNumber = 0 /\ bottomNumber = 0
  BY <1>0, <1>4, <1>5 DEF QueueInv, TopSeen, BottomSeen, PermitSeen
<1>7. Inside = 0
  <2>1. {t \in Threads : pc[t] \in {"lock", "access", "unlock", "signal"}} = {}
    BY <1>4
  <2> QED
    BY <1>0, <2>1 DEF Inside, At
<1> QED
  BY <1>0, <1>6, <1>7 DEF QueueInv, PlacesAddUp

\* However producers and consumers interleave, and whoever a Release wakes, they
\* never all sleep in the semaphores of the queue.
THEOREM QueueNeverStalls == Spec => []SomebodyAwake
<1>1. Init => SleepersPlaced
  BY DEF Init, Top!Init, Bottom!Init, Lock!Init, SleepersPlaced
<1>2. QueueInv /\ SleepersPlaced /\ [Next]_vars => SleepersPlaced'
  BY SleepersPlacedStep
<1>3. QueueInv /\ SleepersPlaced => SomebodyAwake
  BY AwakeFromCounts
<1> QED
  BY <1>1, <1>2, <1>3, QueueInvariance, PTL DEF Spec
=============================================================================
