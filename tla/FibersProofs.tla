---------------------------- MODULE FibersProofs ----------------------------
(***************************************************************************)
(* Proofs about the tinyfibers runtime and the echo servers.  For any      *)
(* number of fiber addresses, which are reused, and of handles: every      *)
(* fiber is in one place, Resume finds it suspended, and Join waits for    *)
(* the end, if routines do not Detach from a fiber that has completed.     *)
(* For any number of clients, messages, streams and buffers of any size:   *)
(* both servers keep the promise of an echo service.                       *)
(***************************************************************************)
EXTENDS FiberScheduler, EchoServer, FiniteSetTheorems, TLAPS

-----------------------------------------------------------------------------
(* The runtime *)

InReady(f) == \E i \in 1..Len(ready) : ready[i] = f
InParked(f) == \E i \in 1..Len(parked) : parked[i] = f

\* f is suspended in the Join of a fiber that has not completed
AwaitsEnd(f) == joining[f] # Null /\ ~handle[joining[f]].completed

\* Nobody is in a queue twice, and who is posted says so
Queues ==
    /\ \A i, j \in 1..Len(ready) : ready[i] = ready[j] => i = j
    /\ \A i, j \in 1..Len(parked) : parked[i] = parked[j] => i = j
    /\ \A f \in Fibers : InReady(f) <=> state[f] \in {"Starting", "Runnable"}
    /\ \A f \in Fibers : running = f <=> state[f] = "Running"

\* A suspended fiber has one reason to be
Reasons == \A f \in Fibers :
    /\ state[f] = "Suspended" <=> \/ InParked(f) \/ f \in timers
                                  \/ futures[f] = "empty" \/ AwaitsEnd(f)
    /\ InParked(f) => f \notin timers /\ futures[f] # "empty" /\ ~AwaitsEnd(f)
    /\ f \in timers => futures[f] # "empty" /\ ~AwaitsEnd(f)
    /\ futures[f] = "empty" => ~AwaitsEnd(f)

\* A handle and the fiber it watches know each other
Watching ==
    /\ \A h \in Handles : handle[h].fiber = Null => handle[h] = NoHandle
    /\ HandleWatches
    /\ \A g \in Fibers : watcher[g] # Null =>
         Live(g) /\ handle[watcher[g]].fiber = g /\ ~handle[watcher[g]].completed

\* And so do a handle and the fiber that waits in its Join
Joins ==
    /\ \A f \in Fibers : joining[f] # Null =>
         /\ handle[joining[f]].waitee = f /\ handle[joining[f]].holder = f
         /\ handle[joining[f]].fiber # Null /\ state[f] \in {"Suspended", "Runnable"}
    /\ \A h \in Handles : handle[h].waitee # Null => joining[handle[h].waitee] = h

FibersInv == TypeOK /\ Queues /\ Reasons /\ Watching /\ Joins

\* The root is posted.
LEMMA FibersInit == Init => FibersInv
<1> SUFFICES ASSUME Init PROVE FibersInv
  OBVIOUS
<1>1. /\ ready = <<Root>> /\ parked = <<>> /\ timers = {} /\ running = Null
      /\ Len(ready) = 1 /\ ready[1] = Root /\ Len(parked) = 0
      /\ DOMAIN <<Root>> = {1} /\ <<Root>>[1] = Root
  BY DEF Init, Posted
<1>2. /\ state = [f \in Fibers |-> IF f = Root THEN "Starting" ELSE "Free"]
  BY <1>1 DEF Init, Posted
<1>3. /\ watcher = [f \in Fibers |-> Null] /\ futures = [f \in Fibers |-> Null]
      /\ handle = [h \in Handles |-> NoHandle] /\ joining = [f \in Fibers |-> Null]
  BY DEF Init, Posted
<1>4. TypeOK
  <2>1. NoHandle \in [fiber : Fibers \cup {Null}, completed : BOOLEAN,
                      waitee : Fibers \cup {Null}, holder : Fibers \cup {Null}]
    BY DEF NoHandle
  <2> QED
    BY <1>1, <1>2, <1>3, <2>1, FibersAssumption DEF TypeOK, FiberState
<1>5. Queues
  BY <1>1, <1>2, FibersAssumption DEF Queues, InReady
<1>6. Reasons
  BY <1>1, <1>2, <1>3, FibersAssumption DEF Reasons, InParked, AwaitsEnd
<1>7. Watching /\ Joins
  BY <1>3 DEF Watching, HandleWatches, Joins, NoHandle
<1> QED
  BY <1>4, <1>5, <1>6, <1>7 DEF FibersInv

\* A running fiber is nowhere else.
LEMMA RunningAlone ==
  ASSUME FibersInv, NEW f \in Fibers, running = f
  PROVE  /\ state[f] = "Running" /\ ~InReady(f) /\ ~InParked(f) /\ f \notin timers
         /\ futures[f] # "empty" /\ joining[f] = Null
         /\ \A g \in Fibers : g # f => state[g] # "Running"
         /\ \A h \in Handles : handle[h].waitee # f
  BY FibersAssumption DEF FibersInv, Queues, Reasons, Joins

\* Nobody else is in the Join of a handle that a running fiber may use.
LEMMA AttachedAlone ==
  ASSUME FibersInv, NEW f \in Fibers, NEW h \in Handles, Attached(f, h)
  PROVE  /\ running = f /\ handle[h].fiber \in Fibers /\ handle[h].holder = f
         /\ handle[h].waitee = Null /\ \A g \in Fibers : joining[g] # h
<1>1. running = f /\ handle[h].fiber \in Fibers /\ handle[h].holder = f
  BY DEF Attached, FibersInv, TypeOK
<1>2. joining[f] = Null
  BY <1>1, RunningAlone
<1>3. \A g \in Fibers : joining[g] # h
  BY <1>1, <1>2, FibersAssumption DEF FibersInv, Joins
<1>4. handle[h].waitee \in Fibers \cup {Null}
  BY DEF FibersInv, TypeOK
<1> QED
  BY <1>1, <1>3, <1>4 DEF FibersInv, Joins

\* f is posted: Append to the queue.
LEMMA PostsOnce ==
  ASSUME FibersInv, NEW f \in Fibers, ~InReady(f), Schedule(f)
  PROVE  /\ ready' \in Seq(Fibers) /\ \A i, j \in 1..Len(ready') : ready'[i] = ready'[j] => i = j
         /\ \A g \in Fibers : (\E i \in 1..Len(ready') : ready'[i] = g) <=> InReady(g) \/ g = f
<1>1. ready \in Seq(Fibers) /\ Len(ready) \in Nat
  BY DEF FibersInv, TypeOK
<1>2. /\ ready' \in Seq(Fibers) /\ Len(ready') = Len(ready) + 1 /\ ready'[Len(ready) + 1] = f
      /\ \A i \in 1..Len(ready) : ready'[i] = ready[i] /\ i \in 1..Len(ready')
      /\ \A i \in 1..Len(ready') : i \in 1..Len(ready) \/ i = Len(ready) + 1
      /\ Len(ready) + 1 \in 1..Len(ready')
  BY <1>1 DEF Schedule
<1>3. \A i, j \in 1..Len(ready') : ready'[i] = ready'[j] => i = j
  BY <1>2 DEF FibersInv, Queues, InReady
<1>4. \A g \in Fibers : (\E i \in 1..Len(ready') : ready'[i] = g) <=> InReady(g) \/ g = f
  BY <1>2 DEF InReady
<1> QED
  BY <1>2, <1>3, <1>4

\* The fibers of fs, all of them suspended, are posted in their order.
LEMMA ResumesOnce ==
  ASSUME FibersInv, NEW fs \in Seq(Fibers), Resume(fs),
         \A i, j \in 1..Len(fs) : fs[i] = fs[j] => i = j,
         \A i \in 1..Len(fs) : state[fs[i]] = "Suspended"
  PROVE  /\ ready' \in Seq(Fibers) /\ \A i, j \in 1..Len(ready') : ready'[i] = ready'[j] => i = j
         /\ \A g \in Fibers : (\E i \in 1..Len(ready') : ready'[i] = g) <=>
              InReady(g) \/ \E i \in 1..Len(fs) : fs[i] = g
<1>1. ready \in Seq(Fibers) /\ Len(ready) \in Nat /\ Len(fs) \in Nat
  BY DEF FibersInv, TypeOK
<1>2. /\ ready' \in Seq(Fibers) /\ Len(ready') = Len(ready) + Len(fs)
      /\ \A i \in 1..Len(ready') :
           ready'[i] = IF i <= Len(ready) THEN ready[i] ELSE fs[i - Len(ready)]
  BY <1>1 DEF Resume
<1>3. ASSUME NEW i \in 1..Len(ready')
      PROVE  \/ i \in 1..Len(ready) /\ ready'[i] = ready[i]
             \/ \E k \in 1..Len(fs) : i = Len(ready) + k /\ ready'[i] = fs[k]
  <2>1. CASE i <= Len(ready)
    BY <1>1, <1>2, <2>1
  <2>2. CASE ~(i <= Len(ready))
    <3>1. i - Len(ready) \in 1..Len(fs) /\ i = Len(ready) + (i - Len(ready))
      BY <1>1, <1>2, <2>2
    <3> QED
      BY <1>2, <2>2, <3>1
  <2> QED
    BY <2>1, <2>2
<1>4. \A i \in 1..Len(ready) : \A j \in 1..Len(fs) : ready[i] # fs[j]
  BY <1>1 DEF FibersInv, Queues, InReady
<1>5. ASSUME NEW i \in 1..Len(ready'), NEW j \in 1..Len(ready'), ready'[i] = ready'[j]
      PROVE  i = j
  <2>1. CASE i \in 1..Len(ready) /\ ready'[i] = ready[i]
    <3>1. ~ \E k \in 1..Len(fs) : ready'[j] = fs[k]
      BY <1>4, <1>5, <2>1
    <3>2. j \in 1..Len(ready) /\ ready'[j] = ready[j]
      BY <1>3, <3>1
    <3>3. ready[i] = ready[j] => i = j
      BY <2>1, <3>2 DEF FibersInv, Queues
    <3> QED
      BY <1>5, <2>1, <3>2, <3>3
  <2>2. CASE \E k \in 1..Len(fs) : i = Len(ready) + k /\ ready'[i] = fs[k]
    <3>1. PICK k \in 1..Len(fs) : i = Len(ready) + k /\ ready'[i] = fs[k]
      BY <2>2
    <3>2. PICK l \in 1..Len(fs) : j = Len(ready) + l /\ ready'[j] = fs[l]
      <4>1. ~(j \in 1..Len(ready) /\ ready'[j] = ready[j])
        BY <1>4, <1>5, <3>1
      <4> QED
        BY <1>3, <4>1
    <3>3. k = l
      BY <1>5, <3>1, <3>2
    <3> QED
      BY <3>1, <3>2, <3>3
  <2> QED
    BY <1>3, <2>1, <2>2
<1>6. ASSUME NEW g \in Fibers
      PROVE  (\E i \in 1..Len(ready') : ready'[i] = g) <=> InReady(g) \/ \E i \in 1..Len(fs) : fs[i] = g
  <2>1. ASSUME NEW i \in 1..Len(ready), ready[i] = g
        PROVE  i \in 1..Len(ready') /\ ready'[i] = g
    BY <1>1, <1>2, <2>1
  <2>2. ASSUME NEW i \in 1..Len(fs), fs[i] = g
        PROVE  Len(ready) + i \in 1..Len(ready') /\ ready'[Len(ready) + i] = g
    <3>1. /\ Len(ready) + i \in 1..Len(ready') /\ ~(Len(ready) + i <= Len(ready))
          /\ (Len(ready) + i) - Len(ready) = i
      BY <1>1, <1>2, <2>2
    <3> QED
      BY <1>2, <2>2, <3>1
  <2>3. InReady(g) \/ (\E i \in 1..Len(fs) : fs[i] = g) => \E i \in 1..Len(ready') : ready'[i] = g
    BY <2>1, <2>2 DEF InReady
  <2>4. (\E i \in 1..Len(ready') : ready'[i] = g) => InReady(g) \/ \E i \in 1..Len(fs) : fs[i] = g
    BY <1>3 DEF InReady
  <2> QED
    BY <2>3, <2>4
<1> QED
  BY <1>2, <1>5, <1>6

\* Steps that only move fibers between the places where they wait or run.
LEMMA HandlesStand ==
  ASSUME FibersInv, UNCHANGED <<watcher, handle, joining>>,
         \A g \in Fibers : state'[g] # "Free" <=> state[g] # "Free",
         \A g \in Fibers : joining[g] # Null => state'[g] \in {"Suspended", "Runnable"}
  PROVE  Watching' /\ Joins' /\ \A g \in Fibers : AwaitsEnd(g)' <=> AwaitsEnd(g)
<1>1. \A h \in Handles : handle[h].fiber # Null => handle[h].fiber \in Fibers
  BY DEF FibersInv, TypeOK
<1>2. Watching'
  BY <1>1 DEF FibersInv, Watching, HandleWatches, Live, NoHandle
<1>3. Joins'
  BY DEF FibersInv, Joins
<1> QED
  BY <1>2, <1>3 DEF AwaitsEnd

\* A running fiber goes to the end of the queue.
LEMMA YieldInv == ASSUME FibersInv, NEW f \in Fibers, Yield(f) PROVE FibersInv'
<1>1. /\ running = f /\ running' = Null /\ state' = [state EXCEPT ![f] = "Runnable"]
      /\ Schedule(f) /\ UNCHANGED <<watcher, timers, futures, parked, joining, handle>>
  BY DEF Yield, waiting
<1>2. /\ state[f] = "Running" /\ ~InReady(f) /\ ~InParked(f) /\ f \notin timers
      /\ futures[f] # "empty" /\ joining[f] = Null
      /\ \A g \in Fibers : g # f => state[g] # "Running"
  BY <1>1, RunningAlone
<1>3. state'[f] = "Runnable" /\ \A g \in Fibers : g # f => state'[g] = state[g]
  BY <1>1 DEF FibersInv, TypeOK
<1>4. /\ ready' \in Seq(Fibers) /\ \A i, j \in 1..Len(ready') : ready'[i] = ready'[j] => i = j
      /\ \A g \in Fibers : (\E i \in 1..Len(ready') : ready'[i] = g) <=> InReady(g) \/ g = f
  BY <1>1, <1>2, PostsOnce
<1>5. TypeOK'
  BY <1>1, <1>4 DEF FibersInv, TypeOK, FiberState
<1>6. Queues'
  <2>1. \A g \in Fibers : InReady(g)' <=> state'[g] \in {"Starting", "Runnable"}
    BY <1>3, <1>4 DEF FibersInv, Queues, InReady
  <2>2. \A g \in Fibers : running' = g <=> state'[g] = "Running"
    BY <1>1, <1>2, <1>3, FibersAssumption
  <2> QED
    BY <1>1, <1>4, <2>1, <2>2 DEF FibersInv, Queues
<1>7. Watching' /\ Joins' /\ \A g \in Fibers : AwaitsEnd(g)' <=> AwaitsEnd(g)
  BY <1>1, <1>2, <1>3, HandlesStand DEF FibersInv, Joins
<1>8. Reasons'
  <2>1. ~AwaitsEnd(f) /\ \A g \in Fibers : InParked(g)' <=> InParked(g)
    BY <1>1, <1>2 DEF AwaitsEnd, InParked
  <2> QED
    BY <1>1, <1>2, <1>3, <1>7, <2>1 DEF FibersInv, Reasons
<1> QED
  BY <1>5, <1>6, <1>7, <1>8 DEF FibersInv

\* A running fiber begins to wait, for one reason.
LEMMA SuspendsInv ==
  ASSUME FibersInv, NEW f \in Fibers,
         SleepFor(f) \/ Get(f) \/ Park(f) \/ \E h \in Handles : JoinParks(f, h)
  PROVE  FibersInv'
<1>1. /\ running = f /\ running' = Null /\ state' = [state EXCEPT ![f] = "Suspended"]
      /\ UNCHANGED <<watcher, ready>>
  BY DEF SleepFor, Get, Park, JoinParks, Suspend
<1>2. /\ state[f] = "Running" /\ ~InReady(f) /\ ~InParked(f) /\ f \notin timers
      /\ futures[f] # "empty" /\ joining[f] = Null /\ ~AwaitsEnd(f)
      /\ \A g \in Fibers : g # f => state[g] # "Running"
  BY <1>1, RunningAlone DEF AwaitsEnd
<1>3. state'[f] = "Suspended" /\ \A g \in Fibers : g # f => state'[g] = state[g]
  BY <1>1 DEF FibersInv, TypeOK
<1>4. ASSUME parked' \in Seq(Fibers), \A i, j \in 1..Len(parked') : parked'[i] = parked'[j] => i = j
      PROVE  Queues'
  <2>1. \A g \in Fibers : InReady(g)' <=> state'[g] \in {"Starting", "Runnable"}
    BY <1>1, <1>2, <1>3 DEF FibersInv, Queues, InReady
  <2>2. \A g \in Fibers : running' = g <=> state'[g] = "Running"
    BY <1>1, <1>2, <1>3, FibersAssumption
  <2> QED
    BY <1>1, <1>4, <2>1, <2>2 DEF FibersInv, Queues
<1>5. ASSUME UNCHANGED <<handle, joining>>
      PROVE  Watching' /\ Joins' /\ \A g \in Fibers : AwaitsEnd(g)' <=> AwaitsEnd(g)
  BY <1>1, <1>2, <1>3, <1>5, HandlesStand DEF FibersInv, Joins
<1>6. /\ state' \in [Fibers -> FiberState]
      /\ UNCHANGED parked => Queues' /\ \A g \in Fibers : InParked(g)' <=> InParked(g)
  BY <1>1, <1>4 DEF FibersInv, TypeOK, FiberState, Queues, InParked
<1>7. CASE SleepFor(f)
  <2>1. timers' = timers \cup {f} /\ UNCHANGED <<futures, parked, joining, handle>>
    BY <1>7 DEF SleepFor
  <2>2. TypeOK'
    BY <1>1, <1>6, <2>1, FibersAssumption DEF FibersInv, TypeOK
  <2>3. Reasons'
    BY <1>2, <1>3, <1>5, <1>6, <2>1 DEF FibersInv, Reasons
  <2> QED
    BY <1>5, <1>6, <2>1, <2>2, <2>3 DEF FibersInv
<1>8. CASE Get(f)
  <2>1. futures' = [futures EXCEPT ![f] = "empty"] /\ UNCHANGED <<timers, parked, joining, handle>>
    BY <1>8 DEF Get
  <2>2. futures'[f] = "empty" /\ \A g \in Fibers : g # f => futures'[g] = futures[g]
    BY <2>1 DEF FibersInv, TypeOK
  <2>3. TypeOK'
    BY <1>1, <1>6, <2>1 DEF FibersInv, TypeOK
  <2>4. Reasons'
    BY <1>2, <1>3, <1>5, <1>6, <2>1, <2>2 DEF FibersInv, Reasons
  <2> QED
    BY <1>5, <1>6, <2>1, <2>3, <2>4 DEF FibersInv
<1>9. CASE Park(f)
  <2>1. parked' = Append(parked, f) /\ UNCHANGED <<timers, futures, joining, handle>>
    BY <1>9 DEF Park
  <2>2. parked \in Seq(Fibers) /\ Len(parked) \in Nat
    BY DEF FibersInv, TypeOK
  <2>3. /\ parked' \in Seq(Fibers) /\ Len(parked') = Len(parked) + 1
        /\ parked'[Len(parked) + 1] = f
        /\ \A i \in 1..Len(parked) : parked'[i] = parked[i] /\ i \in 1..Len(parked')
        /\ \A i \in 1..Len(parked') : i \in 1..Len(parked) \/ i = Len(parked) + 1
        /\ Len(parked) + 1 \in 1..Len(parked')
    BY <2>1, <2>2
  <2>4. \A i, j \in 1..Len(parked') : parked'[i] = parked'[j] => i = j
    BY <1>2, <2>3 DEF FibersInv, Queues, InParked
  <2>5. \A g \in Fibers : InParked(g)' <=> InParked(g) \/ g = f
    BY <2>3 DEF InParked
  <2>6. TypeOK'
    BY <1>1, <1>6, <2>1, <2>3, FibersAssumption DEF FibersInv, TypeOK
  <2>7. Reasons'
    BY <1>2, <1>3, <1>5, <2>1, <2>5 DEF FibersInv, Reasons
  <2> QED
    BY <1>4, <1>5, <2>1, <2>3, <2>4, <2>6, <2>7 DEF FibersInv
<1>10. CASE \E h \in Handles : JoinParks(f, h)
  <2>1. PICK h \in Handles : JoinParks(f, h)
    BY <1>10
  <2>2. /\ Attached(f, h) /\ ~handle[h].completed
        /\ handle' = [handle EXCEPT ![h].waitee = f] /\ joining' = [joining EXCEPT ![f] = h]
        /\ UNCHANGED <<timers, futures, parked>>
    BY <2>1 DEF JoinParks
  <2>3. /\ handle[h].fiber \in Fibers /\ handle[h].holder = f /\ handle[h].waitee = Null
        /\ \A g \in Fibers : joining[g] # h
    BY <2>2, AttachedAlone
  <2>4. /\ \A o \in Handles : o # h => handle'[o] = handle[o]
        /\ handle'[h].fiber = handle[h].fiber /\ handle'[h].holder = f
        /\ ~handle'[h].completed /\ handle'[h].waitee = f
        /\ joining'[f] = h /\ \A g \in Fibers : g # f => joining'[g] = joining[g]
    BY <2>2, <2>3 DEF FibersInv, TypeOK
  <2>5. TypeOK'
    <3>1. handle' \in [Handles -> [fiber : Fibers \cup {Null}, completed : BOOLEAN,
                                   waitee : Fibers \cup {Null}, holder : Fibers \cup {Null}]]
      BY <2>2 DEF FibersInv, TypeOK
    <3> QED
      BY <1>1, <1>6, <2>2, <3>1 DEF FibersInv, TypeOK
  <2>6. Watching'
    <3>1. \A o \in Handles : handle'[o].fiber = Null => handle'[o] = NoHandle
      BY <2>3, <2>4, FibersAssumption DEF FibersInv, Watching
    <3>2. \A g \in Fibers : Live(g)' <=> Live(g)
      BY <1>2, <1>3 DEF Live
    <3>3. HandleWatches'
      BY <1>1, <2>2, <2>3, <2>4, <3>2, FibersAssumption DEF FibersInv, TypeOK, Watching, HandleWatches
    <3>4. ASSUME NEW g \in Fibers, watcher[g] # Null
          PROVE  Live(g) /\ handle'[watcher[g]].fiber = g /\ ~handle'[watcher[g]].completed
      <4>1. /\ watcher[g] \in Handles /\ Live(g) /\ handle[watcher[g]].fiber = g
            /\ ~handle[watcher[g]].completed
        BY <3>4 DEF FibersInv, TypeOK, Watching
      <4> QED
        BY <2>4, <4>1
    <3> QED
      BY <1>1, <3>1, <3>2, <3>3, <3>4 DEF Watching, NoHandle
  <2>7. Joins'
    <3>1. ASSUME NEW g \in Fibers, joining'[g] # Null
          PROVE  /\ handle'[joining'[g]].waitee = g /\ handle'[joining'[g]].holder = g
                 /\ handle'[joining'[g]].fiber # Null /\ state'[g] \in {"Suspended", "Runnable"}
      <4>1. CASE g = f
        BY <1>3, <2>3, <2>4, <4>1, FibersAssumption
      <4>2. CASE g # f
        <5>1. joining[g] \in Handles /\ joining[g] # h /\ joining'[g] = joining[g]
          BY <2>3, <2>4, <3>1, <4>2 DEF FibersInv, TypeOK
        <5> QED
          BY <1>3, <2>4, <3>1, <4>2, <5>1 DEF FibersInv, Joins
      <4> QED
        BY <4>1, <4>2
    <3>2. ASSUME NEW o \in Handles, handle'[o].waitee # Null PROVE joining'[handle'[o].waitee] = o
      <4>1. CASE o = h
        BY <2>4, <4>1
      <4>2. CASE o # h
        <5>1. handle[o].waitee \in Fibers /\ joining[handle[o].waitee] = o
          BY <2>4, <3>2, <4>2 DEF FibersInv, TypeOK, Joins
        <5>2. handle[o].waitee # f
          BY <1>2, <5>1, FibersAssumption
        <5> QED
          BY <2>4, <4>2, <5>1, <5>2
      <4> QED
        BY <4>1, <4>2
    <3> QED
      BY <3>1, <3>2 DEF Joins
  <2>8. Reasons'
    <3>1. \A g \in Fibers : AwaitsEnd(g)' <=> AwaitsEnd(g) \/ g = f
      BY <1>2, <2>2, <2>3, <2>4, FibersAssumption DEF AwaitsEnd, FibersInv, TypeOK
    <3> QED
      BY <1>2, <1>3, <1>6, <2>2, <3>1 DEF FibersInv, Reasons
  <2> QED
    BY <1>6, <2>2, <2>5, <2>6, <2>7, <2>8 DEF FibersInv
<1> QED
  BY <1>7, <1>8, <1>9, <1>10

\* Suspended fibers are resumed; what is left of the invariant is that they have
\* no reason to wait any more.
LEMMA ResumeKeeps ==
  ASSUME FibersInv, NEW fs \in Seq(Fibers), Resume(fs),
         \A i, j \in 1..Len(fs) : fs[i] = fs[j] => i = j,
         \A i \in 1..Len(fs) : state[fs[i]] = "Suspended",
         UNCHANGED <<watcher, running, joining, handle>>, parked' \in Seq(Fibers),
         \A i, j \in 1..Len(parked') : parked'[i] = parked'[j] => i = j,
         timers' \subseteq Fibers, futures' \in [Fibers -> {Null, "empty", "set"}]
  PROVE  /\ TypeOK' /\ Queues' /\ Watching' /\ Joins'
         /\ \A g \in Fibers : AwaitsEnd(g)' <=> AwaitsEnd(g)
         /\ \A g \in Fibers : state'[g] = IF \E i \in 1..Len(fs) : fs[i] = g
                                           THEN "Runnable" ELSE state[g]
<1>1. \A g \in Fibers : state'[g] = IF \E i \in 1..Len(fs) : fs[i] = g
                                    THEN "Runnable" ELSE state[g]
  BY DEF Resume
<1>2. /\ ready' \in Seq(Fibers) /\ \A i, j \in 1..Len(ready') : ready'[i] = ready'[j] => i = j
      /\ \A g \in Fibers : (\E i \in 1..Len(ready') : ready'[i] = g) <=>
           InReady(g) \/ \E i \in 1..Len(fs) : fs[i] = g
  BY ResumesOnce
<1>3. TypeOK'
  <2>1. state' \in [Fibers -> FiberState]
    BY DEF Resume, FibersInv, TypeOK, FiberState
  <2> QED
    BY <1>2, <2>1 DEF FibersInv, TypeOK
<1>4. Queues'
  <2>1. \A g \in Fibers : InReady(g)' <=> state'[g] \in {"Starting", "Runnable"}
    BY <1>1, <1>2 DEF FibersInv, Queues, InReady
  <2>2. \A g \in Fibers : running' = g <=> state'[g] = "Running"
    BY <1>1 DEF FibersInv, Queues
  <2> QED
    BY <1>2, <2>1, <2>2 DEF Queues
<1>5. Watching' /\ Joins' /\ \A g \in Fibers : AwaitsEnd(g)' <=> AwaitsEnd(g)
  <2>1. \A g \in Fibers : state'[g] # "Free" <=> state[g] # "Free"
    BY <1>1
  <2>2. \A g \in Fibers : joining[g] # Null => state'[g] \in {"Suspended", "Runnable"}
    BY <1>1 DEF FibersInv, Joins
  <2> QED
    BY <2>1, <2>2, HandlesStand
<1> QED
  BY <1>1, <1>3, <1>4, <1>5

\* The handler of a timer or of an operation wakes its fiber.
LEMMA HandlerInv == ASSUME FibersInv, NEW f \in Fibers, Handler(f) PROVE FibersInv'
<1>1. /\ Resume(<<f>>) /\ UNCHANGED <<watcher, running, parked, joining, handle>>
      /\ \/ f \in timers /\ timers' = timers \ {f} /\ futures' = futures
         \/ futures[f] = "empty" /\ futures' = [futures EXCEPT ![f] = "set"] /\ timers' = timers
  BY DEF Handler, TimerFires, Set
<1>2. state[f] = "Suspended"
  BY <1>1 DEF FibersInv, Reasons
<1> DEFINE fs == <<f>>
<1>3. fs \in Seq(Fibers) /\ Len(fs) = 1 /\ fs[1] = f /\ Resume(fs)
  BY <1>1
<1> HIDE DEF fs
<1>4. /\ \A i, j \in 1..Len(fs) : fs[i] = fs[j] => i = j
      /\ \A i \in 1..Len(fs) : state[fs[i]] = "Suspended"
      /\ \A g : (\E i \in 1..Len(fs) : fs[i] = g) <=> g = f
  BY <1>2, <1>3
<1>5. /\ parked' \in Seq(Fibers) /\ \A i, j \in 1..Len(parked') : parked'[i] = parked'[j] => i = j
      /\ timers' \subseteq Fibers /\ futures' \in [Fibers -> {Null, "empty", "set"}]
      /\ \A g \in Fibers : InParked(g)' <=> InParked(g)
  BY <1>1 DEF FibersInv, TypeOK, Queues, InParked
<1>6. /\ TypeOK' /\ Queues' /\ Watching' /\ Joins'
      /\ \A g \in Fibers : AwaitsEnd(g)' <=> AwaitsEnd(g)
      /\ \A g \in Fibers : state'[g] = IF g = f THEN "Runnable" ELSE state[g]
  <2>1. UNCHANGED <<watcher, running, joining, handle>>
    BY <1>1
  <2>2. /\ TypeOK' /\ Queues' /\ Watching' /\ Joins'
        /\ \A g \in Fibers : AwaitsEnd(g)' <=> AwaitsEnd(g)
        /\ \A g \in Fibers : state'[g] = IF \E i \in 1..Len(fs) : fs[i] = g
                                          THEN "Runnable" ELSE state[g]
    BY <1>3, <1>4, <1>5, <2>1, ResumeKeeps
  <2> QED
    BY <1>4, <2>2
<1>7. /\ \A g \in Fibers : g # f => futures'[g] = futures[g]
      /\ futures[f] = "empty" => futures'[f] # "empty"
      /\ futures[f] # "empty" => futures'[f] # "empty"
  <2>1. CASE f \in timers /\ futures' = futures
    BY <2>1 DEF FibersInv, Reasons
  <2>2. CASE futures' = [futures EXCEPT ![f] = "set"]
    <3>1. futures \in [Fibers -> {Null, "empty", "set"}]
      BY DEF FibersInv, TypeOK
    <3>2. futures'[f] = "set" /\ \A g \in Fibers : g # f => futures'[g] = futures[g]
      BY <2>2, <3>1
    <3> QED
      BY <3>2
  <2> QED
    BY <1>1, <2>1, <2>2
<1>8. Reasons'
  BY <1>1, <1>5, <1>6, <1>7 DEF FibersInv, Reasons
<1> QED
  BY <1>6, <1>8 DEF FibersInv

\* WakeOne and WakeAll take fibers from the wait queue.
LEMMA WakesInv == ASSUME FibersInv, NEW f \in Fibers, WaitQueueCall(f) PROVE FibersInv'
<1>1. /\ parked # <<>> /\ UNCHANGED <<watcher, running, timers, futures, joining, handle>>
      /\ \/ Resume(<<Head(parked)>>) /\ parked' = Tail(parked)
         \/ Resume(parked) /\ parked' = <<>>
  BY DEF WaitQueueCall, WakeOne, WakeAll
<1>2. /\ parked \in Seq(Fibers) /\ Len(parked) \in Nat \ {0}
      /\ \A i, j \in 1..Len(parked) : parked[i] = parked[j] => i = j
      /\ timers' \subseteq Fibers /\ futures' \in [Fibers -> {Null, "empty", "set"}]
  BY <1>1 DEF FibersInv, TypeOK, Queues
<1>3. \A i \in 1..Len(parked) : state[parked[i]] = "Suspended"
  BY <1>2 DEF FibersInv, Reasons, InParked
<1>4. ASSUME NEW fs \in Seq(Fibers), Resume(fs), parked' \in Seq(Fibers),
             \A i, j \in 1..Len(fs) : fs[i] = fs[j] => i = j,
             \A i \in 1..Len(fs) : state[fs[i]] = "Suspended",
             \A i, j \in 1..Len(parked') : parked'[i] = parked'[j] => i = j,
             \A g \in Fibers : InParked(g)' <=> InParked(g) /\ ~ \E i \in 1..Len(fs) : fs[i] = g,
             \A i \in 1..Len(fs) : InParked(fs[i])
      PROVE  FibersInv'
  <2>1. /\ TypeOK' /\ Queues' /\ Watching' /\ Joins'
        /\ \A g \in Fibers : AwaitsEnd(g)' <=> AwaitsEnd(g)
        /\ \A g \in Fibers : state'[g] = IF \E i \in 1..Len(fs) : fs[i] = g
                                          THEN "Runnable" ELSE state[g]
    BY <1>1, <1>2, <1>4, ResumeKeeps
  <2>2. \A g \in Fibers : (\E i \in 1..Len(fs) : fs[i] = g) => InParked(g)
    BY <1>4
  <2>3. Reasons'
    BY <1>1, <1>4, <2>1, <2>2 DEF FibersInv, Reasons
  <2> QED
    BY <2>1, <2>3 DEF FibersInv
<1>5. CASE Resume(<<Head(parked)>>) /\ parked' = Tail(parked)
  <2> DEFINE g == parked[1]
  <2>1. Head(parked) = g /\ g \in Fibers /\ 1 \in 1..Len(parked)
    BY <1>2
  <2>2. /\ parked' \in Seq(Fibers) /\ Len(parked') = Len(parked) - 1
        /\ \A i \in 1..Len(parked') : parked'[i] = parked[i + 1] /\ i + 1 \in 1..Len(parked) /\ i + 1 # 1
    BY <1>2, <1>5
  <2>3. \A i, j \in 1..Len(parked') : parked'[i] = parked'[j] => i = j
    <3> SUFFICES ASSUME NEW i \in 1..Len(parked'), NEW j \in 1..Len(parked'), parked'[i] = parked'[j]
                 PROVE  i = j
      OBVIOUS
    <3>1. i + 1 = j + 1
      BY <1>2, <2>2
    <3> QED
      BY <3>1
  <2>4. ASSUME NEW q \in Fibers PROVE InParked(q)' <=> InParked(q) /\ q # g
    <3>1. InParked(q)' => InParked(q) /\ q # g
      BY <1>2, <2>1, <2>2 DEF InParked
    <3>2. ASSUME NEW i \in 1..Len(parked), parked[i] = q, q # g PROVE InParked(q)'
      <4>1. i - 1 \in 1..Len(parked') /\ (i - 1) + 1 = i
        BY <1>2, <2>2, <3>2
      <4> QED
        BY <2>2, <3>2, <4>1 DEF InParked
    <3> QED
      BY <3>1, <3>2 DEF InParked
  <2>5. InParked(g) /\ state[g] = "Suspended"
    BY <1>3, <2>1 DEF InParked
  <2> HIDE DEF g
  <2>6. /\ <<g>> \in Seq(Fibers) /\ Len(<<g>>) = 1 /\ <<g>>[1] = g /\ Resume(<<g>>)
    BY <1>5, <2>1
  <2>7. /\ \A i, j \in 1..Len(<<g>>) : <<g>>[i] = <<g>>[j] => i = j
        /\ \A i \in 1..Len(<<g>>) : state[<<g>>[i]] = "Suspended" /\ InParked(<<g>>[i])
        /\ \A q : (\E i \in 1..Len(<<g>>) : <<g>>[i] = q) <=> q = g
    BY <2>5, <2>6
  <2> QED
    BY <1>4, <2>2, <2>3, <2>4, <2>6, <2>7
<1>6. CASE Resume(parked) /\ parked' = <<>>
  <2>1. /\ parked' \in Seq(Fibers) /\ \A i, j \in 1..Len(parked') : parked'[i] = parked'[j] => i = j
        /\ \A g \in Fibers : ~InParked(g)'
        /\ \A i \in 1..Len(parked) : InParked(parked[i])
    BY <1>6 DEF InParked
  <2>2. \A g \in Fibers : InParked(g)' <=> InParked(g) /\ ~ \E i \in 1..Len(parked) : parked[i] = g
    BY <2>1 DEF InParked
  <2> QED
    BY <1>2, <1>3, <1>4, <1>6, <2>1, <2>2
<1> QED
  BY <1>1, <1>5, <1>6

\* The loop steps the first fiber that is posted.
LEMMA StepInv == ASSUME FibersInv, NEW f \in Fibers, Step(f) PROVE FibersInv'
<1>1. /\ running = Null /\ ready # <<>> /\ f = Head(ready) /\ ready' = Tail(ready)
      /\ running' = f /\ state' = [state EXCEPT ![f] = "Running"]
      /\ handle' = [h \in Handles |-> IF h = joining[f] THEN NoHandle ELSE handle[h]]
      /\ joining' = [joining EXCEPT ![f] = Null] /\ futures' = [futures EXCEPT ![f] = Null]
      /\ UNCHANGED <<watcher, timers, parked>>
  BY DEF Step
<1>2. /\ ready \in Seq(Fibers) /\ Len(ready) \in Nat \ {0} /\ ready[1] = f /\ 1 \in 1..Len(ready)
  BY <1>1 DEF FibersInv, TypeOK
<1>3. /\ ready' \in Seq(Fibers) /\ Len(ready') = Len(ready) - 1
      /\ \A i \in 1..Len(ready') : ready'[i] = ready[i + 1] /\ i + 1 \in 1..Len(ready) /\ i + 1 # 1
  BY <1>1, <1>2
<1>4. \A i, j \in 1..Len(ready) : ready[i] = ready[j] => i = j
  BY DEF FibersInv, Queues
<1>5. \A i, j \in 1..Len(ready') : ready'[i] = ready'[j] => i = j
  <2> SUFFICES ASSUME NEW i \in 1..Len(ready'), NEW j \in 1..Len(ready'), ready'[i] = ready'[j]
               PROVE  i = j
    OBVIOUS
  <2>1. i + 1 = j + 1
    BY <1>3, <1>4
  <2> QED
    BY <2>1
<1>6. ASSUME NEW q \in Fibers PROVE InReady(q)' <=> InReady(q) /\ q # f
  <2>1. InReady(q)' => InReady(q) /\ q # f
    BY <1>2, <1>3, <1>4 DEF InReady
  <2>2. ASSUME NEW i \in 1..Len(ready), ready[i] = q, q # f PROVE InReady(q)'
    <3>1. i - 1 \in 1..Len(ready') /\ (i - 1) + 1 = i
      BY <1>2, <1>3, <2>2
    <3> QED
      BY <1>3, <2>2, <3>1 DEF InReady
  <2> QED
    BY <2>1, <2>2 DEF InReady
<1>7. /\ state[f] \in {"Starting", "Runnable"} /\ ~InParked(f) /\ f \notin timers
      /\ futures[f] # "empty" /\ ~AwaitsEnd(f) /\ \A g \in Fibers : state[g] # "Running"
  <2>1. InReady(f)
    BY <1>2 DEF InReady
  <2>2. state[f] \in {"Starting", "Runnable"} /\ \A g \in Fibers : state[g] # "Running"
    BY <1>1, <2>1, FibersAssumption DEF FibersInv, Queues
  <2> QED
    BY <2>2 DEF FibersInv, Reasons
<1>8. /\ state'[f] = "Running" /\ \A g \in Fibers : g # f => state'[g] = state[g]
      /\ joining'[f] = Null /\ \A g \in Fibers : g # f => joining'[g] = joining[g]
      /\ futures'[f] = Null /\ \A g \in Fibers : g # f => futures'[g] = futures[g]
      /\ \A h \in Handles : handle'[h] = IF h = joining[f] THEN NoHandle ELSE handle[h]
  BY <1>1 DEF FibersInv, TypeOK
<1>9. /\ joining[f] # Null => handle[joining[f]].completed /\ handle[joining[f]].waitee = f
      /\ \A g \in Fibers : g # f /\ joining[g] # Null =>
           joining[g] \in Handles /\ joining[g] # joining[f]
  BY <1>7 DEF AwaitsEnd, FibersInv, TypeOK, Joins
<1>10. TypeOK'
  <2>1. NoHandle \in [fiber : Fibers \cup {Null}, completed : BOOLEAN,
                      waitee : Fibers \cup {Null}, holder : Fibers \cup {Null}]
    BY DEF NoHandle
  <2>2. handle' \in [Handles -> [fiber : Fibers \cup {Null}, completed : BOOLEAN,
                                 waitee : Fibers \cup {Null}, holder : Fibers \cup {Null}]]
    BY <1>1, <2>1 DEF FibersInv, TypeOK
  <2> QED
    BY <1>1, <1>3, <2>2 DEF FibersInv, TypeOK, FiberState
<1>11. Queues'
  <2>1. \A g \in Fibers : InReady(g)' <=> state'[g] \in {"Starting", "Runnable"}
    BY <1>6, <1>8 DEF FibersInv, Queues
  <2>2. \A g \in Fibers : running' = g <=> state'[g] = "Running"
    BY <1>1, <1>7, <1>8
  <2> QED
    BY <1>1, <1>5, <2>1, <2>2 DEF FibersInv, Queues
<1>12. \A g \in Fibers : AwaitsEnd(g)' <=> AwaitsEnd(g)
  BY <1>7, <1>8, <1>9 DEF AwaitsEnd
<1>13. Reasons'
  <2>1. \A g \in Fibers : InParked(g)' <=> InParked(g)
    BY <1>1 DEF InParked
  <2>2. futures'[f] # "empty"
    BY <1>8, FibersAssumption
  <2> QED
    BY <1>1, <1>7, <1>8, <1>12, <2>1, <2>2 DEF FibersInv, Reasons
<1>14. Watching'
  <2>1. /\ \A h \in Handles : handle'[h].fiber = Null => handle'[h] = NoHandle
        /\ \A g \in Fibers : Live(g)' <=> Live(g)
    BY <1>7, <1>8 DEF FibersInv, Watching, Live
  <2>2. HandleWatches'
    <3>1. NoHandle.fiber = Null
      BY DEF NoHandle
    <3>2. \A h \in Handles : handle'[h].fiber # Null => handle'[h] = handle[h] /\ handle[h].fiber \in Fibers
      BY <1>8, <3>1 DEF FibersInv, TypeOK
    <3> QED
      BY <1>1, <2>1, <3>2 DEF FibersInv, Watching, HandleWatches
  <2>3. ASSUME NEW g \in Fibers, watcher[g] # Null
        PROVE  Live(g) /\ handle'[watcher[g]].fiber = g /\ ~handle'[watcher[g]].completed
    <3>1. /\ watcher[g] \in Handles /\ Live(g) /\ handle[watcher[g]].fiber = g
          /\ ~handle[watcher[g]].completed
      BY <2>3 DEF FibersInv, TypeOK, Watching
    <3> QED
      BY <1>8, <1>9, <3>1, FibersAssumption
  <2> QED
    BY <1>1, <2>1, <2>2, <2>3 DEF Watching, NoHandle
<1>15. Joins'
  <2>1. ASSUME NEW g \in Fibers, joining'[g] # Null
        PROVE  /\ handle'[joining'[g]].waitee = g /\ handle'[joining'[g]].holder = g
               /\ handle'[joining'[g]].fiber # Null /\ state'[g] \in {"Suspended", "Runnable"}
    BY <1>8, <1>9, <2>1 DEF FibersInv, Joins
  <2>2. ASSUME NEW h \in Handles, handle'[h].waitee # Null PROVE joining'[handle'[h].waitee] = h
    <3>1. h # joining[f] /\ handle'[h] = handle[h]
      BY <1>8, <2>2 DEF NoHandle
    <3>2. handle[h].waitee \in Fibers /\ joining[handle[h].waitee] = h
      BY <2>2, <3>1 DEF FibersInv, TypeOK, Joins
    <3> QED
      BY <1>8, <3>1, <3>2
  <2> QED
    BY <2>1, <2>2 DEF Joins
<1> QED
  BY <1>10, <1>11, <1>13, <1>14, <1>15 DEF FibersInv

\* A running fiber ends: its watcher is told and wakes the fiber in its Join.
LEMMA TerminateInv == ASSUME FibersInv, NEW f \in Fibers, Terminate(f) PROVE FibersInv'
<1>1. /\ running = f /\ running' = Null /\ Destroy(f)
      /\ UNCHANGED <<timers, futures, parked, joining>>
      /\ watcher' = [watcher EXCEPT ![f] = Null]
  BY DEF Terminate, Destroy, waiting
<1>2. /\ state[f] = "Running" /\ ~InReady(f) /\ ~InParked(f) /\ f \notin timers
      /\ futures[f] # "empty" /\ joining[f] = Null /\ ~AwaitsEnd(f)
      /\ \A g \in Fibers : g # f => state[g] # "Running"
      /\ \A h \in Handles : handle[h].waitee # f
  BY <1>1, RunningAlone DEF AwaitsEnd
<1>3. /\ watcher'[f] = Null /\ \A g \in Fibers : g # f => watcher'[g] = watcher[g]
      /\ \A g \in Fibers : InParked(g)' <=> InParked(g)
  BY <1>1 DEF FibersInv, TypeOK, InParked
<1>4. /\ watcher[f] \in Handles \cup {Null}
      /\ \A h \in Handles : handle[h].fiber = f /\ ~handle[h].completed => watcher[f] = h
      /\ watcher[f] # Null => handle[watcher[f]].fiber = f /\ ~handle[watcher[f]].completed
  BY FibersAssumption DEF FibersInv, TypeOK, Watching, HandleWatches
\* who is woken, if anybody
<1> DEFINE w == IF watcher[f] = Null THEN Null ELSE handle[watcher[f]].waitee
<1>5. /\ w \in Fibers \cup {Null} /\ w # f
      /\ \A g \in Fibers : w = g <=> AwaitsEnd(g) /\ joining[g] = watcher[f]
  <2>1. CASE watcher[f] = Null
    BY <1>2, <2>1, FibersAssumption DEF AwaitsEnd
  <2>2. CASE watcher[f] \in Handles
    <3>1. w = handle[watcher[f]].waitee /\ watcher[f] # Null
      BY <2>2, FibersAssumption
    <3>2. w \in Fibers \cup {Null} /\ w # f
      BY <1>2, <2>2, <3>1 DEF FibersInv, TypeOK
    <3>3. ASSUME NEW g \in Fibers, w = g PROVE AwaitsEnd(g) /\ joining[g] = watcher[f]
      <4>1. joining[g] = watcher[f]
        BY <2>2, <3>1, <3>3, FibersAssumption DEF FibersInv, Joins
      <4> QED
        BY <1>4, <3>1, <4>1 DEF AwaitsEnd
    <3>4. ASSUME NEW g \in Fibers, joining[g] = watcher[f] PROVE w = g
      BY <3>1, <3>4 DEF FibersInv, Joins
    <3> QED
      BY <3>2, <3>3, <3>4
  <2> QED
    BY <1>4, <2>1, <2>2
<1>6. /\ \A h \in Handles : h # watcher[f] => handle'[h] = handle[h]
      /\ watcher[f] # Null =>
           /\ handle'[watcher[f]].completed /\ handle'[watcher[f]].fiber = f
           /\ handle'[watcher[f]].waitee = handle[watcher[f]].waitee
           /\ handle'[watcher[f]].holder = handle[watcher[f]].holder
      /\ handle' \in [Handles -> [fiber : Fibers \cup {Null}, completed : BOOLEAN,
                                  waitee : Fibers \cup {Null}, holder : Fibers \cup {Null}]]
  <2>1. handle \in [Handles -> [fiber : Fibers \cup {Null}, completed : BOOLEAN,
                                waitee : Fibers \cup {Null}, holder : Fibers \cup {Null}]]
    BY DEF FibersInv, TypeOK
  <2>2. CASE watcher[f] = Null
    BY <1>1, <2>1, <2>2 DEF Destroy
  <2>3. CASE watcher[f] \in Handles
    <3>1. handle' = [handle EXCEPT ![watcher[f]].completed = TRUE]
      BY <1>1, <2>3, FibersAssumption DEF Destroy, OnCompleted
    <3> QED
      BY <1>4, <2>1, <2>3, <3>1, FibersAssumption
  <2> QED
    BY <1>4, <2>2, <2>3
<1>7. /\ state'[f] = "Free" /\ state' \in [Fibers -> FiberState]
      /\ \A g \in Fibers : g # f => state'[g] = IF g = w THEN "Runnable" ELSE state[g]
      /\ IF w = Null THEN UNCHANGED ready ELSE Schedule(w)
  <2>1. state \in [Fibers -> FiberState] /\ "Free" \in FiberState /\ "Runnable" \in FiberState
    BY DEF FibersInv, TypeOK, FiberState
  <2>2. IF w = Null THEN state' = [state EXCEPT ![f] = "Free"] /\ UNCHANGED ready
                    ELSE state' = [state EXCEPT ![f] = "Free", ![w] = "Runnable"] /\ Schedule(w)
    BY <1>1 DEF Destroy, OnCompleted
  <2> HIDE DEF w
  <2> QED
    BY <1>5, <2>1, <2>2, FibersAssumption
<1> HIDE DEF w
<1>8. w # Null => w \in Fibers /\ state[w] = "Suspended" /\ ~InReady(w)
  BY <1>5 DEF FibersInv, Reasons, Queues
<1>9. /\ ready' \in Seq(Fibers) /\ \A i, j \in 1..Len(ready') : ready'[i] = ready'[j] => i = j
      /\ \A g \in Fibers : InReady(g)' <=> InReady(g) \/ g = w
  <2>1. CASE w = Null
    BY <1>7, <2>1, FibersAssumption DEF FibersInv, TypeOK, Queues, InReady
  <2>2. CASE w # Null
    BY <1>7, <1>8, <2>2, PostsOnce DEF InReady
  <2> QED
    BY <2>1, <2>2
<1>10. TypeOK'
  BY <1>1, <1>6, <1>7, <1>9 DEF FibersInv, TypeOK
<1>11. Queues'
  <2>1. \A g \in Fibers : InReady(g)' <=> state'[g] \in {"Starting", "Runnable"}
    BY <1>2, <1>5, <1>7, <1>9, FibersAssumption DEF FibersInv, Queues
  <2>2. \A g \in Fibers : running' = g <=> state'[g] = "Running"
    BY <1>1, <1>2, <1>7, FibersAssumption
  <2> QED
    BY <1>1, <1>9, <2>1, <2>2 DEF FibersInv, Queues
<1>12. ASSUME NEW g \in Fibers PROVE AwaitsEnd(g)' <=> AwaitsEnd(g) /\ g # w
  <2>1. CASE joining[g] = Null
    BY <1>1, <2>1 DEF AwaitsEnd
  <2>2. CASE joining[g] \in Handles /\ joining[g] = watcher[f]
    BY <1>1, <1>5, <1>6, <2>2, FibersAssumption DEF AwaitsEnd
  <2>3. CASE joining[g] \in Handles /\ joining[g] # watcher[f]
    BY <1>1, <1>5, <1>6, <2>3 DEF AwaitsEnd
  <2> QED
    BY <2>1, <2>2, <2>3 DEF FibersInv, TypeOK
<1>13. Reasons'
  <2>1. \A g \in Fibers : AwaitsEnd(g)' <=> AwaitsEnd(g) /\ g # w
    BY <1>12
  <2>2. \A g \in Fibers : g = w => AwaitsEnd(g)
    BY <1>5
  <2> QED
    BY <1>1, <1>2, <1>3, <1>5, <1>7, <2>1, <2>2 DEF FibersInv, Reasons
<1>14. Watching'
  <2>1. \A h \in Handles : handle'[h].fiber = Null => handle'[h] = NoHandle
    BY <1>4, <1>6, FibersAssumption DEF FibersInv, Watching
  <2>2. ASSUME NEW h \in Handles, handle'[h].fiber # Null, ~handle'[h].completed
        PROVE  state'[handle'[h].fiber] # "Free" /\ watcher'[handle'[h].fiber] = h
    <3>1. h # watcher[f] /\ handle'[h] = handle[h]
      BY <1>6, <2>2, FibersAssumption
    <3>2. /\ handle[h].fiber \in Fibers /\ handle[h].fiber # f
          /\ state[handle[h].fiber] # "Free" /\ watcher[handle[h].fiber] = h
      BY <1>4, <2>2, <3>1 DEF FibersInv, TypeOK, Watching, HandleWatches, Live
    <3> QED
      BY <1>3, <1>7, <3>1, <3>2
  <2>3. ASSUME NEW g \in Fibers, watcher'[g] # Null
        PROVE  Live(g)' /\ handle'[watcher'[g]].fiber = g /\ ~handle'[watcher'[g]].completed
    <3>1. g # f /\ watcher'[g] = watcher[g]
      BY <1>3, <2>3
    <3>2. /\ watcher[g] \in Handles /\ state[g] # "Free" /\ handle[watcher[g]].fiber = g
          /\ ~handle[watcher[g]].completed
      BY <2>3, <3>1 DEF FibersInv, TypeOK, Watching, Live
    <3>3. watcher[g] # watcher[f]
      BY <1>4, <3>1, <3>2, FibersAssumption
    <3> QED
      BY <1>6, <1>7, <3>1, <3>2, <3>3 DEF Live
  <2> QED
    BY <2>1, <2>2, <2>3 DEF Watching, HandleWatches, NoHandle, Live
<1>15. Joins'
  <2>1. /\ \A h \in Handles : /\ handle'[h].waitee = handle[h].waitee
                              /\ handle'[h].holder = handle[h].holder
                              /\ handle'[h].fiber = handle[h].fiber
    BY <1>4, <1>6, FibersAssumption
  <2>2. ASSUME NEW g \in Fibers, joining'[g] # Null
        PROVE  /\ handle'[joining'[g]].waitee = g /\ handle'[joining'[g]].holder = g
               /\ handle'[joining'[g]].fiber # Null /\ state'[g] \in {"Suspended", "Runnable"}
    <3>1. joining'[g] = joining[g] /\ joining[g] \in Handles /\ g # f
      BY <1>1, <1>2, <2>2 DEF FibersInv, TypeOK
    <3> QED
      BY <1>7, <2>1, <2>2, <3>1 DEF FibersInv, Joins
  <2>3. ASSUME NEW h \in Handles, handle'[h].waitee # Null PROVE joining'[handle'[h].waitee] = h
    BY <1>1, <2>1, <2>3 DEF FibersInv, Joins
  <2> QED
    BY <2>2, <2>3 DEF Joins
<1> QED
  BY <1>10, <1>11, <1>13, <1>14, <1>15 DEF FibersInv

\* A new fiber is posted, with a handle that nobody had.
LEMMA SpawnInv ==
  ASSUME FibersInv, NEW f \in Fibers, NEW g \in Fibers, NEW h \in Handles, Spawn(f, g, h)
  PROVE  FibersInv'
<1> DEFINE n == [NoHandle EXCEPT !.fiber = g, !.holder = f]
<1>1. /\ running = f /\ state[g] = "Free" /\ handle[h] = NoHandle
      /\ state' = [state EXCEPT ![g] = "Starting"] /\ watcher' = [watcher EXCEPT ![g] = h]
      /\ handle' = [handle EXCEPT ![h] = n] /\ Schedule(g)
      /\ UNCHANGED <<running, timers, futures, parked, joining>>
  BY DEF Spawn, Live, waiting
<1>2. /\ n.fiber = g /\ ~n.completed /\ n.waitee = Null
      /\ n \in [fiber : Fibers \cup {Null}, completed : BOOLEAN,
                waitee : Fibers \cup {Null}, holder : Fibers \cup {Null}]
  BY DEF NoHandle
<1> HIDE DEF n
<1>3. /\ state'[g] = "Starting" /\ \A k \in Fibers : k # g => state'[k] = state[k]
      /\ watcher'[g] = h /\ \A k \in Fibers : k # g => watcher'[k] = watcher[k]
      /\ handle'[h] = n /\ \A o \in Handles : o # h => handle'[o] = handle[o]
  BY <1>1 DEF FibersInv, TypeOK
<1>4. /\ NoHandle.fiber = Null /\ NoHandle.waitee = Null
      /\ \A k \in Fibers : joining[k] # h /\ watcher[k] # h
  <2>1. NoHandle.fiber = Null /\ NoHandle.waitee = Null
    BY DEF NoHandle
  <2> QED
    BY <1>1, <2>1, FibersAssumption DEF FibersInv, Joins, Watching
<1>5. /\ ~InReady(g) /\ ~InParked(g) /\ g \notin timers /\ futures[g] # "empty"
      /\ ~AwaitsEnd(g) /\ joining[g] = Null /\ g # f
  BY <1>1 DEF FibersInv, Queues, Reasons, Joins
<1>6. /\ ready' \in Seq(Fibers) /\ \A i, j \in 1..Len(ready') : ready'[i] = ready'[j] => i = j
      /\ \A k \in Fibers : InReady(k)' <=> InReady(k) \/ k = g
  BY <1>1, <1>5, PostsOnce DEF InReady
<1>7. TypeOK'
  <2>1. handle' \in [Handles -> [fiber : Fibers \cup {Null}, completed : BOOLEAN,
                                 waitee : Fibers \cup {Null}, holder : Fibers \cup {Null}]]
    BY <1>1, <1>2 DEF FibersInv, TypeOK
  <2> QED
    BY <1>1, <1>6, <2>1 DEF FibersInv, TypeOK, FiberState
<1>8. Queues'
  <2>1. \A k \in Fibers : InReady(k)' <=> state'[k] \in {"Starting", "Runnable"}
    BY <1>3, <1>6 DEF FibersInv, Queues
  <2>2. \A k \in Fibers : running' = k <=> state'[k] = "Running"
    BY <1>1, <1>3, <1>5 DEF FibersInv, Queues
  <2> QED
    BY <1>1, <1>6, <2>1, <2>2 DEF FibersInv, Queues
<1>9. Reasons'
  <2>1. \A k \in Fibers : (InParked(k)' <=> InParked(k)) /\ (AwaitsEnd(k)' <=> AwaitsEnd(k))
    BY <1>1, <1>3, <1>4 DEF InParked, AwaitsEnd, FibersInv, TypeOK
  <2> QED
    BY <1>1, <1>3, <1>5, <2>1 DEF FibersInv, Reasons
<1>10. Watching'
  <2>1. \A o \in Handles : handle'[o].fiber = Null => handle'[o] = NoHandle
    BY <1>2, <1>3, FibersAssumption DEF FibersInv, Watching
  <2>2. ASSUME NEW o \in Handles, handle'[o].fiber # Null, ~handle'[o].completed
        PROVE  state'[handle'[o].fiber] # "Free" /\ watcher'[handle'[o].fiber] = o
    <3>1. CASE o = h
      BY <1>2, <1>3, <3>1
    <3>2. CASE o # h
      <4>1. /\ handle'[o] = handle[o] /\ handle[o].fiber \in Fibers
            /\ state[handle[o].fiber] # "Free" /\ watcher[handle[o].fiber] = o
        BY <1>3, <2>2, <3>2 DEF FibersInv, TypeOK, Watching, HandleWatches, Live
      <4> QED
        BY <1>1, <1>3, <4>1
    <3> QED
      BY <3>1, <3>2
  <2>3. ASSUME NEW k \in Fibers, watcher'[k] # Null
        PROVE  Live(k)' /\ handle'[watcher'[k]].fiber = k /\ ~handle'[watcher'[k]].completed
    <3>1. CASE k = g
      BY <1>2, <1>3, <3>1 DEF Live
    <3>2. CASE k # g
      <4>1. /\ watcher'[k] = watcher[k] /\ watcher[k] \in Handles /\ watcher[k] # h
            /\ state[k] # "Free" /\ handle[watcher[k]].fiber = k /\ ~handle[watcher[k]].completed
        BY <1>3, <1>4, <2>3, <3>2 DEF FibersInv, TypeOK, Watching, Live
      <4> QED
        BY <1>3, <3>2, <4>1 DEF Live
    <3> QED
      BY <3>1, <3>2
  <2> QED
    BY <2>1, <2>2, <2>3 DEF Watching, HandleWatches, NoHandle, Live
<1>11. Joins'
  <2>1. ASSUME NEW k \in Fibers, joining'[k] # Null
        PROVE  /\ handle'[joining'[k]].waitee = k /\ handle'[joining'[k]].holder = k
               /\ handle'[joining'[k]].fiber # Null /\ state'[k] \in {"Suspended", "Runnable"}
    <3>1. /\ joining'[k] = joining[k] /\ joining[k] \in Handles /\ joining[k] # h /\ k # g
      BY <1>1, <1>4, <1>5, <2>1 DEF FibersInv, TypeOK
    <3> QED
      BY <1>3, <2>1, <3>1 DEF FibersInv, Joins
  <2>2. ASSUME NEW o \in Handles, handle'[o].waitee # Null PROVE joining'[handle'[o].waitee] = o
    <3>1. handle'[o] = handle[o]
      BY <1>2, <1>3, <2>2
    <3> QED
      BY <1>1, <2>2, <3>1 DEF FibersInv, Joins
  <2> QED
    BY <2>1, <2>2 DEF Joins
<1> QED
  BY <1>7, <1>8, <1>9, <1>10, <1>11 DEF FibersInv

\* A call that changes handles on which nobody waits, and their watching.
LEMMA HandlesChange ==
  ASSUME FibersInv, UNCHANGED <<state, running, ready, timers, futures, parked, joining>>,
         watcher' \in [Fibers -> Handles \cup {Null}],
         handle' \in [Handles -> [fiber : Fibers \cup {Null}, completed : BOOLEAN,
                                  waitee : Fibers \cup {Null}, holder : Fibers \cup {Null}]],
         \A o \in Handles :
           \/ handle'[o] = handle[o]
           \/ handle'[o].waitee = Null /\ \A k \in Fibers : joining[k] # o,
         Watching'
  PROVE  FibersInv'
<1>1. TypeOK' /\ Queues'
  BY DEF FibersInv, TypeOK, Queues, InReady
<1>2. \A k \in Fibers : joining[k] # Null => joining[k] \in Handles /\ handle'[joining[k]] = handle[joining[k]]
  BY DEF FibersInv, TypeOK
<1>3. Reasons'
  <2>1. \A k \in Fibers : (InParked(k)' <=> InParked(k)) /\ (AwaitsEnd(k)' <=> AwaitsEnd(k))
    BY <1>2 DEF InParked, AwaitsEnd
  <2> QED
    BY <2>1 DEF FibersInv, Reasons
<1>4. Joins'
  BY <1>2 DEF FibersInv, Joins
<1> QED
  BY <1>1, <1>3, <1>4 DEF FibersInv

\* A handle is done with, or another one takes its place.
LEMMA HandleCallInv ==
  ASSUME FibersInv, ~LateDetach, NEW f \in Fibers, HandleCall(f)
  PROVE  FibersInv'
<1>1. PICK h \in Handles : JoinReturnsAtOnce(f, h) \/ Detach(f, h) \/ \E to \in Handles : Move(f, h, to)
  BY DEF HandleCall
<1>2. Attached(f, h) /\ UNCHANGED <<state, running, ready, timers, futures, parked, joining>>
  BY <1>1 DEF JoinReturnsAtOnce, Detach, Move, waiting
<1>3. /\ handle[h].fiber \in Fibers /\ handle[h].waitee = Null
      /\ \A k \in Fibers : joining[k] # h
  BY <1>2, AttachedAlone
<1>4. /\ handle \in [Handles -> [fiber : Fibers \cup {Null}, completed : BOOLEAN,
                                 waitee : Fibers \cup {Null}, holder : Fibers \cup {Null}]]
      /\ NoHandle \in [fiber : Fibers \cup {Null}, completed : BOOLEAN,
                       waitee : Fibers \cup {Null}, holder : Fibers \cup {Null}]
      /\ NoHandle.fiber = Null /\ NoHandle.waitee = Null
      /\ watcher \in [Fibers -> Handles \cup {Null}]
  BY DEF FibersInv, TypeOK, NoHandle
<1>5. /\ \A o \in Handles : handle[o].fiber # Null /\ ~handle[o].completed =>
           /\ handle[o].fiber \in Fibers /\ state[handle[o].fiber] # "Free"
           /\ watcher[handle[o].fiber] = o
      /\ \A k \in Fibers : watcher[k] # Null =>
           /\ watcher[k] \in Handles /\ state[k] # "Free"
           /\ handle[watcher[k]].fiber = k /\ ~handle[watcher[k]].completed
      /\ \A o \in Handles : handle[o].fiber = Null => handle[o] = NoHandle
  BY DEF FibersInv, TypeOK, Watching, HandleWatches, Live
<1>6. ASSUME \A o \in Handles : handle'[o].fiber = Null => handle'[o] = NoHandle,
             \A o \in Handles : handle'[o].fiber # Null /\ ~handle'[o].completed =>
               state[handle'[o].fiber] # "Free" /\ watcher'[handle'[o].fiber] = o,
             \A k \in Fibers : watcher'[k] # Null =>
               /\ state[k] # "Free" /\ handle'[watcher'[k]].fiber = k
               /\ ~handle'[watcher'[k]].completed
      PROVE  Watching'
  BY <1>2, <1>6 DEF Watching, HandleWatches, Live, NoHandle
<1>7. CASE JoinReturnsAtOnce(f, h)
  <2>1. handle[h].completed /\ handle' = [handle EXCEPT ![h] = NoHandle] /\ watcher' = watcher
    BY <1>7 DEF JoinReturnsAtOnce
  <2>2. handle'[h] = NoHandle /\ \A o \in Handles : o # h => handle'[o] = handle[o]
    BY <1>4, <2>1
  <2>3. Watching'
    <3>1. \A k \in Fibers : watcher[k] # h
      BY <1>5, <2>1, FibersAssumption
    <3> QED
      BY <1>4, <1>5, <1>6, <2>1, <2>2, <3>1
  <2>4. /\ handle' \in [Handles -> [fiber : Fibers \cup {Null}, completed : BOOLEAN,
                                    waitee : Fibers \cup {Null}, holder : Fibers \cup {Null}]]
        /\ \A o \in Handles :
             \/ handle'[o] = handle[o]
             \/ handle'[o].waitee = Null /\ \A k \in Fibers : joining[k] # o
    BY <1>3, <1>4, <2>1, <2>2
  <2> QED
    BY <1>2, <1>4, <2>1, <2>3, <2>4, HandlesChange
<1>8. CASE Detach(f, h)
  <2>1. /\ ~handle[h].completed /\ handle' = [handle EXCEPT ![h] = NoHandle]
        /\ watcher' = [watcher EXCEPT ![handle[h].fiber] = Null]
    BY <1>8 DEF Detach
  <2>2. /\ handle'[h] = NoHandle /\ \A o \in Handles : o # h => handle'[o] = handle[o]
        /\ watcher'[handle[h].fiber] = Null
        /\ \A k \in Fibers : k # handle[h].fiber => watcher'[k] = watcher[k]
    BY <1>3, <1>4, <2>1
  <2>3. Watching'
    <3>1. watcher[handle[h].fiber] = h
      BY <1>3, <1>5, <2>1, FibersAssumption
    <3>2. ASSUME NEW o \in Handles, handle'[o].fiber # Null, ~handle'[o].completed
          PROVE  state[handle'[o].fiber] # "Free" /\ watcher'[handle'[o].fiber] = o
      <4>1. o # h /\ handle'[o] = handle[o]
        BY <1>4, <2>2, <3>2
      <4>2. handle[o].fiber # handle[h].fiber
        BY <1>5, <3>1, <3>2, <4>1
      <4> QED
        BY <1>5, <2>2, <3>2, <4>1, <4>2
    <3>3. ASSUME NEW k \in Fibers, watcher'[k] # Null
          PROVE  /\ state[k] # "Free" /\ handle'[watcher'[k]].fiber = k
                 /\ ~handle'[watcher'[k]].completed
      <4>1. k # handle[h].fiber /\ watcher'[k] = watcher[k] /\ watcher[k] # h
        BY <1>5, <2>2, <3>3
      <4> QED
        BY <1>5, <2>2, <3>3, <4>1
    <3> QED
      BY <1>5, <1>6, <2>2, <3>2, <3>3
  <2>4. watcher' \in [Fibers -> Handles \cup {Null}]
    BY <1>4, <2>1
  <2>5. /\ handle' \in [Handles -> [fiber : Fibers \cup {Null}, completed : BOOLEAN,
                                    waitee : Fibers \cup {Null}, holder : Fibers \cup {Null}]]
        /\ \A o \in Handles :
             \/ handle'[o] = handle[o]
             \/ handle'[o].waitee = Null /\ \A k \in Fibers : joining[k] # o
    BY <1>3, <1>4, <2>1, <2>2
  <2> QED
    BY <1>2, <2>3, <2>4, <2>5, HandlesChange
<1>9. CASE \E to \in Handles : Move(f, h, to)
  <2>1. PICK to \in Handles : Move(f, h, to)
    BY <1>9
  <2>2. /\ handle[to] = NoHandle /\ handle' = [handle EXCEPT ![h] = NoHandle, ![to] = handle[h]]
        /\ watcher' = IF handle[h].completed THEN watcher
                      ELSE [watcher EXCEPT ![handle[h].fiber] = to]
    BY <2>1 DEF Move
  <2>3. to # h /\ \A k \in Fibers : watcher[k] # to /\ joining[k] # to
    BY <1>3, <1>4, <1>5, <2>2, FibersAssumption DEF FibersInv, Joins
  <2>4. /\ handle'[h] = NoHandle /\ handle'[to] = handle[h]
        /\ \A o \in Handles : o # h /\ o # to => handle'[o] = handle[o]
        /\ \A k \in Fibers : watcher'[k] = IF k = handle[h].fiber /\ ~handle[h].completed
                                           THEN to ELSE watcher[k]
    BY <1>3, <1>4, <2>2, <2>3
  <2>5. Watching'
    <3>1. \A k \in Fibers : watcher[k] = h <=> k = handle[h].fiber /\ ~handle[h].completed
      BY <1>3, <1>5, FibersAssumption
    <3>2. ASSUME NEW o \in Handles, handle'[o].fiber # Null, ~handle'[o].completed
          PROVE  state[handle'[o].fiber] # "Free" /\ watcher'[handle'[o].fiber] = o
      <4>1. CASE o = to
        BY <1>3, <1>5, <2>4, <3>2, <4>1
      <4>2. CASE o # to
        <5>1. o # h /\ handle'[o] = handle[o]
          BY <1>4, <2>4, <3>2, <4>2
        <5> QED
          BY <1>5, <2>4, <3>1, <3>2, <5>1
      <4> QED
        BY <4>1, <4>2
    <3>3. ASSUME NEW k \in Fibers, watcher'[k] # Null
          PROVE  /\ state[k] # "Free" /\ handle'[watcher'[k]].fiber = k
                 /\ ~handle'[watcher'[k]].completed
      <4>1. CASE watcher'[k] = to
        BY <1>5, <2>3, <2>4, <3>1, <4>1, FibersAssumption
      <4>2. CASE watcher'[k] # to
        BY <1>5, <2>3, <2>4, <3>1, <3>3, <4>2
      <4> QED
        BY <4>1, <4>2
    <3>4. \A o \in Handles : handle'[o].fiber = Null => handle'[o] = NoHandle
      BY <1>3, <1>5, <2>4, FibersAssumption
    <3> QED
      BY <1>6, <3>2, <3>3, <3>4
  <2>6. watcher' \in [Fibers -> Handles \cup {Null}]
    BY <1>4, <2>2
  <2>7. /\ handle' \in [Handles -> [fiber : Fibers \cup {Null}, completed : BOOLEAN,
                                    waitee : Fibers \cup {Null}, holder : Fibers \cup {Null}]]
        /\ \A o \in Handles :
             \/ handle'[o] = handle[o]
             \/ handle'[o].waitee = Null /\ \A k \in Fibers : joining[k] # o
    <3>1. handle[h] \in [fiber : Fibers \cup {Null}, completed : BOOLEAN,
                         waitee : Fibers \cup {Null}, holder : Fibers \cup {Null}]
      BY <1>4
    <3>2. handle' \in [Handles -> [fiber : Fibers \cup {Null}, completed : BOOLEAN,
                                   waitee : Fibers \cup {Null}, holder : Fibers \cup {Null}]]
      BY <1>4, <2>2, <3>1
    <3> QED
      BY <1>3, <1>4, <2>3, <2>4, <3>2
  <2> QED
    BY <1>2, <2>5, <2>6, <2>7, HandlesChange
<1> QED
  BY <1>1, <1>7, <1>8, <1>9

\* Every step keeps the invariant.
LEMMA FibersNext == ASSUME FibersInv, ~LateDetach, [Next]_vars PROVE FibersInv'
<1>1. ASSUME NEW f \in Fibers, Step(f) \/ Handler(f) PROVE FibersInv'
  BY <1>1, StepInv, HandlerInv
<1>2. ASSUME NEW f \in Fibers, Call(f) PROVE FibersInv'
  BY <1>2, SpawnInv, HandleCallInv, WakesInv DEF Call
<1>3. ASSUME NEW f \in Fibers, Leave(f) PROVE FibersInv'
  BY <1>3, YieldInv, SuspendsInv, TerminateInv DEF Leave
<1>4. CASE UNCHANGED vars
  BY <1>4 DEF vars, waiting, FibersInv, TypeOK, Queues, Reasons, Watching, Joins, InReady,
              InParked, AwaitsEnd, HandleWatches, Live
<1> QED
  BY <1>1, <1>2, <1>3, <1>4 DEF Next, RunReturns

(***************************************************************************)
(* If no routine Detaches from a fiber that has completed, the places of   *)
(* the fibers, their handles and their joins agree for ever.               *)
(***************************************************************************)
THEOREM FibersInvariance == ASSUME ~LateDetach PROVE Spec => []FibersInv
<1>1. FibersInv /\ [Next]_vars => FibersInv'
  BY FibersNext
<1> QED
  BY <1>1, FibersInit, PTL DEF Spec

\* What a queue without repetitions holds is there once.
LEMMA OccursOnce ==
  ASSUME NEW s \in Seq(Fibers), NEW x, \A i, j \in 1..Len(s) : s[i] = s[j] => i = j
  PROVE  Occurrences(x, s) = IF \E i \in 1..Len(s) : s[i] = x THEN 1 ELSE 0
<1> DEFINE S == {i \in 1..Len(s) : s[i] = x}
<1>1. CASE \E i \in 1..Len(s) : s[i] = x
  <2>1. PICK i \in 1..Len(s) : s[i] = x
    BY <1>1
  <2>2. S = {i}
    BY <2>1
  <2> QED
    BY <1>1, <2>2, FS_Singleton DEF Occurrences
<1>2. CASE ~ \E i \in 1..Len(s) : s[i] = x
  <2>1. S = {}
    BY <1>2
  <2> QED
    BY <1>2, <2>1, FS_EmptySet DEF Occurrences
<1> QED
  BY <1>1, <1>2

\* One handle at most is to resume f.
LEMMA OneWaitee ==
  ASSUME FibersInv, NEW f \in Fibers
  PROVE  Cardinality({h \in Handles : handle[h].waitee = f /\ ~handle[h].completed})
           = IF AwaitsEnd(f) THEN 1 ELSE 0
<1> DEFINE S == {h \in Handles : handle[h].waitee = f /\ ~handle[h].completed}
<1>1. /\ \A h \in S : joining[f] = h /\ AwaitsEnd(f)
      /\ joining[f] # Null => joining[f] \in Handles /\ handle[joining[f]].waitee = f
  BY FibersAssumption DEF FibersInv, TypeOK, Joins, AwaitsEnd
<1>2. CASE AwaitsEnd(f)
  <2>1. S = {joining[f]}
    BY <1>1, <1>2 DEF AwaitsEnd
  <2> QED
    BY <1>2, <2>1, FS_Singleton
<1>3. CASE ~AwaitsEnd(f)
  <2>1. S = {}
    BY <1>1, <1>3
  <2> QED
    BY <1>3, <2>1, FS_EmptySet
<1> QED
  BY <1>2, <1>3

(***************************************************************************)
(* At every moment each fiber is posted once, or runs, or waits for        *)
(* exactly one Resume, as its state says, and handles are told of the end: *)
(* Resume, Reschedule and Get never meet a fiber they do not expect.       *)
(***************************************************************************)
THEOREM FibersInOnePlace == ASSUME ~LateDetach PROVE Spec => []OnePlace
<1>1. FibersInv => OnePlace
  <2> SUFFICES ASSUME FibersInv PROVE OnePlace
    OBVIOUS
  <2>1. ASSUME NEW f \in Fibers
        PROVE  /\ Occurrences(f, ready) = IF state[f] \in {"Starting", "Runnable"} THEN 1 ELSE 0
               /\ Waits(f) = IF state[f] = "Suspended" THEN 1 ELSE 0
               /\ state[f] = "Running" <=> running = f
    <3>1. /\ Occurrences(f, ready) = IF InReady(f) THEN 1 ELSE 0
          /\ Occurrences(f, parked) = IF InParked(f) THEN 1 ELSE 0
      BY OccursOnce DEF FibersInv, TypeOK, Queues, InReady, InParked
    <3>2. Waits(f) = (IF InParked(f) THEN 1 ELSE 0) + (IF AwaitsEnd(f) THEN 1 ELSE 0)
                       + (IF f \in timers THEN 1 ELSE 0)
                       + (IF futures[f] = "empty" THEN 1 ELSE 0)
      BY <3>1, OneWaitee DEF Waits
    <3>3. Waits(f) = IF state[f] = "Suspended" THEN 1 ELSE 0
      BY <3>2 DEF FibersInv, Reasons
    <3> QED
      BY <3>1, <3>3 DEF FibersInv, Queues
  <2> QED
    BY <2>1 DEF OnePlace, FibersInv, Watching
<1> QED
  BY <1>1, FibersInvariance, PTL

(***************************************************************************)
(* A fiber leaves Join only by a Step, and the loop steps it only once the *)
(* fiber it joins has completed.                                           *)
(***************************************************************************)
THEOREM JoinsAreKept == ASSUME ~LateDetach PROVE Spec => JoinWaits
<1>1. FibersInv /\ [Next]_vars => [ReturnsAfterEnd]_vars
  <2> SUFFICES ASSUME FibersInv, Next, NEW f \in Fibers, joining[f] # Null, joining'[f] = Null
               PROVE  handle[joining[f]].completed
    BY DEF ReturnsAfterEnd
  <2>1. joining \in [Fibers -> Handles \cup {Null}] /\ joining' # joining
    BY DEF FibersInv, TypeOK
  <2>2. ~ \E h \in Handles, g \in Fibers : JoinParks(g, h)
    <3> SUFFICES ASSUME NEW h \in Handles, NEW g \in Fibers, JoinParks(g, h) PROVE FALSE
      OBVIOUS
    <3>1. joining' = [joining EXCEPT ![g] = h]
      BY DEF JoinParks
    <3> QED
      BY <2>1, <3>1, FibersAssumption
  <2>3. \E g \in Fibers : Step(g)
    BY <2>1, <2>2 DEF Next, Handler, TimerFires, Set, Call, Spawn, HandleCall, JoinReturnsAtOnce,
       Detach, Move, WaitQueueCall, WakeOne, WakeAll, Leave, Yield, SleepFor, Get, Park, Terminate,
       RunReturns, vars, waiting
  <2>4. PICK g \in Fibers : Step(g)
    BY <2>3
  <2>5. joining' = [joining EXCEPT ![g] = Null] /\ ready # <<>> /\ g = Head(ready)
    BY <2>4 DEF Step
  <2>6. g = f
    BY <2>1, <2>5
  <2>7. InReady(f)
    BY <2>5, <2>6 DEF FibersInv, TypeOK, InReady
  <2>8. ~AwaitsEnd(f)
    BY <2>7 DEF FibersInv, Queues, Reasons
  <2> QED
    BY <2>8 DEF AwaitsEnd
<1> QED
  BY <1>1, FibersInvariance, PTL DEF Spec, JoinWaits

\* When the loop has nothing left to run or to await, so that run() returns, the
\* fibers that are left wait for one another: in the wait queue, or in a Join of
\* a fiber that is left as well.
LeftAreWaiting ==
    running = Null /\ ready = <<>> /\ timers = {} /\ (\A f \in Fibers : futures[f] = Null) =>
      \A f \in Fibers : Live(f) =>
        \/ InParked(f)
        \/ joining[f] # Null /\ Live(handle[joining[f]].fiber)

\* run() leaves nobody behind who slept, yielded, awaited an operation or joined
\* a fiber that has completed.
THEOREM RunLeavesOnlyWaiters == ASSUME ~LateDetach PROVE Spec => []LeftAreWaiting
<1>1. ASSUME FibersInv PROVE LeftAreWaiting
  <2> SUFFICES ASSUME running = Null, ready = <<>>, timers = {},
                      \A g \in Fibers : futures[g] = Null,
                      NEW f \in Fibers, Live(f), ~InParked(f)
               PROVE  joining[f] # Null /\ Live(handle[joining[f]].fiber)
    BY DEF LeftAreWaiting
  <2>1. /\ state \in [Fibers -> FiberState] /\ joining \in [Fibers -> Handles \cup {Null}]
        /\ Null \notin Fibers /\ Null # "empty"
    BY <1>1, FibersAssumption DEF FibersInv, TypeOK
  <2>2. ~InReady(f) /\ running # f
    BY <2>1 DEF InReady
  <2>3. state[f] = "Suspended"
    BY <1>1, <2>1, <2>2 DEF FibersInv, Queues, Live, FiberState
  <2>4. AwaitsEnd(f)
    BY <1>1, <2>1, <2>3 DEF FibersInv, Reasons
  <2>5. joining[f] \in Handles /\ handle[joining[f]].fiber # Null
    BY <1>1, <2>1, <2>4 DEF FibersInv, Joins, AwaitsEnd
  <2> QED
    BY <1>1, <2>4, <2>5 DEF FibersInv, Watching, HandleWatches, AwaitsEnd
<1> QED
  BY <1>1, FibersInvariance, PTL

-----------------------------------------------------------------------------
(* The echo servers *)

\* The bytes of s are those of a message after the first x
Follows(s, x) == \A i \in 1..Len(s) : s[i] = x + i

\* The message of c lies in order in the five places between rest and got.  If
\* the client has vanished, only what it has seen counts
InPieces(c) ==
    /\ Follows(got[c], 0)
    /\ Len(got[c]) + Len(rest[c]) <= MessageSize[c]
    /\ ~Lost(c) =>
         /\ Follows(down[c], Len(got[c]))
         /\ Follows(buffer[c], Len(got[c]) + Len(down[c]))
         /\ Follows(up[c], Len(got[c]) + Len(down[c]) + Len(buffer[c]))
         /\ Follows(rest[c], Len(got[c]) + Len(down[c]) + Len(buffer[c]) + Len(up[c]))
         /\ Len(got[c]) + Len(down[c]) + Len(buffer[c]) + Len(up[c]) + Len(rest[c])
              = MessageSize[c]

\* What the server's side of the connection and the client's know of each other
Sides(c) ==
    /\ client[c] = "connect" => endpoints[c] # 0
    /\ c \in backlog => serving[c] = "none"
    /\ c \in backlog \/ serving[c] # "none" => client[c] \in {"write", "read", "done", "gone"}
    /\ serving[c] \in {"none", "read"} => buffer[c] = <<>>
    /\ Shut(c) => rest[c] = <<>>
    /\ serving[c] = "closed" /\ ~Lost(c) => Shut(c) /\ up[c] = <<>> /\ buffer[c] = <<>>
    /\ client[c] = "done" => Len(got[c]) = MessageSize[c]

EchoInv == EchoTypeOK /\ \A c \in Peers : InPieces(c) /\ Sides(c)

\* The two parts of a stream.
LEMMA Cut ==
  ASSUME NEW s \in Seq(Nat), NEW k \in 1..Len(s)
  PROVE  /\ First(s, k) \in Seq(Nat) /\ Len(First(s, k)) = k
         /\ \A i \in 1..k : First(s, k)[i] = s[i]
         /\ After(s, k) \in Seq(Nat) /\ Len(After(s, k)) = Len(s) - k
         /\ \A i \in 1..Len(s) - k : After(s, k)[i] = s[k + i]
<1>1. Len(s) \in Nat /\ k \in Nat /\ k <= Len(s)
  OBVIOUS
<1>2. /\ First(s, k) \in Seq(Nat) /\ Len(First(s, k)) = k
      /\ \A i \in 1..k : First(s, k)[i] = s[i]
  BY <1>1 DEF First
<1>3. /\ After(s, k) \in Seq(Nat) /\ Len(After(s, k)) = Len(s) - k
      /\ \A i \in 1..Len(s) - k : After(s, k)[i] = s[k + i]
  BY <1>1 DEF After
<1> QED
  BY <1>2, <1>3

\* Bytes that move from the beginning of s to the end of t stay in their order.
LEMMA BytesMove ==
  ASSUME NEW s \in Seq(Nat), NEW t \in Seq(Nat), NEW k \in 1..Len(s)
  PROVE  /\ After(s, k) \in Seq(Nat) /\ t \o First(s, k) \in Seq(Nat)
         /\ Len(After(s, k)) = Len(s) - k /\ Len(t \o First(s, k)) = Len(t) + k
         /\ \A y \in Nat : Follows(t, y) /\ Follows(s, y + Len(t)) =>
              Follows(t \o First(s, k), y) /\ Follows(After(s, k), y + Len(t) + k)
<1> DEFINE u == First(s, k)
           v == After(s, k)
<1>1. /\ u \in Seq(Nat) /\ Len(u) = k /\ \A i \in 1..k : u[i] = s[i]
      /\ v \in Seq(Nat) /\ Len(v) = Len(s) - k /\ \A i \in 1..Len(s) - k : v[i] = s[k + i]
  BY Cut
<1> HIDE DEF u, v
<1>2. /\ t \o u \in Seq(Nat) /\ Len(t \o u) = Len(t) + k
      /\ \A i \in 1..Len(t) + k : (t \o u)[i] = IF i <= Len(t) THEN t[i] ELSE u[i - Len(t)]
  <2>1. u \in Seq(Nat) /\ Len(u) = k /\ Len(t) \in Nat
    BY <1>1
  <2>2. /\ t \o u \in Seq(Nat) /\ Len(t \o u) = Len(t) + Len(u)
        /\ \A i \in 1..Len(t) + Len(u) : (t \o u)[i] = IF i <= Len(t) THEN t[i] ELSE u[i - Len(t)]
    BY <2>1
  <2> QED
    BY <2>1, <2>2
<1>3. ASSUME NEW y \in Nat, Follows(t, y), Follows(s, y + Len(t))
      PROVE  Follows(t \o u, y) /\ Follows(v, y + Len(t) + k)
  <2>1. ASSUME NEW i \in 1..Len(t) + k PROVE (t \o u)[i] = y + i
    <3>1. CASE i <= Len(t)
      BY <1>2, <1>3, <3>1 DEF Follows
    <3>2. CASE ~(i <= Len(t))
      <4>1. i - Len(t) \in 1..k /\ i - Len(t) \in 1..Len(s)
        BY <3>2
      <4>2. u[i - Len(t)] = y + Len(t) + (i - Len(t))
        BY <1>1, <1>3, <4>1 DEF Follows
      <4> QED
        BY <1>2, <3>2, <4>2
    <3> QED
      BY <3>1, <3>2
  <2>2. ASSUME NEW i \in 1..Len(s) - k PROVE v[i] = y + Len(t) + k + i
    <3>1. k + i \in 1..Len(s) /\ v[i] = s[k + i]
      BY <1>1
    <3>2. s[k + i] = y + Len(t) + (k + i)
      BY <1>3, <3>1 DEF Follows
    <3> QED
      BY <3>1, <3>2
  <2> QED
    BY <1>1, <1>2, <2>1, <2>2 DEF Follows
<1> QED
  BY <1>1, <1>2, <1>3 DEF u, v

\* k bytes have moved from s to t, which are u and v now, and in order
MovedBy(k, s, t, u, v) ==
    /\ k \in 1..Len(s) /\ Len(u) = Len(s) - k /\ Len(v) = Len(t) + k
    /\ \A y \in Nat : Follows(t, y) /\ Follows(s, y + Len(t)) =>
         Follows(v, y) /\ Follows(u, y + Len(t) + k)

Moved(c, from, to, fromNext, toNext) ==
    /\ fromNext \in [Peers -> Seq(Nat)] /\ toNext \in [Peers -> Seq(Nat)]
    /\ \A d \in Peers : d # c => fromNext[d] = from[d] /\ toNext[d] = to[d]
    /\ \E k \in Nat : MovedBy(k, from[c], to[c], fromNext[c], toNext[c])

\* The same on the connection of one client; the others keep their streams.
LEMMA TransferMoves ==
  ASSUME NEW c \in Peers, NEW from \in [Peers -> Seq(Nat)], NEW to \in [Peers -> Seq(Nat)],
         NEW limit, NEW fromNext, NEW toNext, Transfer(c, from, to, limit, fromNext, toNext)
  PROVE  Moved(c, from, to, fromNext, toNext)
<1>1. PICK k \in 1..Len(from[c]) : /\ fromNext = [from EXCEPT ![c] = After(from[c], k)]
                                   /\ toNext = [to EXCEPT ![c] = to[c] \o First(from[c], k)]
  BY DEF Transfer
<1>2. from[c] \in Seq(Nat) /\ to[c] \in Seq(Nat)
  OBVIOUS
<1>3. /\ After(from[c], k) \in Seq(Nat) /\ to[c] \o First(from[c], k) \in Seq(Nat)
      /\ Len(After(from[c], k)) = Len(from[c]) - k
      /\ Len(to[c] \o First(from[c], k)) = Len(to[c]) + k
      /\ \A y \in Nat : Follows(to[c], y) /\ Follows(from[c], y + Len(to[c])) =>
           /\ Follows(to[c] \o First(from[c], k), y)
           /\ Follows(After(from[c], k), y + Len(to[c]) + k)
  BY <1>2, BytesMove
<1> DEFINE u == After(from[c], k)
           v == to[c] \o First(from[c], k)
<1>4. fromNext = [from EXCEPT ![c] = u] /\ toNext = [to EXCEPT ![c] = v]
  BY <1>1
<1>5. u \in Seq(Nat) /\ v \in Seq(Nat)
  BY <1>3
<1> HIDE DEF u, v
<1>6. /\ fromNext \in [Peers -> Seq(Nat)] /\ toNext \in [Peers -> Seq(Nat)]
      /\ fromNext[c] = u /\ toNext[c] = v
      /\ \A d \in Peers : d # c => fromNext[d] = from[d] /\ toNext[d] = to[d]
  BY <1>4, <1>5
<1>7. MovedBy(k, from[c], to[c], u, v) /\ k \in Nat
  BY <1>3 DEF MovedBy, u, v
<1> QED
  BY <1>6, <1>7 DEF Moved

\* The types of the streams, and the lengths that are added up.
LEMMA StreamTypes ==
  ASSUME EchoTypeOK
  PROVE  /\ buffer \in [Peers -> Seq(Nat)] /\ up \in [Peers -> Seq(Nat)]
         /\ down \in [Peers -> Seq(Nat)] /\ rest \in [Peers -> Seq(Nat)]
         /\ got \in [Peers -> Seq(Nat)]
         /\ \A c \in Peers : /\ Len(buffer[c]) \in Nat /\ Len(up[c]) \in Nat /\ Len(down[c]) \in Nat
                             /\ Len(rest[c]) \in Nat /\ Len(got[c]) \in Nat
                             /\ MessageSize[c] \in Nat
<1>1. /\ buffer \in [Peers -> Seq(Nat)] /\ up \in [Peers -> Seq(Nat)]
      /\ down \in [Peers -> Seq(Nat)] /\ rest \in [Peers -> Seq(Nat)]
      /\ got \in [Peers -> Seq(Nat)]
  BY DEF EchoTypeOK
<1>2. MessageSize \in [Peers -> Nat \ {0}]
  BY EchoAssumption
<1> QED
  BY <1>1, <1>2

\* The connections of other clients.
LEMMA OthersStand ==
  ASSUME EchoInv, NEW d \in Peers,
         got'[d] = got[d], down'[d] = down[d], buffer'[d] = buffer[d], up'[d] = up[d],
         rest'[d] = rest[d], client'[d] = client[d], serving'[d] = serving[d],
         endpoints'[d] = endpoints[d], d \in backlog' <=> d \in backlog
  PROVE  InPieces(d)' /\ Sides(d)'
<1>1. (Lost(d)' <=> Lost(d)) /\ (Shut(d)' <=> Shut(d)) /\ InPieces(d) /\ Sides(d)
  BY DEF EchoInv, Lost, Shut
<1>2. InPieces(d)'
  BY <1>1 DEF InPieces, Follows
<1>3. Sides(d)'
  BY <1>1 DEF Sides
<1> QED
  BY <1>2, <1>3

\* Nothing has been written.
LEMMA EchoInitInv == EchoInit => EchoInv
<1> SUFFICES ASSUME EchoInit PROVE EchoInv
  OBVIOUS
<1>1. \A c \in Peers : /\ MessageSize[c] \in Nat /\ Message(c) \in Seq(Nat)
                       /\ Len(Message(c)) = MessageSize[c]
                       /\ \A i \in 1..MessageSize[c] : Message(c)[i] = i
  <2>1. MessageSize \in [Peers -> Nat \ {0}]
    BY EchoAssumption
  <2> QED
    BY <2>1 DEF Message
<1>2. \A c \in Peers : /\ buffer[c] = <<>> /\ up[c] = <<>> /\ down[c] = <<>> /\ got[c] = <<>>
                       /\ rest[c] = Message(c) /\ client[c] = "resolve" /\ serving[c] = "none"
  BY DEF EchoInit, NoBytes
<1>3. EchoTypeOK
  <2>1. NoBytes \in [Peers -> Seq(Nat)] /\ rest \in [Peers -> Seq(Nat)]
    BY <1>1 DEF NoBytes, EchoInit
  <2> QED
    BY <2>1, EchoAssumption DEF EchoInit, EchoTypeOK
<1>4. ASSUME NEW c \in Peers PROVE InPieces(c) /\ Sides(c)
  <2>1. Len(got[c]) = 0 /\ Len(down[c]) = 0 /\ Len(buffer[c]) = 0 /\ Len(up[c]) = 0
    BY <1>2
  <2>2. Len(rest[c]) = MessageSize[c] /\ \A i \in 1..Len(rest[c]) : rest[c][i] = i
    BY <1>1, <1>2
  <2>3. InPieces(c)
    BY <1>1, <2>1, <2>2 DEF InPieces, Follows
  <2>4. Sides(c)
    BY <1>2 DEF Sides, Shut, EchoInit
  <2> QED
    BY <2>3, <2>4
<1> QED
  BY <1>3, <1>4 DEF EchoInv

\* Steps that accept a connection, or fail to.
LEMMA AcceptingInv == ASSUME EchoInv, Accepting PROVE EchoInv'
<1>1. /\ UNCHANGED <<server, buffer, up, down, client, endpoints, rest, got>>
      /\ acceptor' \in {"new", "open", "dead"} /\ errors' \in 0..MaxErrors
      /\ \/ UNCHANGED <<backlog, serving>>
         \/ \E c \in backlog : /\ backlog' = backlog \ {c}
                               /\ serving' = [serving EXCEPT ![c] = "read"]
  <2>1. errors \in 0..MaxErrors /\ acceptor \in {"new", "open", "dead"} /\ MaxErrors \in Nat
    BY EchoAssumption DEF EchoInv, EchoTypeOK
  <2> QED
    BY <2>1 DEF Accepting, Listens, ServerStart, ServeForever, AcceptHandler, clientVars
<1>2. CASE UNCHANGED <<backlog, serving>>
  <2>1. EchoTypeOK'
    BY <1>1, <1>2 DEF EchoInv, EchoTypeOK
  <2>2. \A d \in Peers : InPieces(d)' /\ Sides(d)'
    BY <1>1, <1>2, OthersStand
  <2> QED
    BY <2>1, <2>2 DEF EchoInv
<1>3. ASSUME NEW c \in backlog, backlog' = backlog \ {c}, serving' = [serving EXCEPT ![c] = "read"]
      PROVE  EchoInv'
  <2>1. c \in Peers
    BY DEF EchoInv, EchoTypeOK
  <2>2. EchoTypeOK'
    BY <1>1, <1>3, <2>1 DEF EchoInv, EchoTypeOK
  <2>3. serving'[c] = "read" /\ \A d \in Peers : d # c => serving'[d] = serving[d]
    BY <1>3, <2>1 DEF EchoInv, EchoTypeOK
  <2>4. \A d \in Peers : d # c => InPieces(d)' /\ Sides(d)'
    BY <1>1, <1>3, <2>3, OthersStand
  <2>5. InPieces(c)' /\ Sides(c)'
    BY <1>1, <1>3, <2>1, <2>3 DEF EchoInv, InPieces, Sides, Lost, Shut, Follows
  <2> QED
    BY <2>2, <2>4, <2>5 DEF EchoInv
<1> QED
  BY <1>1, <1>2, <1>3

\* Steps that move no bytes: a client or its server goes on or ends.
LEMMA ControlInv ==
  ASSUME EchoInv, NEW c \in Peers,
         \/ GetEndpoints(c) \/ Connected(c) \/ NotConnected(c)
         \/ ShutdownWrite(c) \/ ReadReturns(c)
         \/ ClientWritten(c) \/ ClientReturns(c) \/ SessionEnds(c)
  PROVE  EchoInv'
<1>1. /\ client \in [Peers -> {"resolve", "connect", "failed", "thrown", "write",
                               "read", "done", "gone"}]
      /\ serving \in [Peers -> {"none", "read", "write", "closed"}]
      /\ endpoints \in [Peers -> 0..MaxEndpoints] /\ MaxEndpoints \in Nat
  BY EchoAssumption DEF EchoInv, EchoTypeOK
<1>2. UNCHANGED <<server, acceptor, errors, buffer, up, down, rest, got>>
  BY DEF GetEndpoints, Connected, NotConnected, ShutdownWrite, ReadReturns, ClientWritten,
         ClientReturns, SessionEnds, serverVars, clientVars
<1>3. ASSUME backlog' \subseteq Peers, endpoints' \in [Peers -> 0..MaxEndpoints],
             \A d \in Peers : d # c => /\ client'[d] = client[d] /\ serving'[d] = serving[d]
                                       /\ endpoints'[d] = endpoints[d]
                                       /\ d \in backlog' <=> d \in backlog,
             client' \in [Peers -> {"resolve", "connect", "failed", "thrown", "write",
                                    "read", "done", "gone"}],
             serving' \in [Peers -> {"none", "read", "write", "closed"}],
             Sides(c)', Lost(c)' <=> Lost(c)
      PROVE  EchoInv'
  <2>1. EchoTypeOK'
    BY <1>2, <1>3 DEF EchoInv, EchoTypeOK
  <2>2. \A d \in Peers : d # c => InPieces(d)' /\ Sides(d)'
    BY <1>2, <1>3, OthersStand
  <2>3. InPieces(c)'
    BY <1>2, <1>3 DEF EchoInv, InPieces, Follows
  <2> QED
    BY <1>3, <2>1, <2>2, <2>3 DEF EchoInv
<1>4. CASE GetEndpoints(c)
  <2>1. /\ client[c] = "resolve" /\ UNCHANGED <<backlog, serving>>
        /\ \/ /\ client' = [client EXCEPT ![c] = "connect"]
              /\ \E n \in 1..MaxEndpoints : endpoints' = [endpoints EXCEPT ![c] = n]
           \/ client' = [client EXCEPT ![c] = "failed"] /\ UNCHANGED endpoints
    BY <1>4 DEF GetEndpoints, ClientGoto, serverVars
  <2>2. /\ client' \in [Peers -> {"resolve", "connect", "failed", "thrown", "write",
                                  "read", "done", "gone"}]
        /\ endpoints' \in [Peers -> 0..MaxEndpoints] /\ client'[c] \in {"connect", "failed"}
        /\ client'[c] = "connect" => endpoints'[c] # 0
        /\ \A d \in Peers : d # c => client'[d] = client[d] /\ endpoints'[d] = endpoints[d]
    BY <1>1, <2>1
  <2>3. Sides(c)' /\ (Lost(c)' <=> Lost(c))
    BY <1>2, <2>1, <2>2 DEF EchoInv, Sides, Lost, Shut
  <2> QED
    BY <1>1, <1>3, <2>1, <2>2, <2>3 DEF EchoInv, EchoTypeOK
<1>5. CASE Connected(c)
  <2>1. /\ client[c] = "connect" /\ client' = [client EXCEPT ![c] = "write"]
        /\ backlog' = backlog \cup {c} /\ UNCHANGED <<serving, endpoints>>
    BY <1>5 DEF Connected, ClientGoto
  <2>2. /\ client' \in [Peers -> {"resolve", "connect", "failed", "thrown", "write",
                                  "read", "done", "gone"}]
        /\ client'[c] = "write" /\ \A d \in Peers : d # c => client'[d] = client[d]
    BY <1>1, <2>1
  <2>3. Sides(c)' /\ (Lost(c)' <=> Lost(c))
    BY <1>2, <2>1, <2>2 DEF EchoInv, Sides, Lost, Shut
  <2> QED
    BY <1>1, <1>3, <2>1, <2>2, <2>3 DEF EchoInv, EchoTypeOK
<1>6. CASE NotConnected(c)
  <2>1. /\ client[c] = "connect" /\ UNCHANGED <<backlog, serving>>
        /\ client' = [client EXCEPT ![c] = IF endpoints[c] = 1 THEN "thrown" ELSE "connect"]
        /\ endpoints' = [endpoints EXCEPT ![c] = endpoints[c] - 1]
    BY <1>6 DEF NotConnected, ClientGoto, serverVars
  <2>2. endpoints[c] # 0
    BY <2>1 DEF EchoInv, Sides
  <2>3. /\ client' \in [Peers -> {"resolve", "connect", "failed", "thrown", "write",
                                  "read", "done", "gone"}]
        /\ endpoints' \in [Peers -> 0..MaxEndpoints] /\ client'[c] \in {"connect", "thrown"}
        /\ client'[c] = "connect" => endpoints'[c] # 0
        /\ \A d \in Peers : d # c => client'[d] = client[d] /\ endpoints'[d] = endpoints[d]
    BY <1>1, <2>1, <2>2
  <2>4. Sides(c)' /\ (Lost(c)' <=> Lost(c))
    BY <1>2, <2>1, <2>3 DEF EchoInv, Sides, Lost, Shut
  <2> QED
    BY <1>1, <1>3, <2>1, <2>3, <2>4 DEF EchoInv, EchoTypeOK
<1>7. CASE ShutdownWrite(c) \/ ReadReturns(c)
  <2>1. /\ UNCHANGED <<backlog, serving, endpoints>>
        /\ \/ client[c] = "write" /\ rest[c] = <<>> /\ client' = [client EXCEPT ![c] = "read"]
           \/ /\ client[c] = "read" /\ down[c] = <<>> /\ serving[c] = "closed"
              /\ client' = [client EXCEPT ![c] = "done"]
    BY <1>7 DEF ShutdownWrite, ReadReturns, ClientGoto, serverVars
  <2>2. /\ client' \in [Peers -> {"resolve", "connect", "failed", "thrown", "write",
                                  "read", "done", "gone"}]
        /\ \/ client[c] = "write" /\ rest[c] = <<>> /\ client'[c] = "read"
           \/ client[c] = "read" /\ down[c] = <<>> /\ serving[c] = "closed" /\ client'[c] = "done"
        /\ \A d \in Peers : d # c => client'[d] = client[d]
    BY <1>1, <2>1
  <2>3. client'[c] = "done" => Len(got[c]) = MessageSize[c]
    <3>1. SUFFICES ASSUME client[c] = "read", down[c] = <<>>, serving[c] = "closed"
                   PROVE  Len(got[c]) = MessageSize[c]
      BY <2>2
    <3>2. rest[c] = <<>> /\ up[c] = <<>> /\ buffer[c] = <<>> /\ ~Lost(c)
      BY <3>1 DEF EchoInv, Sides, Shut, Lost
    <3>3. Len(rest[c]) = 0 /\ Len(up[c]) = 0 /\ Len(buffer[c]) = 0 /\ Len(down[c]) = 0
      BY <3>1, <3>2
    <3>4. Len(got[c]) + Len(down[c]) + Len(buffer[c]) + Len(up[c]) + Len(rest[c]) = MessageSize[c]
      BY <3>2 DEF EchoInv, InPieces
    <3>5. Len(got[c]) \in Nat
      BY StreamTypes DEF EchoInv
    <3> QED
      BY <3>3, <3>4, <3>5
  <2>4. Sides(c)' /\ (Lost(c)' <=> Lost(c))
    BY <1>2, <2>1, <2>2, <2>3 DEF EchoInv, Sides, Lost, Shut
  <2> QED
    BY <1>1, <1>3, <2>1, <2>2, <2>4 DEF EchoInv, EchoTypeOK
<1>8. CASE ClientWritten(c) \/ ClientReturns(c) \/ SessionEnds(c)
  <2>1. /\ UNCHANGED <<backlog, endpoints, client>>
        /\ \/ /\ serving[c] = "write" /\ buffer[c] = <<>>
              /\ serving' = [serving EXCEPT ![c] = "read"]
           \/ /\ \/ serving[c] = "read" /\ ReadFails(c)
                 \/ serving[c] = "write" /\ WriteFails(c)
              /\ serving' = [serving EXCEPT ![c] = "closed"]
    BY <1>8 DEF ClientWritten, ClientReturns, SessionEnds, ServeGoto, clientVars
  <2>2. /\ serving' \in [Peers -> {"none", "read", "write", "closed"}]
        /\ \/ serving[c] = "write" /\ buffer[c] = <<>> /\ serving'[c] = "read"
           \/ serving[c] = "read" /\ ReadFails(c) /\ serving'[c] = "closed"
           \/ serving[c] = "write" /\ WriteFails(c) /\ serving'[c] = "closed"
        /\ \A d \in Peers : d # c => serving'[d] = serving[d]
    BY <1>1, <2>1
  <2>3. Sides(c)' /\ (Lost(c)' <=> Lost(c))
    BY <1>2, <2>1, <2>2 DEF EchoInv, Sides, Lost, Shut, ReadFails, WriteFails
  <2> QED
    BY <1>1, <1>3, <2>1, <2>2, <2>3 DEF EchoInv, EchoTypeOK
<1> QED
  BY <1>4, <1>5, <1>6, <1>7, <1>8

\* A client vanishes with what is on its way.
LEMMA VanishInv == ASSUME EchoInv, NEW c \in Peers, Vanish(c) PROVE EchoInv'
<1>1. /\ client[c] \in {"write", "read"} /\ client' = [client EXCEPT ![c] = "gone"]
      /\ up' = [up EXCEPT ![c] = <<>>] /\ down' = [down EXCEPT ![c] = <<>>]
      /\ UNCHANGED <<server, acceptor, errors, backlog, serving, buffer, endpoints, rest, got>>
  BY DEF Vanish, serverVars
<1>2. EchoTypeOK'
  <2>1. /\ up' \in [Peers -> Seq(Nat)] /\ down' \in [Peers -> Seq(Nat)]
        /\ buffer \in [Peers -> Seq(Nat)] /\ rest \in [Peers -> Seq(Nat)]
        /\ got \in [Peers -> Seq(Nat)]
    BY <1>1, StreamTypes DEF EchoInv
  <2> QED
    BY <1>1, <2>1 DEF EchoInv, EchoTypeOK
<1>3. /\ client'[c] = "gone"
      /\ \A d \in Peers : d # c => client'[d] = client[d] /\ up'[d] = up[d] /\ down'[d] = down[d]
  BY <1>1, StreamTypes DEF EchoInv, EchoTypeOK
<1>4. \A d \in Peers : d # c => InPieces(d)' /\ Sides(d)'
  BY <1>1, <1>3, OthersStand
<1>5. InPieces(c)' /\ Sides(c)'
  BY <1>1, <1>3 DEF EchoInv, InPieces, Sides, Lost, Shut, Follows
<1> QED
  BY <1>2, <1>4, <1>5 DEF EchoInv

\* Some bytes move on between two of the places of client c.
LEMMA BytesInv ==
  ASSUME EchoInv, NEW c \in Peers,
         WriteSome(c) \/ ReadSome(c) \/ ClientRead(c) \/ ReadChunk(c) \/ ClientWrite(c) \/ WriteChunk(c)
  PROVE  EchoInv'
<1>1. /\ buffer \in [Peers -> Seq(Nat)] /\ up \in [Peers -> Seq(Nat)]
      /\ down \in [Peers -> Seq(Nat)] /\ rest \in [Peers -> Seq(Nat)]
      /\ got \in [Peers -> Seq(Nat)]
      /\ Len(buffer[c]) \in Nat /\ Len(up[c]) \in Nat /\ Len(down[c]) \in Nat
      /\ Len(rest[c]) \in Nat /\ Len(got[c]) \in Nat /\ MessageSize[c] \in Nat
  BY StreamTypes DEF EchoInv
<1>2. /\ serving \in [Peers -> {"none", "read", "write", "closed"}] /\ Sides(c) /\ InPieces(c)
  BY DEF EchoInv, EchoTypeOK
<1>3. UNCHANGED <<server, acceptor, errors, backlog, client, endpoints>>
  BY DEF WriteSome, ReadSome, ClientRead, ReadChunk, ClientWrite, WriteChunk, serverVars, clientVars
<1>4. ASSUME buffer' \in [Peers -> Seq(Nat)], up' \in [Peers -> Seq(Nat)],
             down' \in [Peers -> Seq(Nat)], rest' \in [Peers -> Seq(Nat)],
             got' \in [Peers -> Seq(Nat)],
             serving' \in [Peers -> {"none", "read", "write", "closed"}],
             \A d \in Peers : d # c =>
               /\ buffer'[d] = buffer[d] /\ up'[d] = up[d] /\ down'[d] = down[d]
               /\ rest'[d] = rest[d] /\ got'[d] = got[d] /\ serving'[d] = serving[d],
             InPieces(c)', Sides(c)'
      PROVE  EchoInv'
  <2>1. EchoTypeOK'
    BY <1>3, <1>4 DEF EchoInv, EchoTypeOK
  <2>2. \A d \in Peers : d # c => InPieces(d)' /\ Sides(d)'
    BY <1>3, <1>4, OthersStand
  <2> QED
    BY <1>4, <2>1, <2>2 DEF EchoInv
<1>5. CASE WriteSome(c)
  <2>1. /\ client[c] = "write" /\ Transfer(c, rest, up, Room(up, c), rest', up')
        /\ UNCHANGED <<serving, buffer, down, got>>
    BY <1>5 DEF WriteSome, serverVars
  <2>2. Moved(c, rest, up, rest', up')
    BY <1>1, <2>1, TransferMoves
  <2>3. PICK k \in Nat : MovedBy(k, rest[c], up[c], rest'[c], up'[c])
    BY <2>2 DEF Moved
  <2>4. ~Lost(c) /\ ~Lost(c)' /\ serving[c] # "closed"
    BY <1>2, <1>3, <2>1 DEF Lost, Shut, Sides
  <2>5. InPieces(c)'
    <3> DEFINE x == Len(got[c]) + Len(down[c]) + Len(buffer[c])
    <3>1. x \in Nat /\ Follows(up[c], x) /\ Follows(rest[c], x + Len(up[c]))
      BY <1>1, <1>2, <2>4 DEF InPieces
    <3>2. Follows(up'[c], x) /\ Follows(rest'[c], x + Len(up[c]) + k)
      BY <2>3, <3>1 DEF MovedBy
    <3>3. x + Len(up'[c]) = x + Len(up[c]) + k
      BY <1>1, <2>3, <3>1 DEF MovedBy
    <3>4. Follows(rest'[c], x + Len(up'[c]))
      BY <3>2, <3>3
    <3>5. /\ x + Len(up'[c]) + Len(rest'[c]) = MessageSize[c]
          /\ Len(got[c]) + Len(rest'[c]) <= MessageSize[c]
      BY <1>1, <1>2, <2>3, <2>4 DEF InPieces, MovedBy
    <3>6. got'[c] = got[c] /\ down'[c] = down[c] /\ buffer'[c] = buffer[c]
      BY <2>1
    <3> QED
      BY <1>2, <2>4, <3>2, <3>4, <3>5, <3>6 DEF InPieces
  <2>6. Sides(c)'
    BY <1>2, <1>3, <2>1, <2>4 DEF Sides, Shut, Lost
  <2> QED
    BY <1>1, <1>2, <1>4, <2>1, <2>2, <2>5, <2>6 DEF Moved
<1>6. CASE ReadSome(c)
  <2>1. /\ client[c] = "read" /\ Transfer(c, down, got, PipeSize[c], down', got')
        /\ UNCHANGED <<serving, buffer, up, rest>>
    BY <1>6 DEF ReadSome, serverVars
  <2>2. Moved(c, down, got, down', got')
    BY <1>1, <2>1, TransferMoves
  <2>3. PICK k \in Nat : MovedBy(k, down[c], got[c], down'[c], got'[c])
    BY <2>2 DEF Moved
  <2>4. ~Lost(c) /\ ~Lost(c)'
    BY <1>3, <2>1 DEF Lost
  <2>5. InPieces(c)'
    <3>1. Follows(got[c], 0) /\ Follows(down[c], 0 + Len(got[c]))
      BY <1>1, <1>2, <2>4 DEF InPieces
    <3>2. Follows(got'[c], 0) /\ Follows(down'[c], 0 + Len(got[c]) + k)
      BY <2>3, <3>1 DEF MovedBy
    <3>3. 0 + Len(got[c]) + k = Len(got'[c]) /\ Len(got'[c]) + Len(down'[c]) = Len(got[c]) + Len(down[c])
      BY <1>1, <2>3 DEF MovedBy
    <3>4. Follows(down'[c], Len(got'[c]))
      BY <3>2, <3>3
    <3>5. Len(got'[c]) + Len(rest[c]) <= MessageSize[c]
      BY <1>1, <1>2, <2>3, <2>4 DEF InPieces, MovedBy
    <3>6. rest'[c] = rest[c] /\ up'[c] = up[c] /\ buffer'[c] = buffer[c]
      BY <2>1
    <3> QED
      BY <1>2, <2>4, <3>2, <3>3, <3>4, <3>5, <3>6 DEF InPieces
  <2>6. Sides(c)'
    BY <1>2, <1>3, <2>1 DEF Sides, Shut, Lost
  <2> QED
    BY <1>1, <1>2, <1>4, <2>1, <2>2, <2>5, <2>6 DEF Moved
<1>7. CASE ClientRead(c) \/ ReadChunk(c)
  <2>1. /\ serving[c] = "read" /\ serving' = [serving EXCEPT ![c] = "write"]
        /\ Transfer(c, up, buffer, BufferSize, up', buffer') /\ UNCHANGED <<down, rest, got>>
    BY <1>7 DEF ClientRead, ReadChunk, ServeGoto, clientVars
  <2>2. Moved(c, up, buffer, up', buffer')
    BY <1>1, <2>1, TransferMoves
  <2>3. PICK k \in Nat : MovedBy(k, up[c], buffer[c], up'[c], buffer'[c])
    BY <2>2 DEF Moved
  <2>4. /\ serving'[c] = "write" /\ \A d \in Peers : d # c => serving'[d] = serving[d]
        /\ serving' \in [Peers -> {"none", "read", "write", "closed"}]
        /\ Lost(c)' <=> Lost(c)
    BY <1>2, <1>3, <2>1 DEF Lost
  <2>5. InPieces(c)'
    <3> DEFINE x == Len(got[c]) + Len(down[c])
    <3>1. x \in Nat /\ (~Lost(c) => Follows(buffer[c], x) /\ Follows(up[c], x + Len(buffer[c])))
      BY <1>1, <1>2 DEF InPieces
    <3>2. ~Lost(c) => Follows(buffer'[c], x) /\ Follows(up'[c], x + Len(buffer[c]) + k)
      BY <2>3, <3>1 DEF MovedBy
    <3>3. /\ x + Len(buffer'[c]) = x + Len(buffer[c]) + k
          /\ x + Len(buffer'[c]) + Len(up'[c]) = x + Len(buffer[c]) + Len(up[c])
      BY <1>1, <2>3, <3>1 DEF MovedBy
    <3>4. ~Lost(c) => Follows(up'[c], x + Len(buffer'[c]))
      BY <3>2, <3>3
    <3>5. rest'[c] = rest[c] /\ down'[c] = down[c] /\ got'[c] = got[c]
      BY <2>1
    <3> QED
      BY <1>2, <2>4, <3>2, <3>3, <3>4, <3>5 DEF InPieces
  <2>6. Sides(c)'
    BY <1>2, <1>3, <2>1, <2>4 DEF Sides, Shut, Lost
  <2> QED
    BY <1>1, <1>4, <2>1, <2>2, <2>4, <2>5, <2>6 DEF Moved
<1>8. CASE ClientWrite(c) \/ WriteChunk(c)
  <2>1. /\ serving[c] = "write" /\ UNCHANGED <<up, rest, got>>
        /\ \/ serving' = [serving EXCEPT ![c] = "write"]
           \/ serving' = [serving EXCEPT ![c] = "read"] /\ buffer'[c] = <<>>
        /\ Transfer(c, buffer, down, Room(down, c), buffer', down')
    BY <1>8 DEF ClientWrite, WriteChunk, ServeGoto, clientVars
  <2>2. Moved(c, buffer, down, buffer', down')
    BY <1>1, <2>1, TransferMoves
  <2>3. PICK k \in Nat : MovedBy(k, buffer[c], down[c], buffer'[c], down'[c])
    BY <2>2 DEF Moved
  <2>4. /\ serving'[c] = "write" \/ (serving'[c] = "read" /\ buffer'[c] = <<>>)
        /\ \A d \in Peers : d # c => serving'[d] = serving[d]
        /\ serving' \in [Peers -> {"none", "read", "write", "closed"}]
        /\ Lost(c)' <=> Lost(c)
    BY <1>2, <1>3, <2>1 DEF Lost
  <2>5. InPieces(c)'
    <3>1. ~Lost(c) => Follows(down[c], Len(got[c])) /\ Follows(buffer[c], Len(got[c]) + Len(down[c]))
      BY <1>1, <1>2 DEF InPieces
    <3>2. ~Lost(c) => /\ Follows(down'[c], Len(got[c]))
                      /\ Follows(buffer'[c], Len(got[c]) + Len(down[c]) + k)
      BY <1>1, <2>3, <3>1 DEF MovedBy
    <3>3. /\ Len(got[c]) + Len(down'[c]) = Len(got[c]) + Len(down[c]) + k
          /\ Len(got[c]) + Len(down'[c]) + Len(buffer'[c]) = Len(got[c]) + Len(down[c]) + Len(buffer[c])
      BY <1>1, <2>3 DEF MovedBy
    <3>4. ~Lost(c) => Follows(buffer'[c], Len(got[c]) + Len(down'[c]))
      BY <3>2, <3>3
    <3>5. rest'[c] = rest[c] /\ up'[c] = up[c] /\ got'[c] = got[c]
      BY <2>1
    <3> QED
      BY <1>2, <2>4, <3>2, <3>3, <3>4, <3>5 DEF InPieces
  <2>6. Sides(c)'
    BY <1>2, <1>3, <2>1, <2>4 DEF Sides, Shut, Lost
  <2> QED
    BY <1>1, <1>4, <2>1, <2>2, <2>4, <2>5, <2>6 DEF Moved
<1> QED
  BY <1>5, <1>6, <1>7, <1>8

(***************************************************************************)
(* With either server, whatever pieces the streams cut it into, a message  *)
(* lies in order between its client and itself, and the server closes a    *)
(* connection that is not lost only when everything has gone back.         *)
(***************************************************************************)
THEOREM EchoInvariance == EchoSpec => []EchoInv
<1>1. EchoInv /\ [EchoNext]_echoVars => EchoInv'
  <2> SUFFICES ASSUME EchoInv, [EchoNext]_echoVars PROVE EchoInv'
    OBVIOUS
  <2>1. ASSUME NEW c \in Peers, Serves(c) \/ ClientStep(c) \/ Vanish(c) PROVE EchoInv'
    BY <2>1, ControlInv, BytesInv, VanishInv DEF Serves, ClientStep
  <2>2. CASE UNCHANGED echoVars
    <3>1. EchoTypeOK'
      BY <2>2 DEF EchoInv, EchoTypeOK, echoVars, serverVars, clientVars
    <3>2. \A d \in Peers : InPieces(d)' /\ Sides(d)'
      BY <2>2, OthersStand DEF echoVars, serverVars, clientVars
    <3> QED
      BY <3>1, <3>2 DEF EchoInv
  <2> QED
    BY <2>1, <2>2, AcceptingInv DEF EchoNext, AllServed
<1> QED
  BY <1>1, EchoInitInv, PTL DEF EchoSpec

\* Sequences that begin with the same bytes.
LEMMA SameBeginning ==
  ASSUME NEW s \in Seq(Nat), NEW t \in Seq(Nat), Follows(s, 0), Follows(t, 0), Len(s) <= Len(t)
  PROVE  E!IsPrefix(s, t) /\ (Len(s) = Len(t) => s = t)
<1>1. Len(s) \in Nat /\ Len(t) \in Nat /\ \A i \in 1..Len(s) : i \in 1..Len(t) /\ s[i] = t[i]
  BY DEF Follows
<1>2. SubSeq(s, 1, Len(s)) = SubSeq(t, 1, Len(s))
  BY <1>1
<1>3. s = [i \in 1..Len(s) |-> s[i]] /\ t = [i \in 1..Len(t) |-> t[i]]
  OBVIOUS
<1>4. Len(s) = Len(t) => s = t
  BY <1>1, <1>3
<1> QED
  BY <1>2, <1>4 DEF E!IsPrefix

\* What client c has written
Written(c) == First(Message(c), MessageSize[c] - Len(rest[c]))

\* A step adds to what a client has written or to what it has read, and nothing
\* after the end of the stream.
LEMMA BytesGrow ==
  ASSUME EchoInv, [EchoNext]_echoVars, NEW c \in Peers
  PROVE  /\ Len(rest'[c]) <= Len(rest[c]) /\ Len(got[c]) <= Len(got'[c])
         /\ rest'[c] = rest[c] \/ got'[c] = got[c]
         /\ client[c] = "done" => client'[c] = "done" /\ rest'[c] = rest[c] /\ got'[c] = got[c]
<1>1. /\ rest \in [Peers -> Seq(Nat)] /\ up \in [Peers -> Seq(Nat)] /\ down \in [Peers -> Seq(Nat)]
      /\ got \in [Peers -> Seq(Nat)] /\ Len(rest[c]) \in Nat /\ Len(got[c]) \in Nat
  BY StreamTypes DEF EchoInv
<1>2. client \in [Peers -> {"resolve", "connect", "failed", "thrown", "write",
                            "read", "done", "gone"}]
  BY DEF EchoInv, EchoTypeOK
<1>3. ASSUME NEW d \in Peers, WriteSome(d)
      PROVE  /\ Len(rest'[c]) <= Len(rest[c]) /\ UNCHANGED <<got, client>>
             /\ rest'[c] # rest[c] => client[c] = "write"
  <2>1. /\ client[d] = "write" /\ Transfer(d, rest, up, Room(up, d), rest', up')
        /\ UNCHANGED <<got, client>>
    BY <1>3 DEF WriteSome
  <2>2. Moved(d, rest, up, rest', up')
    BY <1>1, <2>1, TransferMoves
  <2>3. (c # d => rest'[c] = rest[c]) /\ Len(rest'[d]) <= Len(rest[d])
    <3>1. PICK k \in Nat : MovedBy(k, rest[d], up[d], rest'[d], up'[d])
      BY <2>2 DEF Moved
    <3>2. Len(rest[d]) \in Nat /\ Len(rest'[d]) = Len(rest[d]) - k
      BY <1>1, <3>1 DEF MovedBy
    <3> QED
      BY <2>2, <3>2 DEF Moved
  <2> QED
    BY <1>1, <2>1, <2>3
<1>4. ASSUME NEW d \in Peers, ReadSome(d)
      PROVE  /\ Len(got[c]) <= Len(got'[c]) /\ UNCHANGED <<rest, client>>
             /\ got'[c] # got[c] => client[c] = "read"
  <2>1. /\ client[d] = "read" /\ Transfer(d, down, got, PipeSize[d], down', got')
        /\ UNCHANGED <<rest, client>>
    BY <1>4 DEF ReadSome
  <2>2. Moved(d, down, got, down', got')
    BY <1>1, <2>1, TransferMoves
  <2>3. (c # d => got'[c] = got[c]) /\ Len(got[d]) <= Len(got'[d])
    <3>1. PICK k \in Nat : MovedBy(k, down[d], got[d], down'[d], got'[d])
      BY <2>2 DEF Moved
    <3>2. Len(got[d]) \in Nat /\ Len(got'[d]) = Len(got[d]) + k
      BY <1>1, <3>1 DEF MovedBy
    <3> QED
      BY <2>2, <3>2 DEF Moved
  <2> QED
    BY <1>1, <2>1, <2>3
<1>5. ASSUME NEW d \in Peers,
             \/ GetEndpoints(d) \/ Connected(d) \/ NotConnected(d)
             \/ ShutdownWrite(d) \/ ReadReturns(d) \/ Vanish(d)
      PROVE  UNCHANGED <<rest, got>> /\ (client[c] = "done" => client'[c] = "done")
  BY <1>2, <1>5 DEF GetEndpoints, Connected, NotConnected, ShutdownWrite, ReadReturns, Vanish,
                    ClientGoto
<1>6. ASSUME Accepting \/ AllServed \/ UNCHANGED echoVars \/ \E d \in Peers : Serves(d)
      PROVE  UNCHANGED <<rest, got, client>>
  BY <1>6 DEF Accepting, Listens, ServeForever, ServerStart, AcceptHandler, AllServed, Serves,
       ClientRead, ClientWrite, ClientWritten, ClientReturns, ReadChunk, WriteChunk, SessionEnds,
       echoVars, clientVars
<1> QED
  BY <1>1, <1>3, <1>4, <1>5, <1>6 DEF EchoNext, ClientStep

\* The length of what has been written, and its bytes.
LEMMA WrittenBytes ==
  ASSUME NEW c \in Peers, NEW r \in Nat, r <= MessageSize[c]
  PROVE  /\ First(Message(c), MessageSize[c] - r) \in Seq(Nat)
         /\ Follows(First(Message(c), MessageSize[c] - r), 0)
         /\ Len(First(Message(c), MessageSize[c] - r)) = MessageSize[c] - r
<1>1. MessageSize[c] \in Nat
  BY EchoAssumption
<1> DEFINE n == MessageSize[c] - r
<1>2. n \in 0..MessageSize[c]
  <2>1. \A m \in Nat : r <= m => m - r \in 0..m
    OBVIOUS
  <2> QED
    BY <1>1, <2>1
<1> HIDE DEF n
<1>3. Message(c) = [i \in 1..MessageSize[c] |-> i]
  BY DEF Message
<1>4. Message(c) \in Seq(Nat) /\ Len(Message(c)) = MessageSize[c]
  BY <1>1, <1>3
<1>5. /\ First(Message(c), n) \in Seq(Nat) /\ Len(First(Message(c), n)) = n
      /\ \A i \in 1..n : First(Message(c), n)[i] = i
  BY <1>1, <1>2, <1>3, <1>4 DEF First
<1> QED
  BY <1>2, <1>5 DEF Follows, n

\* What is read and what is not written yet, of a message of m bytes.
LEMMA Lengths == \A m, r, g \in Nat : g + r <= m => r <= m /\ g <= m - r
  OBVIOUS

(***************************************************************************)
(* The two servers implement EchoPromise: clients read what they wrote, in *)
(* order, and a connection that ends well has returned everything.         *)
(***************************************************************************)
THEOREM ServersEcho == EchoSpec => ImplementsEcho
<1>1. EchoInit => E!NothingYet
  <2> SUFFICES ASSUME EchoInit PROVE E!NothingYet
    OBVIOUS
  <2>1. ASSUME NEW c \in Peers PROVE Written(c) = <<>>
    <3>1. MessageSize \in [Peers -> Nat \ {0}]
      BY EchoAssumption
    <3>2. Len(rest[c]) = MessageSize[c] /\ MessageSize[c] \in Nat
      BY <3>1 DEF EchoInit, Message
    <3>3. MessageSize[c] - Len(rest[c]) = 0
      BY <3>2
    <3> QED
      BY <3>3 DEF Written, First
  <2>2. {c \in Peers : client[c] = "done"} = {}
    BY DEF EchoInit
  <2> QED
    BY <2>1, <2>2 DEF E!NothingYet, EchoInit, NoBytes, Written
<1>2. EchoInv /\ EchoInv' /\ [EchoNext]_echoVars => [E!Echoes]_(E!promiseVars)
  <2> SUFFICES ASSUME EchoInv, EchoInv', [EchoNext]_echoVars, NEW c \in Peers
               PROVE  /\ E!IsPrefix(Written(c), Written(c)') /\ E!IsPrefix(got[c], got'[c])
                      /\ E!IsPrefix(got'[c], Written(c))
                      /\ client[c] = "done" =>
                           client'[c] = "done" /\ Written(c)' = Written(c) /\ got'[c] = got[c]
                      /\ client'[c] = "done" => got'[c] = Written(c)'
    BY DEF E!Echoes, E!promiseVars, Written
  <2>1. /\ Written(c) \in Seq(Nat) /\ Follows(Written(c), 0)
        /\ Len(Written(c)) = MessageSize[c] - Len(rest[c])
        /\ got[c] \in Seq(Nat) /\ Follows(got[c], 0)
        /\ Len(got[c]) + Len(rest[c]) <= MessageSize[c]
        /\ Len(got[c]) \in Nat /\ Len(rest[c]) \in Nat /\ MessageSize[c] \in Nat
    <3>1. /\ got[c] \in Seq(Nat) /\ Follows(got[c], 0)
          /\ Len(got[c]) + Len(rest[c]) <= MessageSize[c]
          /\ Len(got[c]) \in Nat /\ Len(rest[c]) \in Nat /\ MessageSize[c] \in Nat
      BY StreamTypes DEF EchoInv, InPieces
    <3>2. Len(rest[c]) <= MessageSize[c]
      BY <3>1, Lengths
    <3> QED
      BY <3>1, <3>2, WrittenBytes DEF Written
  <2>2. /\ Written(c)' \in Seq(Nat) /\ Follows(Written(c)', 0)
        /\ Len(Written(c)') = MessageSize[c] - Len(rest'[c])
        /\ got'[c] \in Seq(Nat) /\ Follows(got'[c], 0)
        /\ Len(got'[c]) + Len(rest'[c]) <= MessageSize[c]
        /\ Len(got'[c]) \in Nat /\ Len(rest'[c]) \in Nat
    <3>1. got' \in [Peers -> Seq(Nat)] /\ rest' \in [Peers -> Seq(Nat)]
      BY DEF EchoInv, EchoTypeOK
    <3>2. Follows(got'[c], 0) /\ Len(got'[c]) + Len(rest'[c]) <= MessageSize[c]
      BY DEF EchoInv, InPieces, Follows
    <3>3. Len(got'[c]) \in Nat /\ Len(rest'[c]) \in Nat /\ Len(rest'[c]) <= MessageSize[c]
      BY <2>1, <3>1, <3>2
    <3>4. Written(c)' = First(Message(c), MessageSize[c] - Len(rest'[c]))
      BY DEF Written, Message, First
    <3> QED
      BY <3>1, <3>2, <3>3, <3>4, WrittenBytes
  \* bytes are written or read, not both, and not after the end
  <2>3. /\ Len(rest'[c]) <= Len(rest[c]) /\ Len(got[c]) <= Len(got'[c])
        /\ rest'[c] = rest[c] \/ got'[c] = got[c]
        /\ client[c] = "done" => client'[c] = "done" /\ rest'[c] = rest[c] /\ got'[c] = got[c]
    BY BytesGrow
  <2>4. E!IsPrefix(Written(c), Written(c)')
    <3>1. Len(Written(c)) <= Len(Written(c)')
      BY <2>1, <2>2, <2>3
    <3> QED
      BY <2>1, <2>2, <3>1, SameBeginning
  <2>5. E!IsPrefix(got[c], got'[c])
    BY <2>1, <2>2, <2>3, SameBeginning
  <2>6. E!IsPrefix(got'[c], Written(c))
    <3>1. Len(got'[c]) <= Len(Written(c))
      <4>1. Len(got[c]) <= MessageSize[c] - Len(rest[c])
        BY <2>1, Lengths
      <4>2. Len(got'[c]) <= MessageSize[c] - Len(rest'[c])
        BY <2>1, <2>2, Lengths
      <4>3. Len(got'[c]) <= MessageSize[c] - Len(rest[c])
        BY <2>3, <4>1, <4>2
      <4> QED
        BY <2>1, <4>3
    <3> QED
      BY <2>1, <2>2, <3>1, SameBeginning
  <2>7. rest'[c] = rest[c] => Written(c)' = Written(c)
    BY DEF Written, Message, First
  <2>8. client'[c] = "done" => got'[c] = Written(c)'
    <3>1. SUFFICES ASSUME client'[c] = "done" PROVE got'[c] = Written(c)'
      OBVIOUS
    <3>2. Len(got'[c]) = MessageSize[c] /\ rest'[c] = <<>>
      BY <3>1 DEF EchoInv, Sides, Shut
    <3>3. Len(rest'[c]) = 0
      BY <3>2
    <3>4. Len(got'[c]) = Len(Written(c)') /\ Len(got'[c]) <= Len(Written(c)')
      BY <2>1, <2>2, <3>2, <3>3
    <3> QED
      BY <2>2, <3>4, SameBeginning
  <2> QED
    BY <2>3, <2>4, <2>5, <2>6, <2>7, <2>8
<1> QED
  BY <1>1, <1>2, EchoInvariance, PTL DEF EchoSpec, ImplementsEcho, E!Promise
-----------------------------------------------------------------------------
(* Nobody waits for ever: the part of EverythingComesBack that is safety *)

\* A connected client is known to the server, which listens, and the asio server
\* writes only while it has something to write
UnderWay ==
    \A c \in Peers :
      /\ c \in backlog => acceptor = "open"
      /\ client[c] \in {"write", "read"} => c \in backlog \/ serving[c] # "none"
      /\ server = "asio" /\ serving[c] = "write" => buffer[c] # <<>>

\* Neither Write nor Read of the client can go on
ClientWaits(c) ==
    \/ client[c] = "write" /\ rest[c] # <<>> /\ Room(up, c) <= 0
    \/ client[c] = "read" /\ down[c] = <<>> /\ serving[c] # "closed"

\* Nor can the server's side of the connection
ServerWaits(c) ==
    \/ serving[c] = "none" /\ ~(c \in backlog /\ acceptor = "open")
    \/ serving[c] = "read" /\ up[c] = <<>> /\ ~ReadFails(c)
    \/ /\ serving[c] = "write" /\ ~WriteFails(c)
       /\ IF buffer[c] = <<>> THEN server = "asio" ELSE Room(down, c) <= 0
    \/ serving[c] = "closed"

\* A client whose message fits and its server never wait for each other: one of
\* the two can go on, whatever sizes the streams and the buffer have.
NoCircularWait == \A c \in Peers : Fits(c) => ~(ClientWaits(c) /\ ServerWaits(c))

\* Connect puts the client into the backlog, accept into service; a chunk that is
\* read has bytes, and with the last of them written the write is over.
LEMMA UnderWayStep ==
  ASSUME EchoInv, UnderWay, [EchoNext]_echoVars
  PROVE  UnderWay'
<1>0. /\ serving \in [Peers -> {"none", "read", "write", "closed"}]
      /\ client \in [Peers -> {"resolve", "connect", "failed", "thrown", "write",
                               "read", "done", "gone"}]
      /\ backlog \subseteq Peers
      /\ buffer \in [Peers -> Seq(Nat)] /\ up \in [Peers -> Seq(Nat)]
  BY StreamTypes DEF EchoInv, EchoTypeOK
<1>1. ASSUME Accepting PROVE UnderWay'
  <2>1. /\ UNCHANGED <<server, buffer, client>> /\ (acceptor = "open" => acceptor' = "open")
        /\ \/ UNCHANGED <<backlog, serving>>
           \/ \E c \in backlog : /\ backlog' = backlog \ {c}
                                 /\ serving' = [serving EXCEPT ![c] = "read"]
    BY <1>1 DEF Accepting, Listens, ServerStart, ServeForever, AcceptHandler, clientVars
  <2>2. CASE UNCHANGED <<backlog, serving>>
    BY <2>1, <2>2 DEF UnderWay
  <2>3. ASSUME NEW c \in backlog, backlog' = backlog \ {c},
               serving' = [serving EXCEPT ![c] = "read"]
        PROVE  UnderWay'
    BY <1>0, <2>1, <2>3 DEF UnderWay
  <2> QED
    BY <2>1, <2>2, <2>3
<1>2. ASSUME NEW c \in Peers, ClientRead(c) \/ ReadChunk(c) PROVE UnderWay'
  <2>1. UNCHANGED <<server, acceptor, backlog, client>>
        /\ serving' = [serving EXCEPT ![c] = "write"] /\ serving[c] = "read"
    BY <1>2 DEF ClientRead, ReadChunk, ServeGoto, clientVars
  <2>2. PICK k \in 1..Len(up[c]) :
          buffer' = [buffer EXCEPT ![c] = buffer[c] \o First(up[c], k)]
    BY <1>2 DEF ClientRead, ReadChunk, Transfer
  <2>3. Len(buffer[c] \o First(up[c], k)) = Len(buffer[c]) + k /\ Len(buffer[c]) \in Nat
    BY <1>0, BytesMove
  <2>4. buffer'[c] # <<>> /\ \A d \in Peers : d # c => buffer'[d] = buffer[d]
    BY <1>0, <2>2, <2>3
  <2> QED
    BY <1>0, <2>1, <2>4 DEF UnderWay
<1>3. ASSUME NEW c \in Peers, ClientWrite(c) \/ ClientWritten(c) PROVE UnderWay'
  BY <1>0, <1>3 DEF UnderWay, ClientWrite, ClientWritten, ServeGoto, clientVars
<1>4. ASSUME NEW c \in Peers, WriteChunk(c) PROVE UnderWay'
  <2>1. /\ UNCHANGED <<server, acceptor, backlog, client>> /\ serving[c] = "write"
        /\ serving' = [serving EXCEPT ![c] = IF buffer'[c] = <<>> THEN "read" ELSE "write"]
        /\ \E k \in 1..Len(buffer[c]) : buffer' = [buffer EXCEPT ![c] = After(@, k)]
    BY <1>4 DEF WriteChunk, ServeGoto, Transfer, clientVars
  <2>2. \A d \in Peers : d # c => buffer'[d] = buffer[d] /\ serving'[d] = serving[d]
    BY <1>0, <2>1
  <2>3. serving'[c] \in {"read", "write"} /\ (serving'[c] = "write" => buffer'[c] # <<>>)
    BY <1>0, <2>1
  <2> QED
    BY <2>1, <2>2, <2>3 DEF UnderWay
<1>5. ASSUME NEW c \in Peers, ClientReturns(c) \/ SessionEnds(c) PROVE UnderWay'
  BY <1>0, <1>5 DEF UnderWay, ClientReturns, SessionEnds, ServeGoto, clientVars
<1>6. ASSUME NEW c \in Peers, ClientStep(c) \/ Vanish(c) PROVE UnderWay'
  <2>1. /\ UNCHANGED <<server, acceptor, serving, buffer>> /\ backlog \subseteq backlog'
        /\ backlog' # backlog => acceptor = "open"
        /\ \A d \in Peers : client'[d] \in {"write", "read"} =>
              client[d] \in {"write", "read"} \/ d \in backlog'
    BY <1>0, <1>6
    DEF ClientStep, Vanish, GetEndpoints, Connected, NotConnected, WriteSome, ShutdownWrite,
        ReadSome, ReadReturns, ClientGoto, serverVars
  <2> QED
    BY <2>1 DEF UnderWay
<1>7. ASSUME UNCHANGED echoVars PROVE UnderWay'
  BY <1>7 DEF UnderWay, echoVars, serverVars, clientVars
<1> QED
  BY <1>1, <1>2, <1>3, <1>4, <1>5, <1>6, <1>7 DEF EchoNext, AllServed, Serves

\* Two full streams and a byte at either end are more than a message that fits.
LEMMA TooMuch ==
  ASSUME NEW p \in Nat, NEW g \in Nat, NEW d \in Nat, NEW b \in Nat, NEW u \in Nat,
         NEW r \in Nat, d >= p, b >= 1, u >= p, r >= 1
  PROVE  ~(g + d + b + u + r <= 2 * p + 1)
  OBVIOUS

\* Both servers, and any number of clients: were both sides to wait, the streams
\* would be full and hold, with a byte here and there, more than the message.
THEOREM ServersNeverStall == EchoSpec => []NoCircularWait
<1>1. EchoInit => UnderWay
  BY DEF EchoInit, UnderWay
<1>2. EchoInv /\ UnderWay /\ [EchoNext]_echoVars => UnderWay'
  BY UnderWayStep
<1>3. ASSUME EchoInv, UnderWay PROVE NoCircularWait
  <2> SUFFICES ASSUME NEW c \in Peers, Fits(c), ClientWaits(c), ServerWaits(c) PROVE FALSE
    BY DEF NoCircularWait
  <2>1. /\ PipeSize[c] \in Nat \ {0} /\ MessageSize[c] \in Nat
        /\ Len(buffer[c]) \in Nat /\ Len(up[c]) \in Nat /\ Len(down[c]) \in Nat
        /\ Len(rest[c]) \in Nat /\ Len(got[c]) \in Nat
        /\ buffer[c] \in Seq(Nat) /\ rest[c] \in Seq(Nat) /\ Len(<<>>) = 0
    <3>1. PipeSize \in [Peers -> Nat \ {0}]
      BY EchoAssumption
    <3> QED
      BY <1>3, <3>1, StreamTypes DEF EchoInv
  <2>2. client[c] \in {"write", "read"} /\ ~Lost(c)
    BY DEF ClientWaits, Lost
  <2>3. (c \in backlog /\ acceptor = "open") \/ serving[c] # "none"
    BY <1>3, <2>2 DEF UnderWay
  <2>4. CASE client[c] = "write"
    <3>1. Len(rest[c]) >= 1 /\ Len(up[c]) >= PipeSize[c]
      BY <2>1, <2>4 DEF ClientWaits, Room
    <3>2. serving[c] # "closed"
      BY <1>3, <2>2, <2>4 DEF EchoInv, Sides, Shut
    <3>3. up[c] # <<>>
      BY <2>1, <3>1
    <3>4. serving[c] = "write" /\ (buffer[c] = <<>> => server = "asio")
          /\ (buffer[c] # <<>> => Room(down, c) <= 0)
      BY <2>3, <3>3, <3>2 DEF ServerWaits
    <3>5. buffer[c] # <<>>
      BY <1>3, <3>4 DEF UnderWay
    <3>6. Len(buffer[c]) >= 1 /\ Len(down[c]) >= PipeSize[c]
      BY <2>1, <3>4, <3>5 DEF Room
    <3>7. Len(got[c]) + Len(down[c]) + Len(buffer[c]) + Len(up[c]) + Len(rest[c])
            = MessageSize[c]
      BY <1>3, <2>2 DEF EchoInv, InPieces
    <3>8. ~(Len(got[c]) + Len(down[c]) + Len(buffer[c]) + Len(up[c]) + Len(rest[c])
              <= 2 * PipeSize[c] + 1)
      BY <2>1, <3>1, <3>6, TooMuch
    <3> QED
      BY <3>7, <3>8 DEF Fits
  <2>5. CASE client[c] = "read"
    <3>1. down[c] = <<>> /\ serving[c] # "closed"
      BY <2>5 DEF ClientWaits
    <3>2. ~(Room(down, c) <= 0)
      BY <2>1, <3>1 DEF Room
    <3>3. up[c] = <<>> => ReadFails(c)
      BY <2>5 DEF ReadFails, Shut
    <3>4. serving[c] = "write" /\ buffer[c] = <<>> /\ server = "asio"
      BY <2>3, <3>1, <3>2, <3>3 DEF ServerWaits
    <3> QED
      BY <1>3, <3>4 DEF UnderWay
  <2> QED
    BY <2>2, <2>4, <2>5
<1> QED
  BY <1>1, <1>2, <1>3, EchoInvariance, PTL DEF EchoSpec
=============================================================================
