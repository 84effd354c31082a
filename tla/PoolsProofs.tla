----------------------------- MODULE PoolsProofs ----------------------------
(***************************************************************************)
(* Proofs about the two thread pools: StaticThreadPool with its queue, for *)
(* any number of workers, clients and tasks, and the fibers that run on    *)
(* several threads, for any number of those, of generators and of stacks.  *)
(***************************************************************************)
EXTENDS ThreadPool, MtFibers, FiniteSetTheorems, TLAPS

-----------------------------------------------------------------------------
(* StaticThreadPool *)

\* The tasks that current_number_ counts, and those that executed_counter_ does
Active == {k \in Tasks : status[k] \notin {"new", "rejected", "done"}}
Executed == {k \in Tasks : status[k] \in {"counted", "done"}}

\* The queue holds the accepted tasks, each once
QueueHolds ==
    /\ \A k \in Tasks : status[k] = "queued" <=> \E i \in 1..Len(buffer) : buffer[i] = k
    /\ \A i, j \in 1..Len(buffer) : buffer[i] = buffer[j] => i = j

\* Each task between Take and ReleaseWorker is in the hand of one busy worker
HandsHold ==
    /\ \A w \in Workers : worker[w] = "busy" =>
         hand[w] \in Tasks /\ status[hand[w]] \in {"running", "ran", "counted"}
    /\ \A k \in Tasks : status[k] \in {"running", "ran", "counted"} =>
         \E w \in Workers : worker[w] = "busy" /\ hand[w] = k
    /\ \A w, v \in Workers :
         worker[w] = "busy" /\ worker[v] = "busy" /\ hand[w] = hand[v] => w = v

\* What the owner has done so far, and what it has seen
Stages ==
    /\ mode = "none" <=> owner = "open"
    /\ owner \in {"home", "asleep", "close"} => mode = "join"
    /\ closed <=> owner \in {"joining", "stopped", "gone"}
    /\ \A w \in Workers : worker[w] = "exited" => closed /\ buffer = <<>>
    /\ owner \in {"stopped", "gone"} => \A w \in Workers : worker[w] = "exited"

\* Which tasks can have got lost
Losses ==
    /\ ~closed => \A k \in Tasks : status[k] \notin {"refused", "rejected"}
    /\ mode \in {"none", "join"} => \A k \in Tasks : status[k] # "cleared"
    /\ mode = "join" /\ owner \notin {"home", "asleep"} /\ ~late
         => \A k \in Tasks : status[k] \in {"new", "done"}

Counters == /\ current_number = Cardinality(Active)
            /\ executed_counter = Cardinality(Executed)

PoolInv == TypeOK /\ QueueHolds /\ HandsHold /\ Stages /\ Losses /\ Counters

\* Sets of tasks are counted.
LEMMA CountTasks ==
  \A S \in SUBSET Tasks :
    /\ IsFiniteSet(S) /\ Cardinality(S) \in Nat
    /\ Cardinality(S) = 0 => S = {}
    /\ \A k \in Tasks \ S : Cardinality(S \cup {k}) = Cardinality(S) + 1
    /\ \A k \in S : Cardinality(S \ {k}) = Cardinality(S) - 1
<1>1. ASSUME NEW S \in SUBSET Tasks PROVE IsFiniteSet(S) /\ Cardinality(S) \in Nat
  BY PoolAssumption, FS_Subset, FS_CardinalityType
<1>2. ASSUME NEW S \in SUBSET Tasks, NEW k \in Tasks \ S
      PROVE  Cardinality(S \cup {k}) = Cardinality(S) + 1
  BY <1>1, FS_AddElement
<1>3. ASSUME NEW S \in SUBSET Tasks, NEW k \in S
      PROVE  Cardinality(S \ {k}) = Cardinality(S) - 1
  BY <1>1, FS_RemoveElement
<1>4. ASSUME NEW S \in SUBSET Tasks, Cardinality(S) = 0 PROVE S = {}
  BY <1>1, <1>4, FS_EmptySet
<1> QED
  BY <1>1, <1>2, <1>3, <1>4

\* No task has been submitted when the pool is made.
LEMMA PoolInit0 == Init => PoolInv
<1> SUFFICES ASSUME Init PROVE PoolInv
  OBVIOUS
<1>1. Active = {} /\ Executed = {}
  BY DEF Init, Active, Executed
<1>2. TypeOK
  <2>1. closed \in BOOLEAN /\ late \in BOOLEAN
    BY DEF Init
  <2>2. hand \in [Workers -> Tasks \cup {NoTask}] /\ status \in [Tasks -> Statuses]
    BY DEF Init, Statuses
  <2> QED
    BY <2>1, <2>2 DEF Init, TypeOK
<1>3. QueueHolds
  BY DEF Init, QueueHolds
<1>4. HandsHold
  BY DEF Init, HandsHold
<1>5. Stages
  BY DEF Init, Stages
<1>6. Losses
  BY DEF Init, Losses
<1> QED
  BY <1>1, <1>2, <1>3, <1>4, <1>5, <1>6, FS_EmptySet DEF Init, PoolInv, Counters

\* How the counters follow when the status of task k changes.
LEMMA TaskCounts ==
  ASSUME TypeOK, NEW k \in Tasks, \A j \in Tasks : j # k => status'[j] = status[j]
  PROVE  /\ Cardinality(Active) \in Nat /\ Cardinality(Executed) \in Nat
         /\ status[k] = "new" /\ status'[k] = "acquired" =>
              /\ Cardinality(Active') = Cardinality(Active) + 1
              /\ Executed' = Executed
         /\ (\/ status[k] = "acquired" /\ status'[k] \in {"queued", "refused"}
             \/ status[k] = "queued" /\ status'[k] = "running"
             \/ status[k] = "running" /\ status'[k] = "ran") =>
              Active' = Active /\ Executed' = Executed
         /\ status[k] = "refused" /\ status'[k] = "rejected" =>
              /\ Cardinality(Active') = Cardinality(Active) - 1
              /\ Executed' = Executed
         /\ status[k] = "ran" /\ status'[k] = "counted" =>
              /\ Cardinality(Executed') = Cardinality(Executed) + 1
              /\ Active' = Active
         /\ status[k] = "counted" /\ status'[k] = "done" =>
              /\ Cardinality(Active') = Cardinality(Active) - 1
              /\ Executed' = Executed
<1>1. Active \in SUBSET Tasks /\ Executed \in SUBSET Tasks
  BY DEF Active, Executed
<1>2. ASSUME status[k] = "new", status'[k] = "acquired"
      PROVE  Active' = Active \cup {k} /\ k \in Tasks \ Active /\ Executed' = Executed
  BY <1>2 DEF Active, Executed
<1>3. ASSUME \/ status[k] = "acquired" /\ status'[k] \in {"queued", "refused"}
             \/ status[k] = "queued" /\ status'[k] = "running"
             \/ status[k] = "running" /\ status'[k] = "ran"
      PROVE  Active' = Active /\ Executed' = Executed
  BY <1>3 DEF Active, Executed
<1>4. ASSUME \/ status[k] = "refused" /\ status'[k] = "rejected"
             \/ status[k] = "counted" /\ status'[k] = "done"
      PROVE  Active' = Active \ {k} /\ k \in Active /\ Executed' = Executed
  BY <1>4 DEF Active, Executed
<1>5. ASSUME status[k] = "ran", status'[k] = "counted"
      PROVE  Executed' = Executed \cup {k} /\ k \in Tasks \ Executed /\ Active' = Active
  BY <1>5 DEF Active, Executed
<1> QED
  BY <1>1, <1>2, <1>3, <1>4, <1>5, CountTasks

\* A task on its way through Execute that never gets into the queue.
LEMMA SubmitInv ==
  ASSUME PoolInv, NEW k \in Tasks, AcquireWorker(k) \/ PutRefused(k) \/ ReleaseRefused(k)
  PROVE  PoolInv'
<1> USE DEF AcquireWorker, PutRefused, ReleaseRefused, Move, CountIn, CountOut, NotifyOwner,
        queueVars, history
<1>1. /\ UNCHANGED <<buffer, closed, executed_counter, worker, hand, mode>>
      /\ owner' = owner \/ (owner = "asleep" /\ owner' = "home")
      /\ \/ status[k] = "new" /\ status' = [status EXCEPT ![k] = "acquired"]
            /\ current_number' = current_number + 1
         \/ status[k] = "acquired" /\ status' = [status EXCEPT ![k] = "refused"]
            /\ current_number' = current_number /\ closed
         \/ status[k] = "refused" /\ status' = [status EXCEPT ![k] = "rejected"]
            /\ current_number' = current_number - 1
  OBVIOUS
<1>2. \A j \in Tasks : j # k => status'[j] = status[j]
  BY <1>1 DEF PoolInv, TypeOK
<1>3. \/ status[k] = "new" /\ status'[k] = "acquired"
      \/ status[k] = "acquired" /\ status'[k] = "refused" /\ closed
      \/ status[k] = "refused" /\ status'[k] = "rejected"
  BY <1>1 DEF PoolInv, TypeOK
<1>4. Counters' /\ current_number' \in Nat
  <2>1. /\ current_number' = Cardinality(Active') /\ executed_counter' = Cardinality(Executed')
    BY <1>1, <1>2, <1>3, TaskCounts DEF PoolInv, Counters
  <2>2. Active' \in SUBSET Tasks
    BY DEF Active
  <2> QED
    BY <2>1, <2>2, CountTasks DEF Counters
<1>5. TypeOK'
  <2>1. late' \in BOOLEAN
    <3>1. ASSUME AcquireWorker(k) PROVE late' \in BOOLEAN
      BY <3>1
    <3> QED
      BY <3>1 DEF PoolInv, TypeOK
  <2>2. closed' \in BOOLEAN /\ status' \in [Tasks -> Statuses]
    BY <1>1 DEF PoolInv, TypeOK, Statuses
  <2> QED
    BY <1>1, <1>4, <2>1, <2>2 DEF PoolInv, TypeOK
<1>6. QueueHolds' /\ HandsHold'
  BY <1>1, <1>2, <1>3 DEF PoolInv, QueueHolds, HandsHold, TypeOK
<1>7. Stages'
  BY <1>1 DEF PoolInv, Stages
<1>8. Losses'
  <2>1. ~closed => \A j \in Tasks : status'[j] \notin {"refused", "rejected"}
    BY <1>2, <1>3 DEF PoolInv, Losses
  <2>2. mode \in {"none", "join"} => \A j \in Tasks : status'[j] # "cleared"
    BY <1>2, <1>3 DEF PoolInv, Losses
  <2>3. ASSUME mode' = "join", owner' \notin {"home", "asleep"}, ~late' PROVE FALSE
    <3>1. mode = "join" /\ owner \notin {"home", "asleep"} /\ ~late
      BY <1>1, <2>3 DEF PoolInv, TypeOK
    <3>2. \A j \in Tasks : status[j] \in {"new", "done"}
      BY <3>1 DEF PoolInv, Losses
    <3>3. AcquireWorker(k)
      BY <1>3, <3>2
    <3>4. Source[k] \notin Clients
      BY <2>3, <3>1, <3>3
    <3>5. Source[k] \in Tasks
      BY <3>4, PoolAssumption
    <3>6. status[Source[k]] = "running"
      BY <3>3, <3>5 DEF MaySubmit
    <3> QED
      BY <3>2, <3>5, <3>6
  <2> QED
    BY <1>1, <2>1, <2>2, <2>3 DEF Losses
<1> QED
  BY <1>4, <1>5, <1>6, <1>7, <1>8 DEF PoolInv

\* A task gets into the queue: then no worker has left.
LEMMA PutAcceptedInv ==
  ASSUME PoolInv, NEW k \in Tasks, PutAccepted(k) PROVE PoolInv'
<1> USE DEF PutAccepted, Move, history
<1>1. /\ UNCHANGED <<closed, current_number, executed_counter, hand, owner, mode, late>>
      /\ ~closed /\ status[k] = "acquired" /\ status'[k] = "queued"
      /\ \A j \in Tasks : j # k => status'[j] = status[j]
  BY DEF PoolInv, TypeOK
<1>2. /\ worker' \in [Workers -> {"take", "asleep", "busy", "exited"}]
      /\ \A w \in Workers : worker'[w] = worker[w] \/ (worker[w] = "asleep" /\ worker'[w] = "take")
  BY DEF NotifyWorker, PoolInv, TypeOK
<1>3. Counters'
  <2>1. Active' = Active /\ Executed' = Executed
    BY <1>1, TaskCounts DEF PoolInv
  <2> QED
    BY <1>1, <2>1 DEF PoolInv, Counters
<1>4. TypeOK'
  <2>1. late' \in BOOLEAN /\ closed' \in BOOLEAN
    BY <1>1 DEF PoolInv, TypeOK
  <2>2. status' \in [Tasks -> Statuses] /\ buffer' \in Seq(Tasks)
    BY DEF PoolInv, TypeOK, Statuses
  <2> QED
    BY <1>1, <1>2, <2>1, <2>2 DEF PoolInv, TypeOK
<1>5. QueueHolds'
  <2>1. /\ Len(buffer') = Len(buffer) + 1 /\ Len(buffer) \in Nat /\ buffer'[Len(buffer) + 1] = k
        /\ \A i \in 1..Len(buffer) : buffer'[i] = buffer[i] /\ buffer[i] # k
    BY <1>1 DEF PoolInv, TypeOK, QueueHolds
  <2>2. ASSUME NEW i \in 1..Len(buffer'), NEW j \in 1..Len(buffer'), buffer'[i] = buffer'[j]
        PROVE  i = j
    BY <2>1, <2>2 DEF PoolInv, QueueHolds
  <2>3. ASSUME NEW j \in Tasks
        PROVE  status'[j] = "queued" <=> \E i \in 1..Len(buffer') : buffer'[i] = j
    BY <1>1, <2>1 DEF PoolInv, QueueHolds
  <2> QED
    BY <2>2, <2>3 DEF QueueHolds
<1>6. HandsHold'
  <2>1. \A w \in Workers : worker'[w] = "busy" <=> worker[w] = "busy"
    BY <1>2
  <2> QED
    BY <1>1, <2>1 DEF PoolInv, HandsHold
<1>7. Stages'
  <2>1. \A w \in Workers : worker'[w] # "exited" /\ worker[w] # "exited"
    BY <1>1, <1>2 DEF PoolInv, Stages
  <2> QED
    BY <1>1, <2>1 DEF PoolInv, Stages
<1>8. Losses'
  BY <1>1 DEF PoolInv, Losses
<1> QED
  BY <1>3, <1>4, <1>5, <1>6, <1>7, <1>8 DEF PoolInv

\* A worker takes the front of the queue.
LEMMA TakeTaskInv ==
  ASSUME PoolInv, NEW w \in Workers, TakeTask(w) PROVE PoolInv'
<1> USE DEF TakeTask, history
<1> DEFINE k == Head(buffer)
<1>1. /\ UNCHANGED <<closed, current_number, executed_counter, owner, mode, late>>
      /\ buffer # <<>> /\ worker[w] = "take"
      /\ status' = [status EXCEPT ![k] = "running"]
  OBVIOUS
<1>2. /\ k \in Tasks /\ k = buffer[1] /\ Len(buffer) \in Nat \ {0} /\ status[k] = "queued"
      /\ Len(buffer') = Len(buffer) - 1 /\ buffer' \in Seq(Tasks)
      /\ \A i \in 1..Len(buffer') : buffer'[i] = buffer[i + 1]
  BY <1>1 DEF PoolInv, TypeOK, QueueHolds
<1>3. /\ hand'[w] = k /\ worker'[w] = "busy" /\ status'[k] = "running"
      /\ \A v \in Workers : v # w => hand'[v] = hand[v] /\ worker'[v] = worker[v]
      /\ \A j \in Tasks : j # k => status'[j] = status[j]
  BY <1>2 DEF PoolInv, TypeOK
<1> HIDE DEF k
<1>4. Counters'
  <2>1. Active' = Active /\ Executed' = Executed
    BY <1>2, <1>3, TaskCounts DEF PoolInv
  <2> QED
    BY <1>1, <2>1 DEF PoolInv, Counters
<1>5. TypeOK'
  <2>1. late' \in BOOLEAN /\ closed' \in BOOLEAN
    BY <1>1 DEF PoolInv, TypeOK
  <2>2. status' \in [Tasks -> Statuses] /\ hand' \in [Workers -> Tasks \cup {NoTask}]
    BY <1>1, <1>2 DEF PoolInv, TypeOK, Statuses, k
  <2> QED
    BY <1>1, <1>2, <2>1, <2>2 DEF PoolInv, TypeOK
<1>6. QueueHolds'
  <2>1. ASSUME NEW i \in 1..Len(buffer'), NEW j \in 1..Len(buffer'), buffer'[i] = buffer'[j]
        PROVE  i = j
    BY <1>2, <2>1 DEF PoolInv, QueueHolds
  <2>2. ASSUME NEW j \in Tasks, status'[j] = "queued"
        PROVE  \E i \in 1..Len(buffer') : buffer'[i] = j
    <3>1. j # k /\ status[j] = "queued"
      BY <1>3, <2>2
    <3>2. PICK i \in 1..Len(buffer) : buffer[i] = j
      BY <3>1 DEF PoolInv, QueueHolds
    <3>3. i # 1
      BY <1>2, <3>1, <3>2
    <3>4. i - 1 \in 1..Len(buffer') /\ (i - 1) + 1 = i
      BY <1>2, <3>2, <3>3
    <3>5. buffer'[i - 1] = j
      BY <1>2, <3>2, <3>4
    <3> QED
      BY <3>4, <3>5
  <2>3. ASSUME NEW i \in 1..Len(buffer') PROVE status'[buffer'[i]] = "queued"
    <3>1. i + 1 \in 1..Len(buffer) /\ buffer'[i] = buffer[i + 1] /\ buffer'[i] \in Tasks
      BY <1>2
    <3>2. buffer[i + 1] # k
      BY <1>2, <3>1 DEF PoolInv, QueueHolds
    <3> QED
      BY <1>3, <3>1, <3>2 DEF PoolInv, QueueHolds
  <2> QED
    BY <2>1, <2>2, <2>3 DEF QueueHolds
<1>7. HandsHold'
  <2>1. \A v \in Workers : v # w /\ worker'[v] = "busy" => hand'[v] # k /\ worker[v] = "busy"
    BY <1>2, <1>3 DEF PoolInv, HandsHold
  <2>2. ASSUME NEW j \in Tasks, status'[j] \in {"running", "ran", "counted"}
        PROVE  \E v \in Workers : worker'[v] = "busy" /\ hand'[v] = j
    BY <1>1, <1>3, <2>2 DEF PoolInv, HandsHold
  <2>3. ASSUME NEW v \in Workers, worker'[v] = "busy"
        PROVE  hand'[v] \in Tasks /\ status'[hand'[v]] \in {"running", "ran", "counted"}
    BY <1>2, <1>3, <2>1, <2>3 DEF PoolInv, HandsHold
  <2>4. ASSUME NEW v \in Workers, NEW u \in Workers, worker'[v] = "busy", worker'[u] = "busy",
               hand'[v] = hand'[u]
        PROVE  v = u
    BY <1>3, <2>1, <2>4 DEF PoolInv, HandsHold
  <2> QED
    BY <2>2, <2>3, <2>4 DEF HandsHold
<1>8. Stages'
  <2>1. \A v \in Workers : worker'[v] # "exited" /\ worker[v] # "exited"
    BY <1>1, <1>3 DEF PoolInv, Stages
  <2> QED
    BY <1>1, <2>1 DEF PoolInv, Stages
<1>9. Losses'
  BY <1>1, <1>2, <1>3 DEF PoolInv, Losses
<1> QED
  BY <1>4, <1>5, <1>6, <1>7, <1>8, <1>9 DEF PoolInv

\* The task in a worker's hand ends and is counted.
LEMMA RunInv ==
  ASSUME PoolInv, NEW w \in Workers, TaskEnds(w) \/ CountExecuted(w) PROVE PoolInv'
<1> USE DEF TaskEnds, CountExecuted, Move, queueVars, history
<1>1. /\ UNCHANGED <<buffer, closed, current_number, worker, hand, owner, mode, late>>
      /\ hand[w] \in Tasks
  BY DEF PoolInv, HandsHold
<1>2. /\ \A j \in Tasks : j # hand[w] => status'[j] = status[j]
      /\ status' \in [Tasks -> Statuses]
      /\ \/ status[hand[w]] = "running" /\ status'[hand[w]] = "ran"
            /\ executed_counter' = executed_counter
         \/ status[hand[w]] = "ran" /\ status'[hand[w]] = "counted"
            /\ executed_counter' = executed_counter + 1
  BY <1>1 DEF PoolInv, TypeOK, Statuses
<1>3. Counters' /\ executed_counter' \in Nat
  <2>1. /\ current_number' = Cardinality(Active') /\ executed_counter' = Cardinality(Executed')
    BY <1>1, <1>2, TaskCounts DEF PoolInv, Counters
  <2>2. Executed' \in SUBSET Tasks
    BY DEF Executed
  <2> QED
    BY <2>1, <2>2, CountTasks DEF Counters
<1>4. TypeOK'
  <2>1. closed' \in BOOLEAN /\ late' \in BOOLEAN
    BY <1>1 DEF PoolInv, TypeOK
  <2> QED
    BY <1>1, <1>2, <1>3, <2>1 DEF PoolInv, TypeOK
<1>5. QueueHolds' /\ HandsHold'
  BY <1>1, <1>2 DEF PoolInv, QueueHolds, HandsHold, TypeOK
<1>6. Stages' /\ Losses'
  BY <1>1, <1>2 DEF PoolInv, Stages, Losses
<1> QED
  BY <1>3, <1>4, <1>5, <1>6 DEF PoolInv

\* The worker is done with its task and tells the owner.
LEMMA ReleaseWorkerInv ==
  ASSUME PoolInv, NEW w \in Workers, ReleaseWorker(w) PROVE PoolInv'
<1> USE DEF ReleaseWorker, Move, CountOut, NotifyOwner, queueVars, history
<1>1. /\ UNCHANGED <<buffer, closed, executed_counter, mode, late>>
      /\ owner' = owner \/ (owner = "asleep" /\ owner' = "home")
      /\ hand[w] \in Tasks /\ worker[w] = "busy"
      /\ status[hand[w]] = "counted" /\ current_number' = current_number - 1
  BY DEF PoolInv, HandsHold
<1>2. /\ \A j \in Tasks : j # hand[w] => status'[j] = status[j]
      /\ status' \in [Tasks -> Statuses] /\ status'[hand[w]] = "done"
      /\ worker'[w] = "take"
      /\ \A v \in Workers : v # w => worker'[v] = worker[v] /\ hand'[v] = hand[v]
  BY <1>1 DEF PoolInv, TypeOK, Statuses
<1>3. Counters' /\ current_number' \in Nat
  <2>1. /\ current_number' = Cardinality(Active') /\ executed_counter' = Cardinality(Executed')
    BY <1>1, <1>2, TaskCounts DEF PoolInv, Counters
  <2>2. Active' \in SUBSET Tasks
    BY DEF Active
  <2> QED
    BY <2>1, <2>2, CountTasks DEF Counters
<1>4. TypeOK'
  <2>1. closed' \in BOOLEAN /\ late' \in BOOLEAN
    BY <1>1 DEF PoolInv, TypeOK
  <2> QED
    BY <1>1, <1>2, <1>3, <2>1 DEF PoolInv, TypeOK
<1>5. QueueHolds'
  BY <1>1, <1>2 DEF PoolInv, QueueHolds
<1>6. HandsHold'
  <2>1. \A v \in Workers : worker'[v] = "busy" =>
          v # w /\ worker[v] = "busy" /\ hand'[v] = hand[v] /\ hand[v] # hand[w]
    BY <1>1, <1>2 DEF PoolInv, HandsHold
  <2>2. ASSUME NEW k \in Tasks, status'[k] \in {"running", "ran", "counted"}
        PROVE  \E v \in Workers : worker'[v] = "busy" /\ hand'[v] = k
    <3>1. k # hand[w] /\ status[k] \in {"running", "ran", "counted"}
      BY <1>1, <1>2, <2>2
    <3>2. PICK v \in Workers : worker[v] = "busy" /\ hand[v] = k
      BY <3>1 DEF PoolInv, HandsHold
    <3> QED
      BY <1>2, <3>1, <3>2
  <2>3. ASSUME NEW v \in Workers, worker'[v] = "busy"
        PROVE  hand'[v] \in Tasks /\ status'[hand'[v]] \in {"running", "ran", "counted"}
    BY <1>2, <2>1, <2>3 DEF PoolInv, HandsHold
  <2>4. \A v, u \in Workers :
          worker'[v] = "busy" /\ worker'[u] = "busy" /\ hand'[v] = hand'[u] => v = u
    BY <2>1 DEF PoolInv, HandsHold
  <2> QED
    BY <2>2, <2>3, <2>4 DEF HandsHold
<1>7. Stages'
  BY <1>1, <1>2 DEF PoolInv, Stages
<1>8. Losses'
  BY <1>1, <1>2 DEF PoolInv, Losses
<1> QED
  BY <1>3, <1>4, <1>5, <1>6, <1>7, <1>8 DEF PoolInv

\* A worker goes to sleep, wakes or leaves; the owner may wake as well.
LEMMA SleepInv ==
  ASSUME PoolInv, SpuriousStep \/ \E w \in Workers : TakeSleep(w) \/ TakeExit(w)
  PROVE  PoolInv'
<1> USE DEF SpuriousStep, SpuriousWakeup, TakeSleep, TakeExit, queueVars, history
<1>1. /\ UNCHANGED <<buffer, closed, current_number, executed_counter, hand, status, mode, late>>
      /\ owner' = owner \/ (owner = "asleep" /\ owner' = "home")
  OBVIOUS
<1>2. /\ worker' \in [Workers -> {"take", "asleep", "busy", "exited"}]
      /\ \A v \in Workers : worker'[v] = "busy" <=> worker[v] = "busy"
      /\ \A v \in Workers : worker[v] = "exited" => worker'[v] = "exited"
      /\ \A v \in Workers : worker'[v] = "exited" =>
           worker[v] = "exited" \/ (closed /\ buffer = <<>>)
  BY DEF PoolInv, TypeOK
<1>3. TypeOK'
  <2>1. closed' \in BOOLEAN /\ late' \in BOOLEAN
    BY <1>1 DEF PoolInv, TypeOK
  <2> QED
    BY <1>1, <1>2, <2>1 DEF PoolInv, TypeOK
<1>4. QueueHolds' /\ HandsHold'
  BY <1>1, <1>2 DEF PoolInv, QueueHolds, HandsHold
<1>5. Stages'
  BY <1>1, <1>2 DEF PoolInv, Stages
<1>6. Losses'
  BY <1>1 DEF PoolInv, Losses
<1>7. Counters'
  BY <1>1 DEF PoolInv, Counters, Active, Executed
<1> QED
  BY <1>3, <1>4, <1>5, <1>6, <1>7 DEF PoolInv

\* Join and the destructor: when everybody is home, no task is anywhere in the
\* pool, and none can come but from a client.
LEMMA JoinInv ==
  ASSUME PoolInv, JoinCall \/ EverybodyHome \/ Close \/ JoinThreads \/ DestroyStopped
  PROVE  PoolInv'
<1> USE DEF JoinCall, EverybodyHome, Close, JoinThreads, DestroyStopped, NotifyWorkers,
        queueVars, history
<1>1. UNCHANGED <<buffer, current_number, executed_counter, hand, status, late>>
  OBVIOUS
<1>2. /\ worker' \in [Workers -> {"take", "asleep", "busy", "exited"}]
      /\ \A v \in Workers : worker'[v] = "busy" <=> worker[v] = "busy"
      /\ \A v \in Workers : worker'[v] = "exited" <=> worker[v] = "exited"
  BY DEF PoolInv, TypeOK
<1>3. TypeOK'
  <2>1. closed' \in BOOLEAN /\ late' \in BOOLEAN
    BY <1>1 DEF PoolInv, TypeOK
  <2>2. owner' \in {"open", "home", "asleep", "close", "joining", "stopped", "gone"}
        /\ mode' \in {"none", "join", "shutdown", "destroy"}
    BY DEF PoolInv, TypeOK
  <2> QED
    BY <1>1, <1>2, <2>1, <2>2 DEF PoolInv, TypeOK
<1>4. QueueHolds' /\ HandsHold'
  BY <1>1, <1>2 DEF PoolInv, QueueHolds, HandsHold
<1>5. Stages'
  <2>1. ASSUME JoinCall PROVE Stages'
    BY <2>1, <1>1, <1>2 DEF PoolInv, Stages
  <2>2. ASSUME EverybodyHome PROVE Stages'
    BY <2>2, <1>1, <1>2 DEF PoolInv, Stages
  <2>3. ASSUME Close PROVE Stages'
    BY <2>3, <1>1, <1>2 DEF PoolInv, Stages
  <2>4. ASSUME JoinThreads \/ DestroyStopped PROVE Stages'
    BY <2>4, <1>1, <1>2 DEF PoolInv, Stages
  <2> QED
    BY <2>1, <2>2, <2>3, <2>4
<1>6. Losses'
  <2>1. ASSUME JoinCall \/ Close \/ JoinThreads \/ DestroyStopped PROVE Losses'
    BY <2>1, <1>1 DEF PoolInv, Losses, Stages
  <2>2. ASSUME EverybodyHome PROVE Losses'
    <3>1. ~closed /\ UNCHANGED <<closed, mode>>
      BY <2>2 DEF PoolInv, Stages
    <3>2. current_number = 0 => \A k \in Tasks : status[k] \in {"new", "done"}
      <4>1. Active \in SUBSET Tasks
        BY DEF Active
      <4>2. current_number = 0 => Active = {}
        BY <4>1, CountTasks DEF PoolInv, Counters
      <4>3. \A k \in Tasks : status[k] \notin {"refused", "rejected"}
        BY <3>1 DEF PoolInv, Losses
      <4> QED
        BY <4>2, <4>3 DEF Active
    <3> QED
      BY <2>2, <1>1, <3>1, <3>2 DEF PoolInv, Losses
  <2> QED
    BY <2>1, <2>2
<1>7. Counters'
  BY <1>1 DEF PoolInv, Counters, Active, Executed
<1> QED
  BY <1>3, <1>4, <1>5, <1>6, <1>7 DEF PoolInv

\* Cancel throws the queue away, once.
LEMMA CancelInv == ASSUME PoolInv, Shutdown \/ DestroyOpen PROVE PoolInv'
<1>1. PICK how \in {"shutdown", "destroy"} : Cancel(how)
  BY DEF Shutdown, DestroyOpen
<1> USE DEF Cancel, NotifyWorkers, Clear
<1>2. /\ UNCHANGED <<current_number, executed_counter, hand, late>>
      /\ owner = "open" /\ owner' = "joining" /\ closed' = TRUE /\ buffer' = <<>>
      /\ mode' \in {"shutdown", "destroy"}
      /\ \A k \in Tasks : status'[k] = IF status[k] = "queued" THEN "cleared" ELSE status[k]
  BY <1>1
<1>3. /\ worker' \in [Workers -> {"take", "asleep", "busy", "exited"}]
      /\ \A v \in Workers : worker'[v] = "busy" <=> worker[v] = "busy"
      /\ \A v \in Workers : worker'[v] # "exited"
  BY <1>1 DEF PoolInv, TypeOK, Stages
<1>4. TypeOK'
  <2>1. closed' \in BOOLEAN /\ late' \in BOOLEAN
    BY <1>2 DEF PoolInv, TypeOK
  <2>2. status' \in [Tasks -> Statuses] /\ buffer' \in Seq(Tasks)
    BY <1>1, <1>2 DEF PoolInv, TypeOK, Statuses
  <2> QED
    BY <1>2, <1>3, <2>1, <2>2 DEF PoolInv, TypeOK
<1>5. QueueHolds'
  BY <1>2 DEF QueueHolds
<1>6. HandsHold'
  BY <1>2, <1>3 DEF PoolInv, HandsHold
<1>7. Stages' /\ Losses'
  BY <1>2, <1>3 DEF Stages, Losses
<1>8. Active' = Active /\ Executed' = Executed
  BY <1>2 DEF Active, Executed
<1> QED
  BY <1>2, <1>4, <1>5, <1>6, <1>7, <1>8 DEF PoolInv, Counters

\* PoolInv holds in every state.
THEOREM PoolInvariance == Spec => []PoolInv
<1>1. PoolInv /\ [Next]_vars => PoolInv'
  <2> SUFFICES ASSUME PoolInv, [Next]_vars PROVE PoolInv'
    OBVIOUS
  <2>1. ASSUME UNCHANGED vars PROVE PoolInv'
    BY <2>1 DEF vars, history, PoolInv, TypeOK, QueueHolds, HandsHold, Stages, Losses,
       Counters, Active, Executed
  <2>2. ASSUME NEW k \in Tasks, AcquireWorker(k) \/ Submit(k) PROVE PoolInv'
    BY <2>2, SubmitInv, PutAcceptedInv DEF Submit
  <2>3. ASSUME NEW w \in Workers, Work(w) PROVE PoolInv'
    BY <2>3, TakeTaskInv, RunInv, ReleaseWorkerInv, SleepInv DEF Work
  <2> QED
    BY <2>1, <2>2, <2>3, JoinInv, CancelInv, SleepInv DEF Next, Stopping, Finished
<1> QED
  BY <1>1, PoolInit0, PTL DEF Spec

\* Join drains the pool, refuses nothing unless a client comes too late, and
\* the counters are exact: for any number of workers, clients and tasks, and
\* whatever the tasks submit.
THEOREM JoinIsGraceful == Spec => []JoinDrains
<1>1. PoolInv => JoinDrains
  <2> SUFFICES ASSUME PoolInv PROVE JoinDrains
    OBVIOUS
  <2>1. ASSUME owner \in {"stopped", "gone"}
        PROVE  /\ \A k \in Tasks : status[k] \notin {"queued", "running", "ran", "counted"}
               /\ executed_counter = Cardinality({k \in Tasks : status[k] = "done"})
    <3>1. PICK w \in Workers : TRUE
      BY PoolAssumption
    <3>2. buffer = <<>> /\ \A v \in Workers : worker[v] # "busy"
      BY <2>1, <3>1 DEF PoolInv, Stages
    <3>3. \A k \in Tasks : status[k] \notin {"queued", "running", "ran", "counted"}
      BY <3>2 DEF PoolInv, QueueHolds, HandsHold
    <3>4. {k \in Tasks : status[k] = "done"} = Executed
      BY <3>3 DEF Executed
    <3> QED
      BY <3>3, <3>4 DEF PoolInv, Counters
  <2>2. CountersExact
    BY <2>1 DEF PoolInv, Counters, Active, CountersExact
  <2>3. ASSUME mode = "join", ~late
        PROVE  \A k \in Tasks : status[k] \notin {"refused", "rejected"}
    BY <2>3 DEF PoolInv, Stages, Losses
  <2> QED
    BY <2>1, <2>2, <2>3 DEF PoolInv, Losses, JoinDrains
<1> QED
  BY <1>1, PoolInvariance, PTL

\* The workers that are about to look into the queue
Takers == {w \in Workers : worker[w] = "take"}

\* While a worker sleeps the queue is open and holds no more tasks than workers
\* are about to take one; the owner sleeps only while the pool is not empty.
WakeupsSuffice ==
    /\ (\E w \in Workers : worker[w] = "asleep") =>
         ~closed /\ Len(buffer) <= Cardinality(Takers)
    /\ owner = "asleep" => current_number # 0

\* No wakeup of the pool is lost: with a task in the queue some worker is awake,
\* nobody sleeps once the queue is closed, and EverybodyHome() sleeps only while
\* a task is inside the pool that will count itself out.
NobodySleepsOverWork ==
    /\ buffer # <<>> => \E w \in Workers : worker[w] \in {"take", "busy"}
    /\ closed => \A w \in Workers : worker[w] # "asleep"
    /\ owner = "asleep" =>
         \E k \in Tasks : status[k] \in {"acquired", "queued", "refused", "running",
                                         "ran", "counted"}

\* Sets of workers are counted.
LEMMA CountWorkers ==
  \A S \in SUBSET Workers :
    /\ IsFiniteSet(S) /\ Cardinality(S) \in Nat
    /\ Cardinality(S) > 0 => S # {}
    /\ \A w \in Workers \ S : Cardinality(S \cup {w}) = Cardinality(S) + 1
    /\ \A w \in S : Cardinality(S \ {w}) = Cardinality(S) - 1
<1>1. ASSUME NEW S \in SUBSET Workers PROVE IsFiniteSet(S) /\ Cardinality(S) \in Nat
  BY PoolAssumption, FS_Subset, FS_CardinalityType
<1>2. Cardinality({}) = 0
  BY FS_EmptySet
<1> QED
  BY <1>1, <1>2, FS_AddElement, FS_RemoveElement

\* A wakeup adds a worker to Takers; Take removes it.
LEMMA TakersCount ==
  ASSUME NEW w \in Workers, worker \in [Workers -> {"take", "asleep", "busy", "exited"}],
         NEW to \in {"take", "asleep", "busy", "exited"},
         worker' = [worker EXCEPT ![w] = to]
  PROVE  /\ Cardinality(Takers) \in Nat /\ Cardinality(Takers') \in Nat
         /\ worker[w] # "take" /\ to = "take" =>
              Cardinality(Takers') = Cardinality(Takers) + 1
         /\ worker[w] = "take" /\ to # "take" =>
              Cardinality(Takers') = Cardinality(Takers) - 1
<1>1. Takers \in SUBSET Workers /\ Takers' \in SUBSET Workers
  BY DEF Takers
<1>2. worker[w] # "take" /\ to = "take" => Takers' = Takers \cup {w} /\ w \in Workers \ Takers
  BY DEF Takers
<1>3. worker[w] = "take" /\ to # "take" => Takers' = Takers \ {w} /\ w \in Takers
  BY DEF Takers
<1> QED
  BY <1>1, <1>2, <1>3, CountWorkers

\* Put wakes a worker for its task, and Close and Cancel wake all.
LEMMA WakeupsStep ==
  ASSUME PoolInv, WakeupsSuffice, [Next]_vars
  PROVE  WakeupsSuffice'
<1>0. /\ worker \in [Workers -> {"take", "asleep", "busy", "exited"}]
      /\ buffer \in Seq(Tasks) /\ Len(buffer) \in Nat /\ current_number \in Nat
      /\ Takers \in SUBSET Workers /\ Cardinality(Takers) \in Nat
  BY CountWorkers DEF PoolInv, TypeOK, Takers
<1> USE DEF WakeupsSuffice, queueVars, history, Move
<1>1. ASSUME UNCHANGED <<buffer, closed, worker>>,
             \/ owner' # "asleep" \/ UNCHANGED <<owner, current_number>>
             \/ current_number' # 0
      PROVE  WakeupsSuffice'
  <2>1. Takers' = Takers
    BY <1>1 DEF Takers
  <2> QED
    BY <1>1, <2>1
<1>2. ASSUME NEW k \in Tasks, AcquireWorker(k) PROVE WakeupsSuffice'
  BY <1>1, <1>2 DEF AcquireWorker, CountIn, NotifyOwner
<1>3. ASSUME NEW k \in Tasks, PutRefused(k) \/ ReleaseRefused(k) PROVE WakeupsSuffice'
  BY <1>1, <1>3 DEF PutRefused, ReleaseRefused, CountOut, NotifyOwner
<1>4. ASSUME NEW w \in Workers, worker[w] # "take", worker' = [worker EXCEPT ![w] = "take"],
             owner' # "asleep" \/ UNCHANGED <<owner, current_number>>, closed' = closed,
             buffer' = buffer \/ (~closed /\ worker[w] = "asleep"
                                  /\ \E k \in Tasks : buffer' = Append(buffer, k))
      PROVE  WakeupsSuffice'
  <2>1. Cardinality(Takers') = Cardinality(Takers) + 1
    BY <1>0, <1>4, TakersCount
  <2>2. Len(buffer') = Len(buffer) \/ (worker[w] = "asleep" /\ Len(buffer') = Len(buffer) + 1)
    BY <1>0, <1>4
  <2>3. \A v \in Workers : worker'[v] = "asleep" => worker[v] = "asleep"
    BY <1>0, <1>4
  <2> QED
    BY <1>0, <1>4, <2>1, <2>2, <2>3
<1>5. ASSUME NEW k \in Tasks, PutAccepted(k) PROVE WakeupsSuffice'
  <2>1. CASE (\A w \in Workers : worker[w] # "asleep") /\ UNCHANGED worker
    BY <1>5, <2>1 DEF PutAccepted
  <2>2. CASE \E w \in Workers : worker[w] = "asleep" /\ worker' = [worker EXCEPT ![w] = "take"]
    BY <1>4, <1>5, <2>2 DEF PutAccepted
  <2> QED
    BY <1>5, <2>1, <2>2 DEF PutAccepted, NotifyWorker
<1>6. ASSUME NEW w \in Workers, TakeSleep(w) PROVE WakeupsSuffice'
  <2>1. Cardinality(Takers') \in Nat
    BY <1>0, <1>6, TakersCount DEF TakeSleep
  <2>2. Len(buffer') = 0 /\ ~closed' /\ UNCHANGED <<owner, current_number>>
    BY <1>6 DEF TakeSleep
  <2> QED
    BY <2>1, <2>2
<1>7. ASSUME NEW w \in Workers, TakeExit(w) PROVE WakeupsSuffice'
  BY <1>0, <1>7 DEF TakeExit
<1>8. ASSUME NEW w \in Workers, TakeTask(w) PROVE WakeupsSuffice'
  <2>1. Cardinality(Takers') = Cardinality(Takers) - 1
    BY <1>0, <1>8, TakersCount DEF TakeTask
  <2>2. Len(buffer') = Len(buffer) - 1
    BY <1>0, <1>8 DEF TakeTask
  <2>3. \A v \in Workers : worker'[v] = "asleep" => worker[v] = "asleep"
    BY <1>0, <1>8 DEF TakeTask
  <2>4. UNCHANGED <<closed, owner, current_number>>
    BY <1>8 DEF TakeTask
  <2> QED
    BY <1>0, <2>1, <2>2, <2>3, <2>4
<1>9. ASSUME NEW w \in Workers, TaskEnds(w) \/ CountExecuted(w) PROVE WakeupsSuffice'
  BY <1>1, <1>9 DEF TaskEnds, CountExecuted
<1>10. ASSUME NEW w \in Workers, ReleaseWorker(w) PROVE WakeupsSuffice'
  BY <1>4, <1>10 DEF ReleaseWorker, CountOut, NotifyOwner
<1>11. ASSUME JoinCall \/ EverybodyHome \/ JoinThreads \/ DestroyStopped PROVE WakeupsSuffice'
  BY <1>1, <1>11 DEF JoinCall, EverybodyHome, JoinThreads, DestroyStopped
<1>12. ASSUME Close \/ Shutdown \/ DestroyOpen PROVE WakeupsSuffice'
  BY <1>0, <1>12 DEF Close, Shutdown, DestroyOpen, Cancel, NotifyWorkers
<1>13. ASSUME SpuriousStep PROVE WakeupsSuffice'
  BY <1>1, <1>4, <1>13 DEF SpuriousStep, SpuriousWakeup
<1>14. ASSUME UNCHANGED vars PROVE WakeupsSuffice'
  BY <1>1, <1>14 DEF vars
<1> QED
  BY <1>2, <1>3, <1>5, <1>6, <1>7, <1>8, <1>9, <1>10, <1>11, <1>12, <1>13, <1>14
  DEF Next, Submit, Work, Stopping, Finished

\* However many workers, clients and tasks there are, and whichever sleeper
\* notify_one() picks, nobody in the pool sleeps over work.
THEOREM PoolNeverStalls == Spec => []NobodySleepsOverWork
<1>1. Init => WakeupsSuffice
  BY DEF Init, WakeupsSuffice
<1>2. PoolInv /\ WakeupsSuffice /\ [Next]_vars => WakeupsSuffice'
  BY WakeupsStep
<1>3. ASSUME PoolInv, WakeupsSuffice PROVE NobodySleepsOverWork
  <2>1. ASSUME buffer # <<>> PROVE \E w \in Workers : worker[w] \in {"take", "busy"}
    <3>1. CASE \E w \in Workers : worker[w] = "asleep"
      <4>1. Takers \in SUBSET Workers /\ Len(buffer) > 0 /\ Len(buffer) \in Nat
        BY <1>3, <2>1 DEF PoolInv, TypeOK, Takers
      <4>2. Cardinality(Takers) > 0
        BY <1>3, <3>1, <4>1, CountWorkers DEF WakeupsSuffice
      <4>3. Takers # {}
        BY <4>1, <4>2, CountWorkers
      <4> QED
        BY <4>3 DEF Takers
    <3>2. CASE \A w \in Workers : worker[w] # "asleep"
      BY <1>3, <2>1, <3>2, PoolAssumption DEF PoolInv, Stages, TypeOK
    <3> QED
      BY <3>1, <3>2
  <2>2. ASSUME owner = "asleep"
        PROVE  \E k \in Tasks : status[k] \in {"acquired", "queued", "refused", "running",
                                               "ran", "counted"}
    <3>1. Active # {}
      BY <1>3, <2>2, FS_EmptySet DEF PoolInv, Counters, WakeupsSuffice
    <3>2. \A k \in Tasks : status[k] # "cleared" /\ status[k] \in Statuses
      BY <1>3, <2>2 DEF PoolInv, Stages, Losses, TypeOK
    <3> QED
      BY <3>1, <3>2 DEF Active, Statuses
  <2> QED
    BY <1>3, <2>1, <2>2 DEF NobodySleepsOverWork, WakeupsSuffice
<1>4. PoolInv /\ WakeupsSuffice => NobodySleepsOverWork
  BY <1>3
<1> QED
  BY <1>1, <1>2, <1>4, PoolInvariance, PTL DEF Spec

-----------------------------------------------------------------------------
(* Fibers on several threads *)

\* Coroutines that have been resumed and have not come back yet
Resumed == {c \in Coroutines : caller[c] # NoCo}

\* A fiber that exists has one turn to come, or is the task of one worker
FibersPlaced ==
    /\ gone \subseteq spawned
    /\ \A i \in 1..Len(posted) : posted[i] \in spawned \ gone
    /\ \A i, j \in 1..Len(posted) : posted[i] = posted[j] => i = j
    /\ \A w \in PoolThreads : task[w] = NoCo <=> at[w] \in {"idle", "left"}
    /\ \A w \in PoolThreads : task[w] # NoCo =>
         task[w] \in spawned \ gone /\ \A i \in 1..Len(posted) : posted[i] # task[w]
    /\ \A v, w \in PoolThreads : task[v] = task[w] /\ task[v] # NoCo => v = w
    /\ \A r \in spawned \ gone : \/ \E i \in 1..Len(posted) : posted[i] = r
                                 \/ \E w \in PoolThreads : task[w] = r

\* How far a fiber has come, and when it has a stack
FibersDone ==
    /\ gone \subseteq completed
    /\ \A r \in Routines \ spawned : r \notin completed
    /\ \A r \in gone \cup (Routines \ spawned) : stackOf[r] = NoStack
    /\ \A i \in 1..Len(posted) : posted[i] \notin completed
    /\ \A w \in PoolThreads :
         /\ at[w] \in {"popping", "resume", "inside"} => task[w] \notin completed
         /\ at[w] \in {"popping", "resume", "inside", "back"} => stackOf[task[w]] # NoStack
         /\ at[w] \in {"exchange", "spin", "critical"} =>
              (stackOf[task[w]] = NoStack <=> task[w] \notin completed)

\* A worker leaves when there is nothing left to do
WhenLeft ==
    /\ \A w \in PoolThreads : at[w] = "left" =>
         /\ posted = <<>> /\ main # "open"
         /\ \A v \in PoolThreads : task[v] = NoCo
    /\ main = "joined" => \A w \in PoolThreads : at[w] = "left"

\* The spinlock excludes
LockHeld ==
    /\ \A w \in PoolThreads : at[w] \in {"critical", "popping"} => locked = 1
    /\ \A v, w \in PoolThreads :
         at[v] \in {"critical", "popping"} /\ at[w] \in {"critical", "popping"} => v = w

\* Every stack is in one place, but for the moment between back() and pop_back()
StacksHeld ==
    /\ \A r, s \in Routines : stackOf[r] # NoStack /\ stackOf[r] = stackOf[s] => r = s
    /\ \A i, j \in 1..Len(pool) : pool[i] = pool[j] => i = j
    /\ \A r \in Routines : \A i \in 1..Len(pool) : pool[i] = stackOf[r] =>
         i = Len(pool) /\ \E w \in PoolThreads : at[w] = "popping" /\ task[w] = r
    /\ \A w \in PoolThreads : at[w] = "popping" =>
         pool # <<>> /\ stackOf[task[w]] = pool[Len(pool)]

\* From the coroutine that executes on a worker, the callers lead back to the
\* fiber that is its task and to the worker itself.  host names that worker for
\* each coroutine that has been resumed.
Chains(host) ==
    /\ \A w \in PoolThreads : at[w] = "inside" =>
         context[w] \in Resumed /\ current[w] = context[w] /\ host[context[w]] = w
    /\ \A w \in PoolThreads : at[w] # "inside" => context[w] = w /\ current[w] = NoCo
    /\ \A c \in Resumed :
         /\ caller[c] \in PoolThreads =>
              c \in Routines /\ parent[c] = NoCo /\ host[c] = caller[c] /\ task[caller[c]] = c
         /\ caller[c] \notin PoolThreads =>
              /\ c \in Generators /\ caller[c] = Parent[c] /\ caller[c] \in Resumed
              /\ parent[c] = caller[c] /\ host[c] = host[caller[c]]
         /\ \A w \in PoolThreads : caller[c] # context[w]
         /\ \A d \in Resumed : caller[c] = caller[d] => c = d

MtInv == /\ MtTypeOK /\ FibersPlaced /\ FibersDone /\ WhenLeft /\ LockHeld /\ StacksHeld
         /\ \E host \in [Coroutines -> PoolThreads] : Chains(host)

\* Nobody has been spawned.
LEMMA MtInit0 == MtInit => MtInv
<1> SUFFICES ASSUME MtInit PROVE MtInv
  OBVIOUS
<1> USE DEF MtInit
<1>1. MtTypeOK
  <2>1. aborted \in BOOLEAN
    OBVIOUS
  <2> QED
    BY <2>1, MtFibersAssumption DEF MtTypeOK
<1>2. FibersPlaced /\ FibersDone /\ WhenLeft /\ LockHeld /\ StacksHeld
  BY DEF FibersPlaced, FibersDone, WhenLeft, LockHeld, StacksHeld
<1>3. PICK v \in PoolThreads : TRUE
  BY MtFibersAssumption
<1>4. Resumed = {}
  BY DEF Resumed
<1>5. Chains([c \in Coroutines |-> v])
  BY <1>4 DEF Chains
<1> QED
  BY <1>1, <1>2, <1>5 DEF MtInv

\* There is memory for the stack of a fiber that has none.
LEMMA NewStack ==
  ASSUME MtTypeOK, NEW r \in Routines, stackOf[r] = NoStack, pool = <<>>
  PROVE  GetNewStack \in Stacks /\ \A q \in Routines : stackOf[q] # GetNewStack
<1>1. \E s \in Stacks : \A q \in Routines : stackOf[q] # s
  <2> SUFFICES ASSUME \A s \in Stacks : \E q \in Routines : stackOf[q] = s PROVE FALSE
    OBVIOUS
  <2> DEFINE T == Routines \ {r}
             f == [s \in Stacks |-> CHOOSE q \in Routines : stackOf[q] = s]
  <2>1. \A s \in Stacks : f[s] \in Routines /\ stackOf[f[s]] = s
    OBVIOUS
  <2>2. f \in [Stacks -> T]
    BY <2>1, MtFibersAssumption
  <2>3. IsFiniteSet(T) /\ Cardinality(T) = Cardinality(Routines) - 1
    BY FS_RemoveElement, MtFibersAssumption
  <2>4. Cardinality(Routines) \in Nat /\ Cardinality(Stacks) \in Nat
    BY FS_CardinalityType, MtFibersAssumption
  <2>5. Cardinality(T) < Cardinality(Stacks)
    BY <2>3, <2>4, MtFibersAssumption
  <2> HIDE DEF f, T
  <2>6. PICK x, y \in Stacks : x # y /\ f[x] = f[y]
    BY <2>2, <2>3, <2>5, FS_PigeonHole, MtFibersAssumption
  <2> QED
    BY <2>1, <2>6
<1>2. Range(pool) = {} /\ \A s : s \in Range(stackOf) => \E q \in Routines : stackOf[q] = s
  BY DEF Range, MtTypeOK
<1>3. \E s \in Stacks : s \notin Range(stackOf) \cup Range(pool)
  BY <1>1, <1>2
<1>4. GetNewStack \in Stacks /\ GetNewStack \notin Range(stackOf) \cup Range(pool)
  BY <1>3 DEF GetNewStack
<1>5. \A q \in Routines : stackOf[q] \in Range(stackOf)
  BY DEF Range, MtTypeOK
<1> QED
  BY <1>4, <1>5

\* The names of threads and coroutines are different.
LEMMA MtNames ==
  /\ \A w \in PoolThreads : w \notin Coroutines /\ w # NoCo
  /\ \A c \in Coroutines : c \notin PoolThreads /\ c # NoCo
  /\ Routines \subseteq Coroutines /\ Generators \subseteq Coroutines
  /\ \A r \in Routines : r \notin Generators
  BY MtFibersAssumption DEF Coroutines

\* A step that switches no context leaves the chains alone, as the worker that
\* takes it is outside of its fiber or stays inside.
LEMMA ChainsStand ==
  ASSUME MtInv, UNCHANGED coVars,
         \A w \in PoolThreads : at'[w] = "inside" <=> at[w] = "inside",
         \A w \in PoolThreads : at[w] = "inside" => task'[w] = task[w]
  PROVE  \E host \in [Coroutines -> PoolThreads] : Chains(host)'
<1>1. PICK host \in [Coroutines -> PoolThreads] : Chains(host)
  BY DEF MtInv
<1>2. Resumed' = Resumed /\ UNCHANGED <<context, current, parent, caller>>
  BY DEF Resumed, coVars
<1>3. \A c \in Resumed : caller[c] \in PoolThreads => task'[caller[c]] = task[caller[c]]
  <2> SUFFICES ASSUME NEW c \in Resumed, caller[c] \in PoolThreads
               PROVE  at[caller[c]] = "inside"
    OBVIOUS
  <2> QED
    BY <1>1 DEF Chains
<1>4. Chains(host)'
  BY <1>1, <1>2, <1>3 DEF Chains
<1> QED
  BY <1>4

\* Where the coroutine that executes on a worker comes from: a fiber is the
\* worker's task and was resumed by the worker itself.
LEMMA ExecutesOn ==
  ASSUME MtInv, NEW w \in PoolThreads, at[w] = "inside"
  PROVE  /\ current[w] = context[w] /\ context[w] \in Coroutines /\ caller[context[w]] # NoCo
         /\ context[w] \in Routines =>
              /\ context[w] = task[w] /\ caller[context[w]] = w
              /\ parent[context[w]] = NoCo
         /\ context[w] \notin Routines => caller[context[w]] \in Coroutines
<1>1. PICK host \in [Coroutines -> PoolThreads] : Chains(host)
  BY DEF MtInv
<1>2. context[w] \in Resumed /\ current[w] = context[w] /\ host[context[w]] = w
  BY <1>1 DEF Chains
<1>3. /\ caller[context[w]] \in PoolThreads =>
           /\ context[w] \in Routines /\ parent[context[w]] = NoCo
           /\ host[context[w]] = caller[context[w]] /\ task[caller[context[w]]] = context[w]
      /\ caller[context[w]] \notin PoolThreads =>
           context[w] \in Generators /\ caller[context[w]] \in Resumed
  BY <1>1, <1>2 DEF Chains
<1> QED
  BY <1>2, <1>3, MtNames DEF Resumed

\* The switch back to the caller.
LEMMA ReturnChains ==
  ASSUME MtInv, NEW w \in PoolThreads, at[w] = "inside", ReturnFrom(w, context[w]),
         UNCHANGED task
  PROVE  /\ \E host \in [Coroutines -> PoolThreads] : Chains(host)'
         /\ context' \in [PoolThreads -> PoolThreads \cup Coroutines]
         /\ current' \in [PoolThreads -> Coroutines \cup {NoCo}]
         /\ caller' \in [Coroutines -> PoolThreads \cup Coroutines \cup {NoCo}]
         /\ parent' = parent
<1> DEFINE c == context[w]
<1>1. PICK host \in [Coroutines -> PoolThreads] : Chains(host)
  BY DEF MtInv
<1>2. /\ c \in Resumed /\ c \in Coroutines /\ host[c] = w /\ caller[c] # NoCo
      /\ \A v \in PoolThreads : v # w => context[v] # c
  BY <1>1, MtNames DEF Chains, Resumed
<1>3. \/ caller[c] = w /\ parent[c] = NoCo
      \/ caller[c] \in Resumed /\ caller[c] \notin PoolThreads /\ parent[c] = caller[c]
         /\ host[caller[c]] = w
  BY <1>1, <1>2 DEF Chains
<1>4. /\ \A v \in PoolThreads : v # w =>
           context'[v] = context[v] /\ current'[v] = current[v] /\ at'[v] = at[v]
      /\ context'[w] = caller[c] /\ current'[w] = parent[c] /\ parent' = parent
      /\ at'[w] = IF caller[c] \in PoolThreads THEN "back" ELSE "inside"
      /\ \A d \in Coroutines : d # c => caller'[d] = caller[d]
      /\ caller'[c] = NoCo
  BY <1>2 DEF ReturnFrom, MtInv, MtTypeOK
<1>5. Resumed' = Resumed \ {c}
  BY <1>2, <1>4 DEF Resumed
<1>6. /\ context' \in [PoolThreads -> PoolThreads \cup Coroutines]
      /\ current' \in [PoolThreads -> Coroutines \cup {NoCo}]
      /\ caller' \in [Coroutines -> PoolThreads \cup Coroutines \cup {NoCo}]
  BY <1>2, <1>3 DEF ReturnFrom, MtInv, MtTypeOK, Resumed
<1> HIDE DEF c
<1>7. ASSUME NEW v \in PoolThreads, at'[v] = "inside"
      PROVE  context'[v] \in Resumed' /\ current'[v] = context'[v] /\ host[context'[v]] = v
  <2>1. CASE v = w
    <3>1. caller[c] # c
      BY <1>1, <1>2 DEF Chains, c
    <3> QED
      BY <2>1, <1>3, <1>4, <1>5, <1>7, <3>1
  <2>2. CASE v # w
    BY <2>2, <1>1, <1>2, <1>4, <1>5, <1>7 DEF Chains
  <2> QED
    BY <2>1, <2>2
<1>8. ASSUME NEW v \in PoolThreads, at'[v] # "inside"
      PROVE  context'[v] = v /\ current'[v] = NoCo
  BY <1>1, <1>3, <1>4, <1>8 DEF Chains
<1>9. ASSUME NEW d \in Resumed'
      PROVE  /\ d \in Resumed /\ caller'[d] = caller[d] /\ caller[d] # c
             /\ caller[d] # caller[c]
             /\ \A v \in PoolThreads : caller'[d] # context'[v]
  <2>1. d \in Resumed /\ d # c /\ caller'[d] = caller[d]
    BY <1>4, <1>5 DEF Resumed
  <2>2. caller[d] # c /\ caller[d] # caller[c]
    BY <1>1, <1>2, <2>1 DEF Chains, c
  <2>3. ASSUME NEW v \in PoolThreads PROVE caller'[d] # context'[v]
    BY <1>1, <1>4, <2>1, <2>2 DEF Chains
  <2> QED
    BY <2>1, <2>2, <2>3
<1>10. Chains(host)'
  <2>1. ASSUME NEW d \in Resumed', caller'[d] \in PoolThreads
        PROVE  /\ d \in Routines /\ parent'[d] = NoCo /\ host[d] = caller'[d]
               /\ task'[caller'[d]] = d
    BY <1>1, <1>4, <1>9, <2>1 DEF Chains
  <2>2. ASSUME NEW d \in Resumed', caller'[d] \notin PoolThreads
        PROVE  /\ d \in Generators /\ caller'[d] = Parent[d] /\ caller'[d] \in Resumed'
               /\ parent'[d] = caller'[d] /\ host[d] = host[caller'[d]]
    BY <1>1, <1>4, <1>5, <1>9, <2>2 DEF Chains
  <2>3. \A d, e \in Resumed' : caller'[d] = caller'[e] => d = e
    BY <1>1, <1>9 DEF Chains
  <2> QED
    BY <1>7, <1>8, <1>9, <2>1, <2>2, <2>3 DEF Chains
<1> QED
  BY <1>4, <1>6, <1>10

\* The switch into a coroutine that nobody has resumed: the task of the worker,
\* or a generator of the coroutine that executes there.
LEMMA EnterChains ==
  ASSUME MtInv, NEW w \in PoolThreads, NEW c \in Coroutines, Enter(w, c), UNCHANGED task,
         \/ at[w] = "resume" /\ c = task[w] /\ c \in Routines
         \/ at[w] = "inside" /\ c \in Generators /\ context[w] = Parent[c],
         at' = [at EXCEPT ![w] = "inside"]
  PROVE  /\ \E host \in [Coroutines -> PoolThreads] : Chains(host)'
         /\ context' \in [PoolThreads -> PoolThreads \cup Coroutines]
         /\ current' \in [PoolThreads -> Coroutines \cup {NoCo}]
         /\ caller' \in [Coroutines -> PoolThreads \cup Coroutines \cup {NoCo}]
         /\ parent' \in [Coroutines -> Coroutines \cup {NoCo}]
<1>1. PICK host \in [Coroutines -> PoolThreads] : Chains(host)
  BY DEF MtInv
<1>2. c \notin Resumed
  <2>1. ASSUME c \in Resumed, at[w] = "resume", c = task[w], c \in Routines PROVE FALSE
    <3>1. caller[c] \in PoolThreads /\ task[caller[c]] = c
      BY <1>1, <2>1, MtNames DEF Chains
    <3>2. caller[c] = w
      BY <2>1, <3>1, MtNames DEF MtInv, FibersPlaced
    <3> QED
      BY <1>1, <2>1, <3>2 DEF Chains
  <2>2. ASSUME c \in Resumed, at[w] = "inside", c \in Generators, context[w] = Parent[c] PROVE FALSE
    <3>1. caller[c] = Parent[c]
      BY <1>1, <2>2, MtNames DEF Chains
    <3> QED
      BY <1>1, <2>2, <3>1 DEF Chains
  <2> QED
    BY <2>1, <2>2
<1> DEFINE h == [host EXCEPT ![c] = w]
<1>3. /\ \A v \in PoolThreads : v # w =>
           context'[v] = context[v] /\ current'[v] = current[v] /\ at'[v] = at[v]
      /\ context'[w] = c /\ current'[w] = c /\ at'[w] = "inside"
      /\ \A d \in Coroutines : d # c => caller'[d] = caller[d] /\ parent'[d] = parent[d]
      /\ caller'[c] = context[w] /\ parent'[c] = current[w]
      /\ h \in [Coroutines -> PoolThreads]
      /\ \A d \in Coroutines : h[d] = IF d = c THEN w ELSE host[d]
  BY DEF Enter, MtInv, MtTypeOK
<1>4. /\ at[w] = "resume" => context[w] = w /\ current[w] = NoCo
      /\ at[w] = "inside" => context[w] \in Resumed /\ current[w] = context[w] /\ host[context[w]] = w
      /\ context[w] # NoCo
  BY <1>1, MtNames DEF Chains, Resumed
<1>5. Resumed' = Resumed \cup {c} /\ Resumed \subseteq Coroutines
  BY <1>3, <1>4 DEF Resumed
<1>6. /\ context' \in [PoolThreads -> PoolThreads \cup Coroutines]
      /\ current' \in [PoolThreads -> Coroutines \cup {NoCo}]
      /\ caller' \in [Coroutines -> PoolThreads \cup Coroutines \cup {NoCo}]
      /\ parent' \in [Coroutines -> Coroutines \cup {NoCo}]
  BY DEF Enter, MtInv, MtTypeOK
<1> HIDE DEF h
<1>7. ASSUME NEW v \in PoolThreads, v # w
      PROVE  /\ context[v] # c /\ context[v] # context[w]
             /\ at'[v] = "inside" => context'[v] \in Resumed' /\ current'[v] = context'[v]
                                     /\ h[context'[v]] = v
             /\ at'[v] # "inside" => context'[v] = v /\ current'[v] = NoCo
  <2>1. CASE at[v] = "inside"
    <3>1. context[v] \in Resumed /\ host[context[v]] = v /\ current[v] = context[v]
      BY <1>1, <2>1 DEF Chains
    <3>2. context[v] # context[w]
      BY <1>4, <1>7, <3>1, MtNames DEF Resumed
    <3> QED
      BY <1>2, <1>3, <1>5, <1>7, <2>1, <3>1, <3>2
  <2>2. CASE at[v] # "inside"
    <3>1. context[v] = v /\ current[v] = NoCo
      BY <1>1, <2>2 DEF Chains
    <3>2. context[v] # context[w] /\ context[v] # c
      BY <1>4, <1>7, <3>1, MtNames DEF Resumed
    <3> QED
      BY <1>3, <1>7, <2>2, <3>1, <3>2
  <2> QED
    BY <2>1, <2>2
<1>8. ASSUME NEW d \in Resumed
      PROVE  /\ d # c /\ caller'[d] = caller[d] /\ caller[d] # c /\ caller[d] # context[w]
             /\ \A v \in PoolThreads : caller'[d] # context'[v]
  <2>1. d # c /\ caller'[d] = caller[d]
    BY <1>2, <1>3, <1>5
  <2>2. caller[d] # c /\ caller[d] # context[w]
    BY <1>1, <1>2, MtNames DEF Chains
  <2>3. ASSUME NEW v \in PoolThreads PROVE caller'[d] # context'[v]
    BY <1>1, <1>3, <2>1, <2>2 DEF Chains
  <2> QED
    BY <2>1, <2>2, <2>3
<1>9. Chains(h)'
  <2>1. ASSUME NEW d \in Resumed', caller'[d] \in PoolThreads
        PROVE  /\ d \in Routines /\ parent'[d] = NoCo /\ h[d] = caller'[d]
               /\ task'[caller'[d]] = d
    <3>1. CASE d = c
      BY <3>1, <2>1, <1>3, <1>4, MtNames DEF Resumed
    <3>2. CASE d # c
      BY <3>2, <2>1, <1>1, <1>3, <1>5, <1>8 DEF Chains
    <3> QED
      BY <3>1, <3>2
  <2>2. ASSUME NEW d \in Resumed', caller'[d] \notin PoolThreads
        PROVE  /\ d \in Generators /\ caller'[d] = Parent[d] /\ caller'[d] \in Resumed'
               /\ parent'[d] = caller'[d] /\ h[d] = h[caller'[d]]
    <3>1. CASE d = c
      BY <3>1, <2>2, <1>2, <1>3, <1>4, <1>5
    <3>2. CASE d # c
      BY <3>2, <2>2, <1>1, <1>3, <1>5, <1>8 DEF Chains
    <3> QED
      BY <3>1, <3>2
  <2>3. \A d, e \in Resumed' : caller'[d] = caller'[e] => d = e
    BY <1>1, <1>3, <1>5, <1>8 DEF Chains
  <2>4. \A d \in Resumed' : \A v \in PoolThreads : caller'[d] # context'[v]
    <3>1. \A v \in PoolThreads : context[w] # context'[v]
      BY <1>2, <1>3, <1>4, <1>7, MtNames
    <3> QED
      BY <1>3, <1>5, <1>8, <3>1
  <2>5. \A v \in PoolThreads : at'[v] = "inside" =>
          context'[v] \in Resumed' /\ current'[v] = context'[v] /\ h[context'[v]] = v
    BY <1>3, <1>5, <1>7
  <2>6. \A v \in PoolThreads : at'[v] # "inside" => context'[v] = v /\ current'[v] = NoCo
    BY <1>3, <1>7
  <2> QED
    BY <2>1, <2>2, <2>3, <2>4, <2>5, <2>6 DEF Chains
<1> QED
  BY <1>3, <1>6, <1>9

\* A worker's task is a routine that exists.
LEMMA TaskIsFiber ==
  ASSUME MtInv, NEW w \in PoolThreads, at[w] \notin {"idle", "left"}
  PROVE  /\ task[w] \in Routines /\ task[w] \in spawned \ gone /\ task[w] # NoCo
         /\ \A v \in PoolThreads : v # w => task[v] # task[w]
         /\ \A v \in PoolThreads : at[v] # "left"
  BY MtNames DEF MtInv, MtTypeOK, FibersPlaced, WhenLeft

\* A worker takes the next turn.
LEMMA TurnBeginsInv ==
  ASSUME MtInv, NEW w \in PoolThreads, TurnBegins(w) PROVE MtInv'
<1> USE DEF TurnBegins, Goes
<1> DEFINE r == Head(posted)
<1>1. /\ UNCHANGED <<coVars, spawned, gone, stackOf, pool, locked, main, aborted, completed>>
      /\ posted # <<>> /\ at[w] = "idle"
  BY DEF coVars, stackVars
<1>2. /\ r \in Routines /\ r = posted[1] /\ Len(posted) \in Nat \ {0}
      /\ Len(posted') = Len(posted) - 1 /\ posted' \in Seq(Routines)
      /\ \A i \in 1..Len(posted') : i + 1 \in 1..Len(posted) /\ posted'[i] = posted[i + 1]
  BY <1>1 DEF MtInv, MtTypeOK
<1>3. /\ r \in spawned \ gone /\ r \notin completed /\ r # NoCo
      /\ \A i \in 1..Len(posted') : posted'[i] # r
      /\ \A v \in PoolThreads : task[v] # r
      /\ \A v \in PoolThreads : at[v] # "left"
  BY <1>1, <1>2, MtNames DEF MtInv, FibersPlaced, FibersDone, WhenLeft
<1>4. /\ task'[w] = r /\ at'[w] = IF stackOf[r] = NoStack THEN "exchange" ELSE "resume"
      /\ \A v \in PoolThreads : v # w => task'[v] = task[v] /\ at'[v] = at[v]
  BY DEF MtInv, MtTypeOK
<1>5. MtTypeOK'
  <2>1. aborted' \in BOOLEAN
    BY <1>1 DEF MtInv, MtTypeOK
  <2>2. task' \in [PoolThreads -> Routines \cup {NoCo}]
    BY <1>2 DEF MtInv, MtTypeOK
  <2> QED
    BY <1>1, <1>2, <2>1, <2>2 DEF MtInv, MtTypeOK, coVars
<1> HIDE DEF r
<1>6. FibersPlaced'
  <2>1. \A i, j \in 1..Len(posted') : posted'[i] = posted'[j] => i = j
    BY <1>2 DEF MtInv, FibersPlaced
  <2>2. \A i \in 1..Len(posted') : posted'[i] \in spawned \ gone
    BY <1>2 DEF MtInv, FibersPlaced
  <2>3. \A v \in PoolThreads : task'[v] = NoCo <=> at'[v] \in {"idle", "left"}
    BY <1>3, <1>4 DEF MtInv, FibersPlaced
  <2>4. ASSUME NEW v \in PoolThreads, task'[v] # NoCo
        PROVE  task'[v] \in spawned \ gone /\ \A i \in 1..Len(posted') : posted'[i] # task'[v]
    <3>1. CASE v = w
      BY <3>1, <1>3, <1>4
    <3>2. CASE v # w
      BY <3>2, <2>4, <1>2, <1>4 DEF MtInv, FibersPlaced
    <3> QED
      BY <3>1, <3>2
  <2>5. \A u, v \in PoolThreads : task'[u] = task'[v] /\ task'[u] # NoCo => u = v
    BY <1>3, <1>4 DEF MtInv, FibersPlaced
  <2>6. ASSUME NEW q \in spawned \ gone
        PROVE  (\E i \in 1..Len(posted') : posted'[i] = q) \/ \E v \in PoolThreads : task'[v] = q
    <3>1. CASE q = r
      BY <3>1, <1>4
    <3>2. CASE \E v \in PoolThreads : task[v] = q
      <4>1. PICK v \in PoolThreads : task[v] = q
        BY <3>2
      <4>2. v # w
        <5>1. q # NoCo
          BY MtNames DEF MtInv, MtTypeOK
        <5> QED
          BY <5>1, <4>1, <1>1 DEF MtInv, FibersPlaced
      <4> QED
        BY <4>1, <4>2, <1>4
    <3>3. CASE q # r /\ \E i \in 1..Len(posted) : posted[i] = q
      <4>1. PICK i \in 1..Len(posted) : posted[i] = q
        BY <3>3
      <4>2. i - 1 \in 1..Len(posted') /\ (i - 1) + 1 = i
        BY <1>2, <3>3, <4>1
      <4> QED
        BY <1>2, <4>1, <4>2
    <3> QED
      BY <3>1, <3>2, <3>3 DEF MtInv, FibersPlaced
  <2> QED
    BY <1>1, <2>1, <2>2, <2>3, <2>4, <2>5, <2>6 DEF MtInv, FibersPlaced
<1>7. FibersDone'
  <2>1. \A i \in 1..Len(posted') : posted'[i] \notin completed
    BY <1>2 DEF MtInv, FibersDone
  <2> QED
    BY <1>1, <1>3, <1>4, <2>1 DEF MtInv, FibersDone
<1>8. WhenLeft'
  BY <1>1, <1>3, <1>4 DEF MtInv, WhenLeft
<1>9. LockHeld'
  BY <1>1, <1>4 DEF MtInv, LockHeld
<1>10. StacksHeld'
  <2>1. \A v \in PoolThreads : /\ at'[v] = "popping" <=> at[v] = "popping"
                               /\ at[v] = "popping" => task'[v] = task[v]
    BY <1>1, <1>4
  <2> QED
    BY <1>1, <2>1 DEF MtInv, StacksHeld
<1>11. \E host \in [Coroutines -> PoolThreads] : Chains(host)'
  <2>1. \A v \in PoolThreads : /\ at'[v] = "inside" <=> at[v] = "inside"
                               /\ at[v] = "inside" => task'[v] = task[v]
    BY <1>1, <1>4
  <2> QED
    BY <1>1, <2>1, ChainsStand
<1> QED
  BY <1>5, <1>6, <1>7, <1>8, <1>9, <1>10, <1>11 DEF MtInv

\* A worker goes on with its task: every fiber stays in its place.
LEMMA TaskGoesOn ==
  ASSUME MtInv, NEW w \in PoolThreads, at[w] \notin {"idle", "left"},
         at'[w] \notin {"idle", "left"}, \A v \in PoolThreads : v # w => at'[v] = at[v],
         UNCHANGED <<posted, task, spawned, gone, main>>
  PROVE  FibersPlaced' /\ WhenLeft'
<1>1. FibersPlaced'
  BY DEF MtInv, FibersPlaced
<1>2. \A v \in PoolThreads : at[v] # "left" /\ at'[v] # "left"
  BY TaskIsFiber
<1>3. WhenLeft'
  <2>1. main # "joined"
    BY <1>2 DEF MtInv, WhenLeft
  <2> QED
    BY <1>2, <2>1 DEF WhenLeft
<1> QED
  BY <1>1, <1>3

\* The switch into a fiber or into a generator.
LEMMA EntersInv ==
  ASSUME MtInv, NEW w \in PoolThreads, ResumesFiber(w) \/ \E g \in Generators : ResumesGenerator(w, g)
  PROVE  MtInv'
<1>1. PICK c \in Coroutines :
        /\ Enter(w, c)
        /\ \/ at[w] = "resume" /\ c = task[w] /\ c \in Routines
           \/ at[w] = "inside" /\ c \in Generators /\ context[w] = Parent[c]
  BY TaskIsFiber, MtNames DEF ResumesFiber, ResumesGenerator, Goes
<1>2. /\ UNCHANGED <<posted, task, suspends, completed, spawned, gone, stackOf, pool, locked, main, aborted>>
      /\ at' = [at EXCEPT ![w] = "inside"]
  BY DEF ResumesFiber, ResumesGenerator, Goes, stackVars, MtInv, MtTypeOK
<1>3. at'[w] = "inside" /\ \A v \in PoolThreads : v # w => at'[v] = at[v]
  BY <1>2 DEF MtInv, MtTypeOK
<1>4. /\ \E host \in [Coroutines -> PoolThreads] : Chains(host)'
      /\ context' \in [PoolThreads -> PoolThreads \cup Coroutines]
      /\ current' \in [PoolThreads -> Coroutines \cup {NoCo}]
      /\ caller' \in [Coroutines -> PoolThreads \cup Coroutines \cup {NoCo}]
      /\ parent' \in [Coroutines -> Coroutines \cup {NoCo}]
  BY <1>1, <1>2, EnterChains
<1>5. MtTypeOK'
  <2>1. aborted' \in BOOLEAN
    BY <1>2 DEF MtInv, MtTypeOK
  <2> QED
    BY <1>2, <1>4, <2>1 DEF MtInv, MtTypeOK
<1>6. FibersPlaced' /\ WhenLeft'
  BY <1>1, <1>2, <1>3, TaskGoesOn
<1>7. FibersDone'
  BY <1>1, <1>2, <1>3 DEF MtInv, FibersDone
<1>8. LockHeld' /\ StacksHeld'
  <2>1. \A v \in PoolThreads : /\ at'[v] = "popping" <=> at[v] = "popping"
                               /\ at'[v] = "critical" <=> at[v] = "critical"
    BY <1>1, <1>3
  <2> QED
    BY <1>2, <2>1 DEF MtInv, LockHeld, StacksHeld
<1> QED
  BY <1>4, <1>5, <1>6, <1>7, <1>8 DEF MtInv

\* The switch back, out of a coroutine that suspends or completes: a routine
\* that completes is the task of the worker, and the worker looks at it next.
LEMMA ReturnsInv ==
  ASSUME MtInv, NEW w \in PoolThreads, Suspends(w) \/ Completes(w) PROVE MtInv'
<1>1. /\ at[w] = "inside" /\ current[w] = context[w] /\ context[w] \in Coroutines
      /\ caller[context[w]] # NoCo
      /\ context[w] \in Routines => context[w] = task[w] /\ caller[context[w]] = w
      /\ context[w] \notin Routines => caller[context[w]] \in Coroutines
  BY ExecutesOn DEF Suspends, Completes
<1>2. /\ ReturnFrom(w, context[w])
      /\ UNCHANGED <<posted, task, spawned, gone, stackOf, pool, locked, main, aborted>>
      /\ \/ completed' = completed
         \/ completed' = completed \cup {context[w]}
  BY <1>1 DEF Suspends, Completes, stackVars
<1>3. /\ at' = [at EXCEPT ![w] = IF caller[context[w]] \in PoolThreads THEN "back" ELSE "inside"]
      /\ at'[w] = IF context[w] \in Routines THEN "back" ELSE "inside"
      /\ \A v \in PoolThreads : v # w => at'[v] = at[v]
  BY <1>1, <1>2, MtNames DEF ReturnFrom, MtInv, MtTypeOK
<1>4. /\ \E host \in [Coroutines -> PoolThreads] : Chains(host)'
      /\ context' \in [PoolThreads -> PoolThreads \cup Coroutines]
      /\ current' \in [PoolThreads -> Coroutines \cup {NoCo}]
      /\ caller' \in [Coroutines -> PoolThreads \cup Coroutines \cup {NoCo}]
      /\ parent' = parent
  BY <1>1, <1>2, ReturnChains
<1>5. suspends' \in [Coroutines -> 0..MaxSuspends]
  <2>1. ASSUME Suspends(w) PROVE suspends' \in [Coroutines -> 0..MaxSuspends]
    <3>1. suspends[current[w]] \in 0..MaxSuspends /\ suspends[current[w]] < MaxSuspends
      BY <1>1, <2>1 DEF Suspends, MtInv, MtTypeOK
    <3>2. suspends[current[w]] + 1 \in 0..MaxSuspends
      BY <3>1, MtFibersAssumption
    <3> QED
      BY <1>1, <2>1, <3>2 DEF Suspends, MtInv, MtTypeOK
  <2>2. ASSUME Completes(w) PROVE suspends' \in [Coroutines -> 0..MaxSuspends]
    BY <2>2 DEF Completes, MtInv, MtTypeOK
  <2> QED
    BY <2>1, <2>2
<1>6. MtTypeOK'
  <2>1. aborted' \in BOOLEAN
    BY <1>2 DEF MtInv, MtTypeOK
  <2>2. completed' \subseteq Coroutines
    BY <1>1, <1>2 DEF MtInv, MtTypeOK
  <2> QED
    BY <1>2, <1>3, <1>4, <1>5, <2>1, <2>2 DEF MtInv, MtTypeOK
<1>7. FibersPlaced' /\ WhenLeft'
  <2>1. at[w] \notin {"idle", "left"} /\ at'[w] \notin {"idle", "left"}
    BY <1>1, <1>3
  <2> QED
    BY <1>2, <1>3, <2>1, TaskGoesOn
<1>8. FibersDone'
  <2>1. /\ task[w] \in spawned \ gone /\ task[w] \in Routines /\ task[w] # NoCo
        /\ \A v \in PoolThreads : v # w => task[v] # task[w]
        /\ \A i \in 1..Len(posted) : posted[i] # task[w]
    BY <1>1, TaskIsFiber DEF MtInv, FibersPlaced
  <2>2. \A r \in Routines : r # task[w] => (r \in completed' <=> r \in completed)
    BY <1>1, <1>2
  <2>3. completed \subseteq completed' /\ (at'[w] = "inside" => task[w] \notin completed')
    BY <1>1, <1>2, <1>3, <2>1 DEF MtInv, FibersDone
  <2>4. \A i \in 1..Len(posted) : posted[i] \notin completed'
    BY <2>1, <2>2 DEF MtInv, MtTypeOK, FibersDone
  <2>5. ASSUME NEW v \in PoolThreads
        PROVE  /\ at'[v] \in {"popping", "resume", "inside"} => task[v] \notin completed'
               /\ at'[v] \in {"popping", "resume", "inside", "back"} => stackOf[task[v]] # NoStack
               /\ at'[v] \in {"exchange", "spin", "critical"} =>
                    (stackOf[task[v]] = NoStack <=> task[v] \notin completed')
    <3>1. CASE v = w
      BY <3>1, <1>1, <1>3, <2>3 DEF MtInv, FibersDone
    <3>2. CASE v # w /\ at[v] \notin {"idle", "left"}
      <4>1. task[v] \in Routines /\ task[v] # task[w]
        BY <3>2, <2>1, TaskIsFiber
      <4>2. task[v] \in completed' <=> task[v] \in completed
        BY <2>2, <4>1
      <4> QED
        BY <3>2, <1>3, <4>2 DEF MtInv, FibersDone
    <3>3. CASE v # w /\ at[v] \in {"idle", "left"}
      BY <3>3, <1>3
    <3> QED
      BY <3>1, <3>2, <3>3
  <2> QED
    BY <1>2, <2>1, <2>2, <2>3, <2>4, <2>5 DEF MtInv, FibersDone
<1>9. LockHeld' /\ StacksHeld'
  <2>1. \A v \in PoolThreads : /\ at'[v] = "popping" <=> at[v] = "popping"
                               /\ at'[v] = "critical" <=> at[v] = "critical"
    BY <1>1, <1>3
  <2> QED
    BY <1>2, <2>1 DEF MtInv, LockHeld, StacksHeld
<1> QED
  BY <1>4, <1>6, <1>7, <1>8, <1>9 DEF MtInv

\* A new fiber: nobody has left while somebody can spawn.
LEMMA SpawnsInv ==
  ASSUME MtInv, NEW r \in Routines,
         SpawnsOutside(r) \/ \E w \in PoolThreads : SpawnsInside(w, r)
  PROVE  MtInv'
<1>1. /\ r \in Routines \ spawned /\ spawned' = spawned \cup {r} /\ posted' = Append(posted, r)
      /\ UNCHANGED <<at, task, coVars, completed, gone, stackOf, pool, locked, main, aborted>>
  BY DEF SpawnsOutside, SpawnsInside, Spawns, coVars, stackVars
<1>2. \A v \in PoolThreads : at[v] # "left"
  BY TaskIsFiber DEF SpawnsOutside, SpawnsInside, MtInv, WhenLeft
<1>3. /\ Len(posted) \in Nat /\ Len(posted') = Len(posted) + 1
      /\ \A i \in 1..Len(posted) : posted'[i] = posted[i] /\ posted[i] # r
      /\ posted'[Len(posted) + 1] = r
      /\ \A v \in PoolThreads : task[v] # r
  BY <1>1, MtNames DEF MtInv, MtTypeOK, FibersPlaced
<1>4. MtTypeOK'
  <2>1. aborted' \in BOOLEAN
    BY <1>1 DEF MtInv, MtTypeOK
  <2> QED
    BY <1>1, <2>1 DEF MtInv, MtTypeOK, coVars
<1>5. FibersPlaced'
  <2>1. \A i \in 1..Len(posted') : i = Len(posted) + 1 \/ i \in 1..Len(posted)
    BY <1>3
  <2>2. \A i, j \in 1..Len(posted') : posted'[i] = posted'[j] => i = j
    BY <1>3, <2>1 DEF MtInv, FibersPlaced
  <2>3. /\ gone \subseteq spawned'
        /\ \A i \in 1..Len(posted') : posted'[i] \in spawned' \ gone
    BY <1>1, <1>3, <2>1 DEF MtInv, FibersPlaced
  <2>4. ASSUME NEW v \in PoolThreads, task[v] # NoCo
        PROVE  task[v] \in spawned' \ gone /\ \A i \in 1..Len(posted') : posted'[i] # task[v]
    BY <1>1, <1>3, <2>1, <2>4 DEF MtInv, FibersPlaced
  <2>5. ASSUME NEW q \in spawned' \ gone
        PROVE  (\E i \in 1..Len(posted') : posted'[i] = q) \/ \E v \in PoolThreads : task[v] = q
    <3>1. CASE q = r
      <4>1. Len(posted) + 1 \in 1..Len(posted')
        BY <1>3
      <4> QED
        BY <3>1, <1>3, <4>1
    <3>2. CASE q # r
      <4>1. (\E i \in 1..Len(posted) : posted[i] = q) \/ \E v \in PoolThreads : task[v] = q
        BY <3>2, <1>1 DEF MtInv, FibersPlaced
      <4> QED
        BY <1>3, <4>1
    <3> QED
      BY <3>1, <3>2
  <2> QED
    BY <1>1, <2>2, <2>3, <2>4, <2>5 DEF MtInv, FibersPlaced
<1>6. FibersDone'
  <2>1. \A i \in 1..Len(posted') : i = Len(posted) + 1 \/ i \in 1..Len(posted)
    BY <1>3
  <2>2. \A i \in 1..Len(posted') : posted'[i] \notin completed
    BY <1>1, <1>3, <2>1 DEF MtInv, FibersDone
  <2> QED
    BY <1>1, <2>2 DEF MtInv, FibersDone
<1>7. WhenLeft'
  BY <1>1, <1>2 DEF MtInv, WhenLeft
<1>8. LockHeld' /\ StacksHeld'
  BY <1>1 DEF MtInv, LockHeld, StacksHeld
<1>9. \E host \in [Coroutines -> PoolThreads] : Chains(host)'
  BY <1>1, ChainsStand
<1> QED
  BY <1>4, <1>5, <1>6, <1>7, <1>8, <1>9 DEF MtInv

\* The end of a turn: the fiber is to be deleted, or has its next turn to come.
LEMMA TurnEndsInv ==
  ASSUME MtInv, NEW w \in PoolThreads, TurnEnds(w) PROVE MtInv'
<1> DEFINE f == task[w]
<1>1. /\ UNCHANGED <<coVars, completed, spawned, gone, stackOf, pool, locked, main, aborted>>
      /\ at[w] = "back"
      /\ \/ at' = [at EXCEPT ![w] = "exchange"] /\ f \in completed /\ UNCHANGED <<posted, task>>
         \/ /\ at' = [at EXCEPT ![w] = "idle"] /\ f \notin completed
            /\ posted' = Append(posted, f) /\ task' = [task EXCEPT ![w] = NoCo]
  BY DEF TurnEnds, Goes, coVars, stackVars
<1>2. /\ f \in Routines /\ f \in spawned \ gone /\ f # NoCo
      /\ \A v \in PoolThreads : v # w => task[v] # f
      /\ \A v \in PoolThreads : at[v] # "left"
      /\ \A i \in 1..Len(posted) : posted[i] # f
      /\ stackOf[f] # NoStack
  BY <1>1, TaskIsFiber DEF MtInv, FibersPlaced, FibersDone
<1>3. \A v \in PoolThreads : v # w => at'[v] = at[v]
  BY <1>1 DEF MtInv, MtTypeOK
<1>4. at'[w] \in {"exchange", "idle"}
  BY <1>1 DEF MtInv, MtTypeOK
<1>5. \E host \in [Coroutines -> PoolThreads] : Chains(host)'
  <2>1. \A v \in PoolThreads : /\ at'[v] = "inside" <=> at[v] = "inside"
                               /\ at[v] = "inside" => task'[v] = task[v]
    BY <1>1, <1>3, <1>4 DEF MtInv, MtTypeOK
  <2> QED
    BY <1>1, <2>1, ChainsStand
<1>6. LockHeld' /\ StacksHeld'
  <2>1. \A v \in PoolThreads : /\ at'[v] = "popping" <=> at[v] = "popping"
                               /\ at'[v] = "critical" <=> at[v] = "critical"
                               /\ at[v] = "popping" => task'[v] = task[v]
    BY <1>1, <1>3, <1>4 DEF MtInv, MtTypeOK
  <2> QED
    BY <1>1, <2>1 DEF MtInv, LockHeld, StacksHeld
<1>7. MtTypeOK'
  <2>1. aborted' \in BOOLEAN
    BY <1>1 DEF MtInv, MtTypeOK
  <2>2. task' \in [PoolThreads -> Routines \cup {NoCo}]
    BY <1>1 DEF MtInv, MtTypeOK
  <2>3. posted' \in Seq(Routines)
    <3>1. posted \in Seq(Routines)
      BY DEF MtInv, MtTypeOK
    <3> HIDE DEF f
    <3> QED
      BY <1>1, <1>2, <3>1
  <2> QED
    BY <1>1, <2>1, <2>2, <2>3 DEF MtInv, MtTypeOK, coVars
<1>8. WhenLeft'
  BY <1>1, <1>2, <1>3, <1>4 DEF MtInv, WhenLeft
<1>9. FibersPlaced' /\ FibersDone'
  <2>1. ASSUME at' = [at EXCEPT ![w] = "exchange"], f \in completed, UNCHANGED <<posted, task>>
        PROVE  FibersPlaced' /\ FibersDone'
    <3>1. at'[w] = "exchange"
      BY <2>1 DEF MtInv, MtTypeOK
    <3>2. FibersPlaced'
      BY <1>1, <1>3, <2>1, <3>1, TaskGoesOn
    <3>3. FibersDone'
      BY <1>1, <1>2, <1>3, <2>1, <3>1 DEF MtInv, FibersDone
    <3> QED
      BY <3>2, <3>3
  <2>2. ASSUME at' = [at EXCEPT ![w] = "idle"], f \notin completed,
               posted' = Append(posted, f), task' = [task EXCEPT ![w] = NoCo]
        PROVE  FibersPlaced' /\ FibersDone'
    <3>1. /\ at'[w] = "idle" /\ task'[w] = NoCo
          /\ \A v \in PoolThreads : v # w => task'[v] = task[v]
          /\ Len(posted) \in Nat /\ Len(posted') = Len(posted) + 1
          /\ \A i \in 1..Len(posted) : posted'[i] = posted[i]
          /\ posted'[Len(posted) + 1] = f
      BY <1>2, <2>2 DEF MtInv, MtTypeOK
    <3> HIDE DEF f
    <3>2. \A i \in 1..Len(posted') : i = Len(posted) + 1 \/ i \in 1..Len(posted)
      BY <3>1
    <3>3. /\ \A i, j \in 1..Len(posted') : posted'[i] = posted'[j] => i = j
          /\ \A i \in 1..Len(posted') : posted'[i] \in spawned \ gone
      BY <1>2, <3>1, <3>2 DEF MtInv, FibersPlaced
    <3>4. ASSUME NEW v \in PoolThreads, task'[v] # NoCo
          PROVE  task'[v] \in spawned \ gone /\ \A i \in 1..Len(posted') : posted'[i] # task'[v]
      BY <1>2, <3>1, <3>2, <3>4 DEF MtInv, FibersPlaced
    <3>5. ASSUME NEW q \in spawned \ gone
          PROVE  (\E i \in 1..Len(posted') : posted'[i] = q) \/ \E v \in PoolThreads : task'[v] = q
      <4>1. CASE q = f
        <5>1. Len(posted) + 1 \in 1..Len(posted')
          BY <3>1
        <5> QED
          BY <4>1, <3>1, <5>1
      <4>2. CASE q # f /\ \E i \in 1..Len(posted) : posted[i] = q
        BY <4>2, <3>1
      <4>3. CASE q # f /\ \E v \in PoolThreads : task[v] = q
        BY <4>3, <3>1 DEF f
      <4> QED
        BY <4>1, <4>2, <4>3 DEF MtInv, FibersPlaced
    <3>6. /\ \A v \in PoolThreads : task'[v] = NoCo <=> at'[v] \in {"idle", "left"}
          /\ \A u, v \in PoolThreads : task'[u] = task'[v] /\ task'[u] # NoCo => u = v
      BY <1>3, <3>1 DEF MtInv, FibersPlaced
    <3>7. FibersPlaced'
      BY <1>1, <3>3, <3>4, <3>5, <3>6 DEF MtInv, FibersPlaced
    <3>8. \A i \in 1..Len(posted') : posted'[i] \notin completed
      BY <2>2, <3>1, <3>2 DEF MtInv, FibersDone
    <3>9. FibersDone'
      BY <1>1, <1>3, <3>1, <3>8 DEF MtInv, FibersDone
    <3> QED
      BY <3>7, <3>9
  <2> QED
    BY <1>1, <2>1, <2>2
<1> QED
  BY <1>5, <1>6, <1>7, <1>8, <1>9 DEF MtInv

\* lock(): one worker gets in, for another would have found 1.
LEMMA LockInv ==
  ASSUME MtInv, NEW w \in PoolThreads, LockExchange(w) \/ LockSpin(w) PROVE MtInv'
<1>1. /\ UNCHANGED <<posted, task, coVars, completed, spawned, gone, stackOf, pool, main, aborted>>
      /\ \/ at[w] = "exchange" /\ locked = 0 /\ at' = [at EXCEPT ![w] = "critical"] /\ locked' = 1
         \/ at[w] = "exchange" /\ locked # 0 /\ at' = [at EXCEPT ![w] = "spin"] /\ locked' = 1
         \/ at[w] = "spin" /\ at' = [at EXCEPT ![w] = "exchange"] /\ locked' = locked
  BY DEF LockExchange, LockSpin, Goes, StacksOnly, coVars, stackVars
<1>2. /\ \A v \in PoolThreads : v # w => at'[v] = at[v]
      /\ \/ at[w] = "exchange" /\ locked = 0 /\ at'[w] = "critical" /\ locked' = 1
         \/ at[w] = "exchange" /\ locked # 0 /\ at'[w] = "spin" /\ locked' = 1
         \/ at[w] = "spin" /\ at'[w] = "exchange" /\ locked' = locked
  BY <1>1 DEF MtInv, MtTypeOK
<1>3. MtTypeOK'
  <2>1. aborted' \in BOOLEAN
    BY <1>1 DEF MtInv, MtTypeOK
  <2> QED
    BY <1>1, <2>1 DEF MtInv, MtTypeOK, coVars
<1>4. FibersPlaced' /\ WhenLeft'
  BY <1>1, <1>2, TaskGoesOn
<1>5. FibersDone'
  BY <1>1, <1>2 DEF MtInv, FibersDone
<1>6. LockHeld'
  BY <1>1, <1>2 DEF MtInv, LockHeld, MtTypeOK
<1>7. StacksHeld'
  <2>1. \A v \in PoolThreads : at'[v] = "popping" <=> at[v] = "popping"
    BY <1>2
  <2> QED
    BY <1>1, <2>1 DEF MtInv, StacksHeld
<1>8. \E host \in [Coroutines -> PoolThreads] : Chains(host)'
  <2>1. \A v \in PoolThreads : at'[v] = "inside" <=> at[v] = "inside"
    BY <1>2
  <2> QED
    BY <1>1, <2>1, ChainsStand
<1> QED
  BY <1>3, <1>4, <1>5, <1>6, <1>7, <1>8 DEF MtInv

\* A worker in the allocator is there alone.
LEMMA AloneInside ==
  ASSUME MtInv, NEW w \in PoolThreads, at[w] \in {"critical", "popping"}
  PROVE  \A v \in PoolThreads : v # w => at[v] \notin {"critical", "popping"}
  BY DEF MtInv, LockHeld

\* Allocate: new memory, or the stack on top of the pool, which stays there for
\* a moment.
LEMMA AllocateInv ==
  ASSUME MtInv, NEW w \in PoolThreads, AllocateNew(w) \/ AllocateBack(w) PROVE MtInv'
<1> DEFINE f == task[w]
<1>1. /\ UNCHANGED <<posted, task, coVars, completed, spawned, gone, pool, main, aborted>>
      /\ at[w] = "critical" /\ stackOf[f] = NoStack
  BY DEF AllocateNew, AllocateBack, Goes, StacksOnly, coVars
<1>2. /\ f \in Routines /\ f \in spawned \ gone
      /\ \A v \in PoolThreads : v # w => task[v] # f
      /\ f \notin completed
      /\ \A v \in PoolThreads : v # w => at[v] \notin {"critical", "popping"}
  BY <1>1, TaskIsFiber, AloneInside DEF MtInv, FibersDone
<1>3. PICK s \in Stacks :
        /\ stackOf' = [stackOf EXCEPT ![f] = s]
        /\ \A q \in Routines : stackOf[q] # s
        /\ \/ pool = <<>> /\ at' = [at EXCEPT ![w] = "resume"] /\ locked' = 0
           \/ /\ pool # <<>> /\ s = pool[Len(pool)]
              /\ at' = [at EXCEPT ![w] = "popping"] /\ locked' = locked
  <2>1. ASSUME AllocateNew(w)
        PROVE  /\ GetNewStack \in Stacks /\ \A q \in Routines : stackOf[q] # GetNewStack
               /\ stackOf' = [stackOf EXCEPT ![f] = GetNewStack]
               /\ pool = <<>> /\ at' = [at EXCEPT ![w] = "resume"] /\ locked' = 0
    BY <1>1, <1>2, <2>1, NewStack DEF AllocateNew, Goes, MtInv
  <2>2. ASSUME AllocateBack(w)
        PROVE  /\ pool[Len(pool)] \in Stacks /\ \A q \in Routines : stackOf[q] # pool[Len(pool)]
               /\ stackOf' = [stackOf EXCEPT ![f] = pool[Len(pool)]]
               /\ pool # <<>> /\ at' = [at EXCEPT ![w] = "popping"] /\ locked' = locked
    <3>1. /\ stackOf' = [stackOf EXCEPT ![f] = pool[Len(pool)]]
          /\ pool # <<>> /\ at' = [at EXCEPT ![w] = "popping"] /\ locked' = locked
      BY <2>2 DEF AllocateBack, Goes, Last
    <3>2. Len(pool) \in 1..Len(pool) /\ pool[Len(pool)] \in Stacks
      BY <3>1 DEF MtInv, MtTypeOK
    <3>3. \A v \in PoolThreads : at[v] # "popping"
      BY <1>1, <1>2
    <3>4. \A q \in Routines : stackOf[q] # pool[Len(pool)]
      BY <3>2, <3>3 DEF MtInv, StacksHeld
    <3> QED
      BY <3>1, <3>2, <3>4
  <2> QED
    BY <2>1, <2>2
<1>4. /\ at'[w] \in {"resume", "popping"}
      /\ at'[w] = "resume" => pool = <<>>
      /\ at'[w] = "popping" => pool # <<>> /\ s = pool[Len(pool)] /\ locked' = locked
      /\ \A v \in PoolThreads : v # w => at'[v] = at[v]
      /\ stackOf'[f] = s /\ s # NoStack
      /\ \A q \in Routines : q # f => stackOf'[q] = stackOf[q]
  BY <1>2, <1>3, MtFibersAssumption DEF MtInv, MtTypeOK
<1>5. MtTypeOK'
  <2>1. aborted' \in BOOLEAN
    BY <1>1 DEF MtInv, MtTypeOK
  <2>2. stackOf' \in [Routines -> Stacks \cup {NoStack}]
    BY <1>3 DEF MtInv, MtTypeOK
  <2> QED
    BY <1>1, <1>3, <2>1, <2>2 DEF MtInv, MtTypeOK, coVars
<1>6. FibersPlaced' /\ WhenLeft'
  BY <1>1, <1>4, TaskGoesOn
<1> HIDE DEF f
<1>7. FibersDone'
  <2>1. \A r \in gone \cup (Routines \ spawned) : stackOf'[r] = NoStack
    BY <1>2, <1>4 DEF MtInv, MtTypeOK, FibersDone
  <2>2. ASSUME NEW v \in PoolThreads
        PROVE  /\ at'[v] \in {"popping", "resume", "inside"} => task[v] \notin completed
               /\ at'[v] \in {"popping", "resume", "inside", "back"} => stackOf'[task[v]] # NoStack
               /\ at'[v] \in {"exchange", "spin", "critical"} =>
                    (stackOf'[task[v]] = NoStack <=> task[v] \notin completed)
    <3>1. CASE v = w
      BY <3>1, <1>2, <1>4 DEF f
    <3>2. CASE v # w /\ at[v] \notin {"idle", "left"}
      <4>1. stackOf'[task[v]] = stackOf[task[v]]
        BY <3>2, <1>2, <1>4, TaskIsFiber
      <4> QED
        BY <3>2, <1>4, <4>1 DEF MtInv, FibersDone
    <3>3. CASE v # w /\ at[v] \in {"idle", "left"}
      BY <3>3, <1>4
    <3> QED
      BY <3>1, <3>2, <3>3
  <2> QED
    BY <1>1, <2>1, <2>2 DEF MtInv, FibersDone
<1>8. LockHeld'
  BY <1>1, <1>2, <1>4 DEF MtInv, LockHeld
<1>9. StacksHeld'
  <2>1. \A q, r \in Routines : stackOf'[q] # NoStack /\ stackOf'[q] = stackOf'[r] => q = r
    BY <1>3, <1>4 DEF MtInv, StacksHeld
  <2>2. ASSUME NEW r \in Routines, NEW i \in 1..Len(pool), pool[i] = stackOf'[r]
        PROVE  i = Len(pool) /\ \E v \in PoolThreads : at'[v] = "popping" /\ task[v] = r
    <3>1. CASE r = f
      <4>1. at'[w] = "popping"
        <5>1. pool # <<>>
          OBVIOUS
        <5> QED
          BY <5>1, <1>4
      <4>2. Len(pool) \in 1..Len(pool)
        BY DEF MtInv, MtTypeOK
      <4>3. i = Len(pool)
        BY <2>2, <3>1, <1>4, <4>1, <4>2 DEF MtInv, StacksHeld
      <4> QED
        BY <3>1, <4>1, <4>3 DEF f
    <3>2. CASE r # f
      <4>1. \E v \in PoolThreads : at[v] = "popping"
        BY <2>2, <3>2, <1>4 DEF MtInv, StacksHeld
      <4> QED
        BY <4>1, <1>1, <1>2
    <3> QED
      BY <3>1, <3>2
  <2>3. ASSUME NEW v \in PoolThreads, at'[v] = "popping"
        PROVE  pool # <<>> /\ stackOf'[task[v]] = pool[Len(pool)]
    BY <1>2, <1>4, <2>3 DEF f
  <2> QED
    BY <1>1, <2>1, <2>2, <2>3 DEF MtInv, StacksHeld
<1>10. \E host \in [Coroutines -> PoolThreads] : Chains(host)'
  <2>1. \A v \in PoolThreads : at'[v] = "inside" <=> at[v] = "inside"
    BY <1>1, <1>4
  <2> QED
    BY <1>1, <2>1, ChainsStand
<1> QED
  BY <1>5, <1>6, <1>7, <1>8, <1>9, <1>10 DEF MtInv

\* pop_back() takes away the stack that the fiber has got.
LEMMA AllocatePopInv ==
  ASSUME MtInv, NEW w \in PoolThreads, AllocatePop(w) PROVE MtInv'
<1>1. /\ UNCHANGED <<posted, task, coVars, completed, spawned, gone, stackOf, main, aborted>>
      /\ at[w] = "popping" /\ at' = [at EXCEPT ![w] = "resume"] /\ locked' = 0
      /\ pool' = SubSeq(pool, 1, Len(pool) - 1)
  BY DEF AllocatePop, Goes, StacksOnly, coVars, Front
<1>2. /\ at'[w] = "resume" /\ \A v \in PoolThreads : v # w => at'[v] = at[v]
      /\ \A v \in PoolThreads : v # w => at[v] \notin {"critical", "popping"}
  BY <1>1, AloneInside DEF MtInv, MtTypeOK
<1>3. /\ pool # <<>> /\ stackOf[task[w]] = pool[Len(pool)]
      /\ pool \in Seq(Stacks) /\ Len(pool) \in Nat \ {0}
  BY <1>1 DEF MtInv, MtTypeOK, StacksHeld
<1>4. /\ pool' \in Seq(Stacks) /\ Len(pool') = Len(pool) - 1
      /\ \A i \in 1..Len(pool') : pool'[i] = pool[i] /\ i \in 1..Len(pool) /\ i # Len(pool)
  <2> DEFINE m == Len(pool) - 1
  <2>1. m \in Nat /\ m + 1 = Len(pool) /\ \A i \in 1..m : pool[i] \in Stacks
    BY <1>3
  <2>2. pool' = [i \in 1..m |-> pool[i]]
    BY <1>1, <1>3, <2>1
  <2> HIDE DEF m
  <2>3. pool' \in Seq(Stacks) /\ Len(pool') = m
    BY <2>1, <2>2
  <2>4. \A i \in 1..m : pool'[i] = pool[i] /\ i \in 1..Len(pool) /\ i # Len(pool)
    BY <1>3, <2>1, <2>2
  <2> QED
    BY <2>1, <2>3, <2>4
<1>5. MtTypeOK'
  <2>1. aborted' \in BOOLEAN
    BY <1>1 DEF MtInv, MtTypeOK
  <2> QED
    BY <1>1, <1>4, <2>1 DEF MtInv, MtTypeOK, coVars
<1>6. FibersPlaced' /\ WhenLeft'
  BY <1>1, <1>2, TaskGoesOn
<1>7. FibersDone'
  BY <1>1, <1>2 DEF MtInv, FibersDone
<1>8. LockHeld'
  BY <1>1, <1>2 DEF MtInv, LockHeld
<1>9. StacksHeld'
  BY <1>1, <1>2, <1>4 DEF MtInv, StacksHeld
<1>10. \E host \in [Coroutines -> PoolThreads] : Chains(host)'
  <2>1. \A v \in PoolThreads : at'[v] = "inside" <=> at[v] = "inside"
    BY <1>1, <1>2
  <2> QED
    BY <1>1, <2>1, ChainsStand
<1> QED
  BY <1>5, <1>6, <1>7, <1>8, <1>9, <1>10 DEF MtInv

\* The fiber is deleted, and its stack goes back to the pool.
LEMMA ReleaseInv ==
  ASSUME MtInv, NEW w \in PoolThreads, Release(w) PROVE MtInv'
<1> DEFINE f == task[w]
<1>1. /\ UNCHANGED <<posted, coVars, completed, spawned, main, aborted>>
      /\ at[w] = "critical" /\ at' = [at EXCEPT ![w] = "idle"] /\ stackOf[f] # NoStack
      /\ pool' = Append(pool, stackOf[f]) /\ stackOf' = [stackOf EXCEPT ![f] = NoStack]
      /\ gone' = gone \cup {f} /\ task' = [task EXCEPT ![w] = NoCo] /\ locked' = 0
  BY DEF Release, Goes, coVars
<1>2. /\ f \in Routines /\ f \in spawned \ gone /\ f \in completed /\ f # NoCo
      /\ \A v \in PoolThreads : v # w => task[v] # f
      /\ \A v \in PoolThreads : v # w => at[v] \notin {"critical", "popping"}
      /\ \A v \in PoolThreads : at[v] # "left"
      /\ \A i \in 1..Len(posted) : posted[i] # f
  BY <1>1, TaskIsFiber, AloneInside DEF MtInv, FibersPlaced, FibersDone
<1>3. /\ at'[w] = "idle" /\ task'[w] = NoCo
      /\ \A v \in PoolThreads : v # w => at'[v] = at[v] /\ task'[v] = task[v]
      /\ stackOf'[f] = NoStack /\ \A q \in Routines : q # f => stackOf'[q] = stackOf[q]
      /\ stackOf[f] \in Stacks
  BY <1>1, <1>2 DEF MtInv, MtTypeOK
<1>4. /\ Len(pool) \in Nat /\ Len(pool') = Len(pool) + 1 /\ pool' \in Seq(Stacks)
      /\ \A i \in 1..Len(pool) : pool'[i] = pool[i]
      /\ pool'[Len(pool) + 1] = stackOf[f]
      /\ \A i \in 1..Len(pool') : i = Len(pool) + 1 \/ i \in 1..Len(pool)
  <2>1. pool \in Seq(Stacks)
    BY DEF MtInv, MtTypeOK
  <2> HIDE DEF f
  <2> QED
    BY <1>1, <1>3, <2>1
<1>5. MtTypeOK'
  <2>1. aborted' \in BOOLEAN
    BY <1>1 DEF MtInv, MtTypeOK
  <2>2. /\ task' \in [PoolThreads -> Routines \cup {NoCo}] /\ gone' \subseteq Routines
        /\ stackOf' \in [Routines -> Stacks \cup {NoStack}]
    BY <1>1, <1>2 DEF MtInv, MtTypeOK
  <2> QED
    BY <1>1, <1>4, <2>1, <2>2 DEF MtInv, MtTypeOK, coVars
<1> HIDE DEF f
<1>6. FibersPlaced'
  <2>1. /\ gone' \subseteq spawned
        /\ \A i \in 1..Len(posted) : posted[i] \in spawned \ gone'
    BY <1>1, <1>2 DEF MtInv, FibersPlaced
  <2>2. \A v \in PoolThreads : task'[v] = NoCo <=> at'[v] \in {"idle", "left"}
    BY <1>3 DEF MtInv, FibersPlaced
  <2>3. ASSUME NEW v \in PoolThreads, task'[v] # NoCo
        PROVE  task'[v] \in spawned \ gone' /\ \A i \in 1..Len(posted) : posted[i] # task'[v]
    BY <1>1, <1>2, <1>3, <2>3 DEF MtInv, FibersPlaced
  <2>4. \A u, v \in PoolThreads : task'[u] = task'[v] /\ task'[u] # NoCo => u = v
    BY <1>3 DEF MtInv, FibersPlaced
  <2>5. ASSUME NEW q \in spawned \ gone'
        PROVE  (\E i \in 1..Len(posted) : posted[i] = q) \/ \E v \in PoolThreads : task'[v] = q
    <3>1. q # f /\ q \in spawned \ gone
      BY <1>1
    <3>2. CASE \E v \in PoolThreads : task[v] = q
      BY <3>1, <3>2, <1>3 DEF f
    <3> QED
      BY <3>1, <3>2 DEF MtInv, FibersPlaced
  <2> QED
    BY <1>1, <2>1, <2>2, <2>3, <2>4, <2>5 DEF MtInv, FibersPlaced
<1>7. FibersDone'
  <2>1. \A r \in gone' \cup (Routines \ spawned) : stackOf'[r] = NoStack
    BY <1>1, <1>2, <1>3 DEF MtInv, MtTypeOK, FibersDone
  <2>2. ASSUME NEW v \in PoolThreads
        PROVE  /\ at'[v] \in {"popping", "resume", "inside"} => task'[v] \notin completed
               /\ at'[v] \in {"popping", "resume", "inside", "back"} => stackOf'[task'[v]] # NoStack
               /\ at'[v] \in {"exchange", "spin", "critical"} =>
                    (stackOf'[task'[v]] = NoStack <=> task'[v] \notin completed)
    <3>1. CASE v = w
      BY <3>1, <1>3
    <3>2. CASE v # w /\ at[v] \notin {"idle", "left"}
      <4>1. stackOf'[task'[v]] = stackOf[task[v]] /\ task'[v] = task[v]
        BY <3>2, <1>2, <1>3, TaskIsFiber
      <4> QED
        BY <3>2, <1>3, <4>1 DEF MtInv, FibersDone
    <3>3. CASE v # w /\ at[v] \in {"idle", "left"}
      BY <3>3, <1>3
    <3> QED
      BY <3>1, <3>2, <3>3
  <2> QED
    BY <1>1, <1>2, <2>1, <2>2 DEF MtInv, FibersDone
<1>8. WhenLeft'
  BY <1>1, <1>2, <1>3 DEF MtInv, WhenLeft
<1>9. LockHeld'
  BY <1>1, <1>2, <1>3 DEF MtInv, LockHeld
<1>10. StacksHeld'
  <2>1. \A v \in PoolThreads : at[v] # "popping" /\ at'[v] # "popping"
    BY <1>1, <1>2, <1>3
  <2>2. \A r \in Routines : \A i \in 1..Len(pool) : pool[i] # stackOf[r]
    BY <2>1 DEF MtInv, StacksHeld
  <2>3. \A i, j \in 1..Len(pool') : pool'[i] = pool'[j] => i = j
    BY <1>2, <1>4, <2>2 DEF MtInv, StacksHeld
  <2>4. \A q, r \in Routines : stackOf'[q] # NoStack /\ stackOf'[q] = stackOf'[r] => q = r
    BY <1>3 DEF MtInv, StacksHeld
  <2>5. ASSUME NEW r \in Routines, NEW i \in 1..Len(pool') PROVE pool'[i] # stackOf'[r]
    <3>1. CASE r = f
      <4>1. pool'[i] \in Stacks
        BY <1>4
      <4> QED
        BY <3>1, <4>1, <1>3, MtFibersAssumption
    <3>2. CASE r # f /\ i \in 1..Len(pool)
      BY <3>2, <1>3, <1>4, <2>2
    <3>3. CASE r # f /\ i = Len(pool) + 1
      BY <3>3, <1>1, <1>2, <1>3, <1>4 DEF MtInv, StacksHeld
    <3> QED
      BY <3>1, <3>2, <3>3, <1>4
  <2> QED
    BY <2>1, <2>3, <2>4, <2>5 DEF StacksHeld
<1>11. \E host \in [Coroutines -> PoolThreads] : Chains(host)'
  <2>1. \A v \in PoolThreads : /\ at'[v] = "inside" <=> at[v] = "inside"
                               /\ at[v] = "inside" => task'[v] = task[v]
    BY <1>1, <1>3
  <2> QED
    BY <1>1, <2>1, ChainsStand
<1> QED
  BY <1>5, <1>6, <1>7, <1>8, <1>9, <1>10, <1>11 DEF MtInv

\* Join, a worker that leaves, and the exception that ends everything: no fiber
\* is left when the first worker leaves.
LEMMA JoiningInv ==
  ASSUME MtInv,
         JoinBegins \/ JoinEnds \/ \E w \in PoolThreads : Leaves(w) \/ Throws(w)
  PROVE  MtInv'
<1>1. /\ UNCHANGED <<posted, task, coVars, completed, spawned, gone, stackOf, pool, locked>>
      /\ aborted' \in BOOLEAN
  BY DEF JoinBegins, JoinEnds, Leaves, Throws, Goes, stackVars, coVars, MtInv, MtTypeOK
<1>2. /\ \/ at' = at
         \/ \E w \in PoolThreads :
              /\ at[w] = "idle" /\ at' = [at EXCEPT ![w] = "left"] /\ main = "joining"
              /\ main' = main /\ posted = <<>> /\ \A v \in PoolThreads : task[v] = NoCo
      /\ \/ main' = main
         \/ main = "open" /\ main' = "joining"
         \/ main = "joining" /\ main' = "joined" /\ \A w \in PoolThreads : at[w] = "left"
  BY DEF JoinBegins, JoinEnds, Leaves, Throws, Goes
<1>3. \A v \in PoolThreads :
        \/ at'[v] = at[v]
        \/ /\ at[v] = "idle" /\ at'[v] = "left" /\ main = "joining" /\ main' = main
           /\ posted = <<>> /\ \A u \in PoolThreads : task[u] = NoCo
  BY <1>2 DEF MtInv, MtTypeOK
<1>4. MtTypeOK'
  <2>1. at' \in [PoolThreads -> {"idle", "exchange", "spin", "critical", "popping",
                                 "resume", "inside", "back", "left"}]
    BY <1>2 DEF MtInv, MtTypeOK
  <2> QED
    BY <1>1, <1>2, <2>1 DEF MtInv, MtTypeOK, coVars
<1>5. FibersPlaced'
  <2>1. \A v \in PoolThreads : at'[v] \in {"idle", "left"} <=> at[v] \in {"idle", "left"}
    BY <1>3
  <2> QED
    BY <1>1, <2>1 DEF MtInv, FibersPlaced
<1>6. WhenLeft'
  <2>1. CASE at' = at
    BY <1>1, <1>2, <2>1 DEF MtInv, WhenLeft
  <2>2. CASE at' # at
    <3>1. /\ main = "joining" /\ main' = main /\ posted = <<>>
          /\ \A v \in PoolThreads : task[v] = NoCo
      BY <1>2, <2>2
    <3> QED
      BY <1>1, <3>1 DEF WhenLeft
  <2> QED
    BY <2>1, <2>2
<1>7. FibersDone' /\ LockHeld' /\ StacksHeld'
  <2>1. \A v \in PoolThreads : at'[v] = at[v] \/ (at[v] = "idle" /\ at'[v] = "left")
    BY <1>3
  <2>2. FibersDone'
    BY <1>1, <2>1 DEF MtInv, FibersDone
  <2>3. LockHeld'
    BY <1>1, <2>1 DEF MtInv, LockHeld
  <2>4. StacksHeld'
    BY <1>1, <2>1 DEF MtInv, StacksHeld
  <2> QED
    BY <2>2, <2>3, <2>4
<1>8. \E host \in [Coroutines -> PoolThreads] : Chains(host)'
  <2>1. \A v \in PoolThreads : at'[v] = "inside" <=> at[v] = "inside"
    BY <1>3
  <2> QED
    BY <1>1, <2>1, ChainsStand
<1> QED
  BY <1>4, <1>5, <1>6, <1>7, <1>8 DEF MtInv

\* MtInv holds in every state.
THEOREM MtInvariance == MtSpec => []MtInv
<1>1. MtInv /\ [MtNext]_mtVars => MtInv'
  <2> SUFFICES ASSUME MtInv, [MtNext]_mtVars PROVE MtInv'
    OBVIOUS
  <2>1. ASSUME UNCHANGED mtVars PROVE MtInv'
    <3>1. MtTypeOK' /\ FibersPlaced' /\ FibersDone' /\ WhenLeft'
      BY <2>1 DEF mtVars, coVars, stackVars, MtInv, MtTypeOK, FibersPlaced, FibersDone, WhenLeft
    <3>2. LockHeld' /\ StacksHeld'
      BY <2>1 DEF mtVars, stackVars, MtInv, LockHeld, StacksHeld
    <3>3. \E host \in [Coroutines -> PoolThreads] : Chains(host)'
      BY <2>1, ChainsStand DEF mtVars
    <3> QED
      BY <3>1, <3>2, <3>3 DEF MtInv
  <2>2. ASSUME NEW w \in PoolThreads, Inside(w) PROVE MtInv'
    BY <2>2, ReturnsInv, JoiningInv, EntersInv, SpawnsInv DEF Inside
  <2>3. ASSUME NEW w \in PoolThreads, WorkerSteps(w) PROVE MtInv'
    BY <2>2, <2>3, TurnBeginsInv, EntersInv, TurnEndsInv, LockInv, AllocateInv, AllocatePopInv,
       ReleaseInv, JoiningInv DEF WorkerSteps
  <2>4. ASSUME MainSteps PROVE MtInv'
    BY <2>4, JoiningInv, SpawnsInv DEF MainSteps
  <2> QED
    BY <2>1, <2>3, <2>4 DEF MtNext, MtOver
<1> QED
  BY <1>1, MtInit0, PTL DEF MtSpec

\* No stack is ever in two places: the allocator is right under its spinlock for
\* any number of workers and fibers.
THEOREM StacksAreOwned == MtSpec => []StackOwned
<1>1. MtInv => StackOwned
  <2> SUFFICES ASSUME MtInv PROVE StackOwned
    OBVIOUS
  <2> DEFINE owners == {r \in Routines : stackOf[r] # NoStack}
             Unpopped == {r \in owners : \E w \in PoolThreads : at[w] = "popping" /\ task[w] = r}
  <2>1. \A r, s \in owners : stackOf[r] = stackOf[s] => r = s
    BY DEF MtInv, StacksHeld
  <2>2. DOMAIN pool = 1..Len(pool)
    BY DEF MtInv, MtTypeOK
  <2>3. IsInjective(pool)
    BY <2>2 DEF MtInv, StacksHeld, IsInjective
  <2>4. ASSUME NEW r \in owners \ Unpopped PROVE stackOf[r] \notin Range(pool)
    <3>1. \A x : x \in Range(pool) => \E i \in 1..Len(pool) : pool[i] = x
      BY <2>2 DEF Range
    <3>2. r \in Routines /\ ~ \E w \in PoolThreads : at[w] = "popping" /\ task[w] = r
      BY <2>4
    <3>3. \A i \in 1..Len(pool) : pool[i] # stackOf[r]
      BY <3>2 DEF MtInv, StacksHeld
    <3> QED
      BY <3>1, <3>3
  <2> QED
    BY <2>1, <2>3, <2>4 DEF StackOwned
<1> QED
  BY <1>1, MtInvariance, PTL

\* Yield stops the coroutine that called it: current_coroutine is right on every
\* worker, for any nesting of generators.
THEOREM CurrentIsExact == MtSpec => []CurrentExecutes
<1>1. MtInv => CurrentExecutes
  <2> SUFFICES ASSUME MtInv PROVE CurrentExecutes
    OBVIOUS
  <2>1. PICK host \in [Coroutines -> PoolThreads] : Chains(host)
    BY DEF MtInv
  <2>2. ASSUME NEW w \in PoolThreads
        PROVE  /\ at[w] = "inside" => /\ context[w] \in Coroutines /\ current[w] = context[w]
                                      /\ host[context[w]] = w
               /\ at[w] # "inside" => context[w] = w /\ current[w] = NoCo
    BY <2>1 DEF Chains, Resumed
  <2> QED
    BY <2>2, MtNames DEF CurrentExecutes
<1> QED
  BY <1>1, MtInvariance, PTL

\* Join returns when every fiber has ended and given its stack back.
THEOREM FibersAreJoined == MtSpec => []JoinWaitsForFibers
<1>1. MtInv => JoinWaitsForFibers
  <2> SUFFICES ASSUME MtInv, main = "joined"
               PROVE  /\ spawned = gone /\ gone \subseteq completed
                      /\ \A r \in gone : stackOf[r] = NoStack
    BY DEF JoinWaitsForFibers
  <2>1. PICK w \in PoolThreads : at[w] = "left"
    BY MtFibersAssumption DEF MtInv, WhenLeft
  <2>2. posted = <<>> /\ \A v \in PoolThreads : task[v] = NoCo
    BY <2>1 DEF MtInv, WhenLeft
  <2>3. spawned \ gone = {}
    BY <2>2, MtNames DEF MtInv, MtTypeOK, FibersPlaced
  <2> QED
    BY <2>3 DEF MtInv, FibersPlaced, FibersDone
<1> QED
  BY <1>1, MtInvariance, PTL
=============================================================================
