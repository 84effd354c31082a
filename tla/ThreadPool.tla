----------------------------- MODULE ThreadPool -----------------------------
(***************************************************************************)
(* StaticThreadPool with its UnboundedBlockingQueue and WorkersHandler     *)
(* (src/futures/executors/await/executors/).  One action per critical      *)
(* section of the queue's or the handler's mutex, so every call a method   *)
(* makes under one lock is one step and the gaps between them are visible. *)
(*                                                                         *)
(* A task is submitted once, by a client thread or by another task while   *)
(* it runs; status[k] says how far it has come.  A task may end before it  *)
(* has submitted everything (ExecuteHere swallows exceptions).  One owner  *)
(* calls Join, Shutdown or just the destructor; no client is inside the    *)
(* pool when the destructor starts.  Condition variables may wake          *)
(* spuriously.                                                             *)
(***************************************************************************)
EXTENDS Integers, FiniteSets, Sequences

CONSTANTS Workers,  \* pool_
          Clients,  \* threads outside the pool that call Execute
          Tasks,    \* the tasks ever submitted
          Source,   \* Source[k]: the client or the task that submits task k
          NoTask    \* a worker's hand is empty

ASSUME PoolAssumption ==
    /\ Workers # {} /\ IsFiniteSet(Workers)
    /\ IsFiniteSet(Tasks) /\ NoTask \notin Tasks
    /\ Clients \cap Tasks = {}
    /\ Source \in [Tasks -> Clients \cup Tasks]

VARIABLES buffer,           \* task_queue_.buffer_
          closed,           \* task_queue_.closed_
          current_number,   \* workers_manager_.current_number_
          executed_counter, \* executed_counter_
          worker,           \* control point of each worker
          hand,             \* the task each worker holds
          owner,            \* control point of the owner
          status,           \* the progress of each task
          mode,             \* history: which operation stopped the pool
          late              \* history: Execute was called when Join was closing

queueVars == <<buffer, closed>>
history   == <<mode, late>>
vars == <<buffer, closed, current_number, executed_counter, worker, hand,
          owner, status, history>>

(***************************************************************************)
(* Execute:  "new" -AcquireWorker-> "acquired" -Put-> "queued" | "refused" *)
(*           "refused" -ReleaseWorker-> "rejected"                         *)
(* worker:   "queued" -Take-> "running" -ExecuteHere-> "ran"               *)
(*           "ran" -++executed_counter_-> "counted" -ReleaseWorker-> "done"*)
(* Cancel:   "queued" -> "cleared"                                         *)
(***************************************************************************)
Statuses == {"new", "acquired", "queued", "refused", "rejected", "running",
             "ran", "counted", "done", "cleared"}

TypeOK == /\ buffer \in Seq(Tasks)
          /\ closed \in BOOLEAN
          /\ current_number \in Nat
          /\ executed_counter \in Nat
          /\ worker \in [Workers -> {"take", "asleep", "busy", "exited"}]
          /\ hand \in [Workers -> Tasks \cup {NoTask}]
          /\ owner \in {"open", "home", "asleep", "close", "joining",
                        "stopped", "gone"}
          /\ status \in [Tasks -> Statuses]
          /\ mode \in {"none", "join", "shutdown", "destroy"}
          /\ late \in BOOLEAN

Init == /\ buffer = <<>> /\ closed = FALSE
        /\ current_number = 0 /\ executed_counter = 0
        /\ worker = [w \in Workers |-> "take"]
        /\ hand = [w \in Workers |-> NoTask]
        /\ owner = "open"
        /\ status = [k \in Tasks |-> "new"]
        /\ mode = "none" /\ late = FALSE

Move(k, from, to) == status[k] = from /\ status' = [status EXCEPT ![k] = to]

\* The tasks in the middle of a call to Execute
Submitting == {k \in Tasks : status[k] \in {"acquired", "refused"}}

-----------------------------------------------------------------------------
(* WorkersHandler *)

\* enough_tokens_.notify_one(): only the owner ever waits there
NotifyOwner == owner' = IF owner = "asleep" THEN "home" ELSE owner

CountIn == current_number' = current_number + 1 /\ NotifyOwner

\* Planted bug: the owner is not told
CountOutSilent == current_number' = current_number - 1 /\ UNCHANGED owner

CountOut == current_number' = current_number - 1 /\ NotifyOwner

-----------------------------------------------------------------------------
(* Execute, called by a client or by a running task *)

\* The source of k is able to submit, and is not inside Execute already
MaySubmit(k) ==
    /\ \A j \in Submitting : Source[j] # Source[k]
    /\ IF Source[k] \in Tasks THEN status[Source[k]] = "running"
                              ELSE owner # "gone" /\ mode # "destroy"

AcquireWorker(k) ==
    /\ MaySubmit(k)
    /\ Move(k, "new", "acquired")
    /\ CountIn
    /\ late' = (late \/ (Source[k] \in Clients /\ mode = "join" /\
                         owner \notin {"home", "asleep"}))
    /\ UNCHANGED <<queueVars, executed_counter, worker, hand, mode>>

\* empty_queue_.notify_one() picks any sleeping worker
NotifyWorker ==
    \/ (\A w \in Workers : worker[w] # "asleep") /\ UNCHANGED worker
    \/ \E w \in Workers : /\ worker[w] = "asleep"
                          /\ worker' = [worker EXCEPT ![w] = "take"]

\* Planted bug: a task is put without waking a worker
PutAcceptedSilent(k) ==
    /\ ~closed
    /\ Move(k, "acquired", "queued")
    /\ buffer' = Append(buffer, k)
    /\ UNCHANGED <<closed, current_number, executed_counter, worker, hand, owner,
                   history>>

PutAccepted(k) ==
    /\ ~closed
    /\ Move(k, "acquired", "queued")
    /\ buffer' = Append(buffer, k)
    /\ NotifyWorker
    /\ UNCHANGED <<closed, current_number, executed_counter, hand, owner, history>>

PutRefused(k) ==
    /\ closed
    /\ Move(k, "acquired", "refused")
    /\ UNCHANGED <<queueVars, current_number, executed_counter, worker, hand,
                   owner, history>>

ReleaseRefused(k) ==
    /\ Move(k, "refused", "rejected")
    /\ CountOut
    /\ UNCHANGED <<queueVars, executed_counter, worker, hand, history>>

-----------------------------------------------------------------------------
(* The worker's loop *)

\* Take: sleep, leave, or take the front of the queue
TakeSleep(w) ==
    /\ worker[w] = "take" /\ ~closed /\ buffer = <<>>
    /\ worker' = [worker EXCEPT ![w] = "asleep"]
    /\ UNCHANGED <<queueVars, current_number, executed_counter, hand, owner,
                   status, history>>

\* Planted bug: a closed queue ends the worker although it holds tasks
TakeExitEarly(w) ==
    /\ worker[w] = "take" /\ closed
    /\ worker' = [worker EXCEPT ![w] = "exited"]
    /\ UNCHANGED <<queueVars, current_number, executed_counter, hand, owner,
                   status, history>>

TakeExit(w) ==
    /\ worker[w] = "take" /\ closed /\ buffer = <<>>
    /\ worker' = [worker EXCEPT ![w] = "exited"]
    /\ UNCHANGED <<queueVars, current_number, executed_counter, hand, owner,
                   status, history>>

TakeTask(w) ==
    /\ worker[w] = "take" /\ buffer # <<>>
    /\ worker' = [worker EXCEPT ![w] = "busy"]
    /\ hand' = [hand EXCEPT ![w] = Head(buffer)]
    /\ status' = [status EXCEPT ![Head(buffer)] = "running"]
    /\ buffer' = Tail(buffer)
    /\ UNCHANGED <<closed, current_number, executed_counter, owner, history>>

\* ExecuteHere returns: the task ended or threw, outside of any Execute call
TaskEnds(w) ==
    /\ worker[w] = "busy"
    /\ Move(hand[w], "running", "ran")
    /\ \A k \in Submitting : Source[k] # hand[w]
    /\ UNCHANGED <<queueVars, current_number, executed_counter, worker, hand,
                   owner, history>>

CountExecuted(w) ==
    /\ worker[w] = "busy"
    /\ Move(hand[w], "ran", "counted")
    /\ executed_counter' = executed_counter + 1
    /\ UNCHANGED <<queueVars, current_number, worker, hand, owner, history>>

ReleaseWorker(w) ==
    /\ worker[w] = "busy"
    /\ Move(hand[w], "counted", "done")
    /\ CountOut
    /\ worker' = [worker EXCEPT ![w] = "take"]
    /\ hand' = [hand EXCEPT ![w] = NoTask]
    /\ UNCHANGED <<queueVars, executed_counter, history>>

-----------------------------------------------------------------------------
(* The owner *)

JoinCall == /\ owner = "open"
            /\ owner' = "home" /\ mode' = "join"
            /\ UNCHANGED <<queueVars, current_number, executed_counter, worker,
                           hand, status, late>>

EverybodyHome ==
    /\ owner = "home"
    /\ owner' = IF current_number = 0 THEN "close" ELSE "asleep"
    /\ UNCHANGED <<queueVars, current_number, executed_counter, worker, hand,
                   status, history>>

\* empty_queue_.notify_all()
NotifyWorkers == worker' = [w \in Workers |->
                     IF worker[w] = "asleep" THEN "take" ELSE worker[w]]

Close == /\ owner = "close" /\ owner' = "joining"
         /\ closed' = TRUE
         /\ NotifyWorkers
         /\ UNCHANGED <<buffer, current_number, executed_counter, hand, status,
                        history>>

\* The clear of Cancel; the tasks' AcquireWorker is never undone
Clear == /\ buffer' = <<>>
         /\ status' = [k \in Tasks |->
                         IF status[k] = "queued" THEN "cleared" ELSE status[k]]

Cancel(how) ==
    /\ owner = "open" /\ owner' = "joining" /\ mode' = how
    /\ closed' = TRUE
    /\ NotifyWorkers
    /\ Clear
    /\ UNCHANGED <<current_number, executed_counter, hand, late>>

Shutdown == Cancel("shutdown")

NoClientInside == \A k \in Submitting : Source[k] \notin Clients

\* The destructor of a pool that nobody stopped
DestroyOpen == ~closed /\ NoClientInside /\ Cancel("destroy")

JoinThreads ==
    /\ owner = "joining"
    /\ \A w \in Workers : worker[w] = "exited"
    /\ owner' = IF mode = "destroy" THEN "gone" ELSE "stopped"
    /\ UNCHANGED <<queueVars, current_number, executed_counter, worker, hand,
                   status, history>>

\* The destructor after Join or Shutdown finds the queue closed
DestroyStopped ==
    /\ owner = "stopped" /\ closed /\ NoClientInside
    /\ owner' = "gone"
    /\ UNCHANGED <<queueVars, current_number, executed_counter, worker, hand,
                   status, history>>

-----------------------------------------------------------------------------
SpuriousWakeup ==
    \/ /\ \E w \in Workers : /\ worker[w] = "asleep"
                             /\ worker' = [worker EXCEPT ![w] = "take"]
       /\ UNCHANGED owner
    \/ owner = "asleep" /\ owner' = "home" /\ UNCHANGED worker

SpuriousStep ==
    /\ SpuriousWakeup
    /\ UNCHANGED <<queueVars, current_number, executed_counter, hand, status,
                   history>>

\* The destructor returned
Finished == owner = "gone" /\ UNCHANGED vars

Submit(k) == PutAccepted(k) \/ PutRefused(k) \/ ReleaseRefused(k)

Work(w) == \/ TakeSleep(w) \/ TakeExit(w) \/ TakeTask(w)
           \/ TaskEnds(w) \/ CountExecuted(w) \/ ReleaseWorker(w)

\* What the owner does once it has called Join, Shutdown or the destructor
Stopping == EverybodyHome \/ Close \/ JoinThreads

Next == \/ \E k \in Tasks : AcquireWorker(k) \/ Submit(k)
        \/ \E w \in Workers : Work(w)
        \/ JoinCall \/ Shutdown \/ DestroyOpen \/ Stopping \/ DestroyStopped
        \/ SpuriousStep
        \/ Finished

Spec == Init /\ [][Next]_vars

(***************************************************************************)
(* Threads that are inside the pool's code go on, and tasks end.  Nobody   *)
(* has to submit a task or to stop the pool.                               *)
(***************************************************************************)
FairSpec == /\ Spec
            /\ \A k \in Tasks : WF_vars(Submit(k))
            /\ \A w \in Workers : WF_vars(Work(w))
            /\ WF_vars(Stopping)

-----------------------------------------------------------------------------
(* Properties *)

\* current_number_ counts the tasks inside the pool, and the ones Cancel threw
\* away, as Cancel never undoes their AcquireWorker; and ExecutedTaskCount() is
\* exact once the pool has stopped.
CountersExact ==
    /\ current_number = Cardinality(
         {k \in Tasks : status[k] \notin {"new", "rejected", "done"}})
    /\ owner \in {"stopped", "gone"} =>
         executed_counter = Cardinality({k \in Tasks : status[k] = "done"})

(***************************************************************************)
(* When Join() returns, every task that Execute() accepted has run, also   *)
(* one that slipped in between EverybodyHome() and Close(); and Join() is  *)
(* graceful: unless a client calls Execute() after Join() has begun to     *)
(* close the pool, no task and no task of a task is refused.  The counters *)
(* that EverybodyHome() and ExecutedTaskCount() read are exact.            *)
(***************************************************************************)
JoinDrains ==
    /\ CountersExact
    /\ mode = "join" /\ owner \in {"stopped", "gone"}
         => \A k \in Tasks :
              status[k] \notin {"queued", "running", "ran", "counted", "cleared"}
    /\ mode = "join" /\ ~late
         => \A k \in Tasks : status[k] \notin {"refused", "rejected"}

(***************************************************************************)
(* Join(), Shutdown() and the destructor return, if clients stop calling.  *)
(***************************************************************************)
StopReturns == owner # "open" ~> owner \in {"stopped", "gone"}

(***************************************************************************)
(* A task that Execute() accepted runs to its end or is thrown away by     *)
(* Cancel(); it is never forgotten in the queue.                           *)
(***************************************************************************)
AcceptedTasksRun ==
    \A k \in Tasks : status[k] = "queued" ~> status[k] \in {"done", "cleared"}
=============================================================================
