-------------------------- MODULE FiberScheduler ---------------------------
(***************************************************************************)
(* The tinyfibers runtime, src/tinyfibers/{echo,sleep}/tinyfibers/runtime: *)
(* Scheduler, Fiber, JoinHandle, ParkingLot, Future and WaitQueue.         *)
(*                                                                         *)
(* One thread runs everything, so a system call is one action: with the    *)
(* Reschedule that follows it if the fiber leaves the processor, else up   *)
(* to its return.  Fibers are heap addresses: Destroy frees them and Spawn *)
(* may get them again.  What is left in freed memory is void.              *)
(*                                                                         *)
(* asio::io_context is external: a FIFO queue of posted handlers, and      *)
(* operations whose handlers run some time between two others.  User       *)
(* routines make any legal sequence of calls on one WaitQueue and on the   *)
(* handles of the fibers they spawned.                                     *)
(***************************************************************************)
EXTENDS Naturals, Sequences, FiniteSets

CONSTANTS Fibers,      \* heap addresses of Fiber objects
          Handles,     \* JoinHandle objects
          Root,        \* the fiber of the init routine
          Null,
          LateDetach   \* do routines Detach from fibers that have completed?

ASSUME FibersAssumption ==
    /\ Root \in Fibers /\ IsFiniteSet(Fibers) /\ IsFiniteSet(Handles)
    /\ Null \notin Fibers \cup Handles \cup {"empty", "set"}
    /\ LateDetach \in BOOLEAN

VARIABLES state,      \* state_ of each fiber, "Free" if the memory is not in use
          watcher,    \* watcher_ of each fiber
          running,    \* running_
          ready,      \* fibers posted to io_context_, the next one first
          timers,     \* fibers whose timer of SleepFor has not fired
          futures,    \* fibers in Future::Get, and the result_ of their future
          parked,     \* wait_queue_ of the WaitQueue
          handle,     \* the handles: fiber_, completed_, waitee_, and its holder
          joining     \* the handle each fiber is suspended on in Join

waiting == <<timers, futures, parked, joining>>
vars == <<state, watcher, running, ready, waiting, handle>>

\* Terminated is left out: the step that sets it goes on to Destroy
FiberState == {"Free", "Starting", "Runnable", "Running", "Suspended"}

TypeOK == /\ state \in [Fibers -> FiberState]
          /\ watcher \in [Fibers -> Handles \cup {Null}]
          /\ running \in Fibers \cup {Null}
          /\ ready \in Seq(Fibers) /\ parked \in Seq(Fibers)
          /\ timers \subseteq Fibers
          /\ futures \in [Fibers -> {Null, "empty", "set"}]
          /\ handle \in [Handles -> [fiber : Fibers \cup {Null}, completed : BOOLEAN,
                                     waitee : Fibers \cup {Null},
                                     holder : Fibers \cup {Null}]]
          /\ joining \in [Fibers -> Handles \cup {Null}]

Live(f) == state[f] # "Free"

NoHandle == [fiber |-> Null, completed |-> FALSE, waitee |-> Null, holder |-> Null]

\* A scheduler with the fibers of the sequence fs posted and nothing else
Posted(fs) == /\ state = [f \in Fibers |-> IF \E i \in DOMAIN fs : fs[i] = f
                                            THEN "Starting" ELSE "Free"]
              /\ watcher = [f \in Fibers |-> Null]
              /\ running = Null
              /\ ready = fs /\ timers = {} /\ parked = <<>>
              /\ futures = [f \in Fibers |-> Null]
              /\ handle = [h \in Handles |-> NoHandle]
              /\ joining = [f \in Fibers |-> Null]

\* Run: the root is spawned, without a handle, and the loop begins
Init == Posted(<<Root>>)

-----------------------------------------------------------------------------
(* Scheduling *)

\* Schedule: post the handler that steps f
Schedule(f) == ready' = Append(ready, f)

\* Resume every fiber of the sequence fs, in its order
Resume(fs) ==
    /\ state' = [f \in Fibers |-> IF \E i \in 1..Len(fs) : fs[i] = f
                                  THEN "Runnable" ELSE state[f]]
    /\ ready' = ready \o fs

\* f leaves the processor: Suspend, with nothing to do in Reschedule
Suspend(f) == /\ running = f
              /\ running' = Null
              /\ state' = [state EXCEPT ![f] = "Suspended"]

(***************************************************************************)
(* The posted handler: Step(f).  The call that f was suspended in returns; *)
(* if it was Join, its handle is done with, if Get, so is its future.      *)
(***************************************************************************)
Step(f) ==
    /\ running = Null
    /\ ready # <<>> /\ f = Head(ready)
    /\ ready' = Tail(ready)
    /\ running' = f
    /\ state' = [state EXCEPT ![f] = "Running"]
    /\ handle' = [h \in Handles |-> IF h = joining[f] THEN NoHandle ELSE handle[h]]
    /\ joining' = [joining EXCEPT ![f] = Null]
    /\ futures' = [futures EXCEPT ![f] = Null]
    /\ UNCHANGED <<watcher, timers, parked>>

-----------------------------------------------------------------------------
(* Calls with which a running fiber f gives the processor away *)

Yield(f) == /\ running = f
            /\ running' = Null
            /\ state' = [state EXCEPT ![f] = "Runnable"]
            /\ Schedule(f)
            /\ UNCHANGED <<watcher, waiting, handle>>

SleepFor(f) == /\ Suspend(f)
               /\ timers' = timers \cup {f}
               /\ UNCHANGED <<watcher, ready, futures, parked, joining, handle>>

\* The timer expires and its handler runs
TimerFires(f) == /\ running = Null
                 /\ f \in timers
                 /\ timers' = timers \ {f}
                 /\ Resume(<<f>>)
                 /\ UNCHANGED <<watcher, running, futures, parked, joining, handle>>

\* An operation of a socket or an acceptor is begun, then Future::Get
Get(f) == /\ Suspend(f)
          /\ futures' = [futures EXCEPT ![f] = "empty"]
          /\ UNCHANGED <<watcher, ready, timers, parked, joining, handle>>

\* Its handler runs: SetValue or SetError, and the fiber wakes
Set(f) ==
    /\ running = Null
    /\ futures[f] = "empty"
    /\ futures' = [futures EXCEPT ![f] = "set"]
    /\ Resume(<<f>>)
    /\ UNCHANGED <<watcher, running, timers, parked, joining, handle>>

Park(f) == /\ Suspend(f)
           /\ parked' = Append(parked, f)
           /\ UNCHANGED <<watcher, ready, timers, futures, joining, handle>>

\* A handle that f may use: CheckAttached
Attached(f, h) == running = f /\ handle[h].fiber # Null /\ handle[h].holder = f

\* Planted bug: Join gives the processor away once instead of parking
JoinYields(f, h) ==
    /\ Attached(f, h) /\ ~handle[h].completed
    /\ running' = Null
    /\ state' = [state EXCEPT ![f] = "Runnable"]
    /\ Schedule(f)
    /\ joining' = [joining EXCEPT ![f] = h]
    /\ UNCHANGED <<watcher, timers, futures, parked, handle>>

JoinParks(f, h) ==
    /\ Attached(f, h) /\ ~handle[h].completed
    /\ Suspend(f)
    /\ handle' = [handle EXCEPT ![h].waitee = f]
    /\ joining' = [joining EXCEPT ![f] = h]
    /\ UNCHANGED <<watcher, ready, timers, futures, parked>>

\* Planted bug: the watcher learns of the end but its waitee is not woken
OnCompletedSilent(f, h) ==
    /\ handle' = [handle EXCEPT ![h].completed = TRUE]
    /\ state' = [state EXCEPT ![f] = "Free"]
    /\ UNCHANGED ready

\* The destructor of f tells its watcher h, which wakes the fiber in Join
OnCompleted(f, h) ==
    /\ handle' = [handle EXCEPT ![h].completed = TRUE]
    /\ IF handle[h].waitee = Null
       THEN state' = [state EXCEPT ![f] = "Free"] /\ UNCHANGED ready
       ELSE /\ state' = [state EXCEPT ![f] = "Free", ![handle[h].waitee] = "Runnable"]
            /\ Schedule(handle[h].waitee)

\* The fiber is deleted, and its destructor looks for a watcher
Destroy(f) ==
    /\ watcher' = [watcher EXCEPT ![f] = Null]
    /\ IF watcher[f] # Null
       THEN OnCompleted(f, watcher[f])
       ELSE state' = [state EXCEPT ![f] = "Free"] /\ UNCHANGED <<ready, handle>>

(***************************************************************************)
(* The routine returns: Terminate, then Destroy in the scheduler.  A       *)
(* routine may not leave a handle attached (VERIFY in ~JoinHandle).        *)
(***************************************************************************)
Terminate(f) ==
    /\ running = f
    /\ \A h \in Handles : handle[h].holder # f
    /\ running' = Null
    /\ Destroy(f)
    /\ UNCHANGED waiting

-----------------------------------------------------------------------------
(* Calls of a running fiber f that return at once *)

\* A new fiber g, and a handle h that watches it
Spawn(f, g, h) ==
    /\ running = f
    /\ ~Live(g) /\ handle[h] = NoHandle
    /\ state' = [state EXCEPT ![g] = "Starting"]
    /\ watcher' = [watcher EXCEPT ![g] = h]
    /\ handle' = [handle EXCEPT ![h] = [NoHandle EXCEPT !.fiber = g, !.holder = f]]
    /\ Schedule(g)
    /\ UNCHANGED <<running, waiting>>

WakeOne(f) == /\ running = f
              /\ parked # <<>>
              /\ Resume(<<Head(parked)>>)
              /\ parked' = Tail(parked)
              /\ UNCHANGED <<watcher, running, timers, futures, joining, handle>>

WakeAll(f) == /\ running = f
              /\ parked # <<>>
              /\ Resume(parked)
              /\ parked' = <<>>
              /\ UNCHANGED <<watcher, running, timers, futures, joining, handle>>

\* Join of a fiber that has completed
JoinReturnsAtOnce(f, h) ==
    /\ Attached(f, h) /\ handle[h].completed
    /\ handle' = [handle EXCEPT ![h] = NoHandle]
    /\ UNCHANGED <<state, watcher, running, ready, waiting>>

(***************************************************************************)
(* SetWatcher(nullptr) writes to the fiber even if it has completed: then  *)
(* the memory is free, or belongs to another fiber by now.                 *)
(***************************************************************************)
Detach(f, h) ==
    /\ Attached(f, h)
    /\ handle[h].completed => LateDetach
    /\ watcher' = [watcher EXCEPT ![handle[h].fiber] = Null]
    /\ handle' = [handle EXCEPT ![h] = NoHandle]
    /\ UNCHANGED <<state, running, ready, waiting>>

\* Planted bug: the fiber goes on reporting to the handle that was moved from
MoveUnwatched(f, h, to) ==
    /\ Attached(f, h) /\ handle[to] = NoHandle
    /\ handle' = [handle EXCEPT ![h] = NoHandle, ![to] = handle[h]]
    /\ UNCHANGED <<state, watcher, running, ready, waiting>>

\* The move constructor: handle `to' is made of h
Move(f, h, to) ==
    /\ Attached(f, h) /\ handle[to] = NoHandle
    /\ handle' = [handle EXCEPT ![h] = NoHandle, ![to] = handle[h]]
    /\ watcher' = IF handle[h].completed THEN watcher
                  ELSE [watcher EXCEPT ![handle[h].fiber] = to]
    /\ UNCHANGED <<state, running, ready, waiting>>

-----------------------------------------------------------------------------
\* Calls on a handle, and on the wait queue, that return at once
HandleCall(f) == \E h \in Handles : \/ JoinReturnsAtOnce(f, h) \/ Detach(f, h)
                                     \/ \E to \in Handles : Move(f, h, to)

WaitQueueCall(f) == WakeOne(f) \/ WakeAll(f)

Call(f) == \/ \E g \in Fibers, h \in Handles : Spawn(f, g, h)
           \/ HandleCall(f) \/ WaitQueueCall(f)

Leave(f) == \/ Yield(f) \/ SleepFor(f) \/ Get(f) \/ Park(f) \/ Terminate(f)
            \/ \E h \in Handles : JoinParks(f, h)

\* A handler of an operation that has ended
Handler(f) == TimerFires(f) \/ Set(f)

\* io_context_.run() returns: nothing is posted and nothing is awaited
RunReturns == /\ running = Null /\ ready = <<>> /\ timers = {}
              /\ \A f \in Fibers : futures[f] = Null
              /\ UNCHANGED vars

Next == \/ \E f \in Fibers : Step(f) \/ Handler(f) \/ Call(f) \/ Leave(f)
        \/ RunReturns

Spec == Init /\ [][Next]_vars

(***************************************************************************)
(* The loop runs what is posted, timers expire and operations end (between *)
(* other handlers, hence strong fairness), and routines are cooperative: a *)
(* running fiber gives the processor away.                                 *)
(***************************************************************************)
FairSpec == /\ Spec
            /\ \A f \in Fibers : /\ WF_vars(Step(f)) /\ SF_vars(Handler(f))
                                 /\ WF_vars(Leave(f))

-----------------------------------------------------------------------------
(* Properties *)

Occurrences(x, s) == Cardinality({i \in 1..Len(s) : s[i] = x})

\* In how many places somebody is to Resume f
Waits(f) == Occurrences(f, parked)
              + Cardinality({h \in Handles : handle[h].waitee = f /\ ~handle[h].completed})
              + (IF f \in timers THEN 1 ELSE 0)
              + (IF futures[f] = "empty" THEN 1 ELSE 0)

\* As long as a handle is attached and its fiber has not completed, that fiber
\* is alive and reports its end to this handle, also after a move.
HandleWatches ==
    \A h \in Handles : handle[h].fiber # Null /\ ~handle[h].completed =>
      Live(handle[h].fiber) /\ watcher[handle[h].fiber] = h

(***************************************************************************)
(* The state of a fiber says where it is, and it is in one place only:     *)
(* posted once, running, or waiting for exactly one Resume; and the        *)
(* handles that were promised its end are told.  Hence Resume finds its    *)
(* fiber Suspended (ASSERT), Reschedule meets no unexpected state (PANIC), *)
(* no handler steps a fiber that was destroyed, Get finds its result, and  *)
(* a handle is "an owned permission to join on a fiber".                   *)
(***************************************************************************)
OnePlace ==
    /\ \A f \in Fibers :
         /\ Occurrences(f, ready) = IF state[f] \in {"Starting", "Runnable"} THEN 1 ELSE 0
         /\ Waits(f) = IF state[f] = "Suspended" THEN 1 ELSE 0
         /\ state[f] = "Running" <=> running = f
    /\ HandleWatches

(***************************************************************************)
(* Join returns only after the fiber it waits for has completed.           *)
(***************************************************************************)
ReturnsAfterEnd ==
    \A f \in Fibers : joining[f] # Null /\ joining'[f] = Null => handle[joining[f]].completed

JoinWaits == [][ReturnsAfterEnd]_vars

(***************************************************************************)
(* Nobody is forgotten: a fiber that was spawned, yielded, slept, awaited  *)
(* an operation or joined a fiber that has completed runs again, whatever  *)
(* the others do.                                                          *)
(***************************************************************************)
Due(f) == \/ state[f] \in {"Starting", "Runnable"}
          \/ f \in timers \/ futures[f] = "empty"
          \/ joining[f] # Null /\ handle[joining[f]].completed

NobodyForgotten == \A f \in Fibers : Due(f) ~> state[f] = "Running"
=============================================================================
