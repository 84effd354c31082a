------------------------------ MODULE MtFibers ------------------------------
(***************************************************************************)
(* Fibers on several threads: src/fibers/coroutine/mtf.  A Fiber is a      *)
(* coroutine that the workers of a StaticThreadPool take turns to resume:  *)
(* each turn is one task of the pool, and a fiber that yields submits its  *)
(* next turn itself.  Its stack comes from an allocator that all workers   *)
(* share under a spinlock, and goes back to it when the fiber ends.        *)
(*                                                                         *)
(* A routine may also run a coroutine of its own (SimpleCoroutine, a       *)
(* generator): Yield suspends the innermost coroutine, so what             *)
(* current_coroutine says, one pointer for each thread, decides who stops. *)
(*                                                                         *)
(* What a routine does is left open: it spawns, yields, resumes its        *)
(* generators, throws and ends as it likes.  Memory is reused, addresses   *)
(* of fibers are not: a routine is one fiber, which is spawned once.       *)
(***************************************************************************)
EXTENDS Naturals, FiniteSets, SequencesExt

CONSTANTS
    Routines,     \* the routines given to Spawn, each of them one fiber
    Generators,   \* coroutines inside routines
    Main,         \* the thread that owns the pool
    Parent,       \* who spawns a routine, who resumes a generator
    PoolThreads,  \* the workers
    NoCo,         \* nullptr, in a Coroutine* or for a task
    Stacks,       \* memory for stacks
    NoStack,      \* a Stack that holds no memory
    MaxSuspends   \* bound: how often each coroutine suspends

Coroutines == Routines \cup Generators

ASSUME MtFibersAssumption ==
    /\ Parent \in [Coroutines -> Coroutines \cup {Main}]
    /\ \A g \in Generators : Parent[g] \in Coroutines
    /\ Main \notin Coroutines /\ NoCo \notin Coroutines /\ NoStack \notin Stacks
    /\ PoolThreads \cap (Coroutines \cup {Main, NoCo}) = {}
    /\ Routines \cap Generators = {} /\ PoolThreads # {}
    /\ IsFiniteSet(Routines) /\ IsFiniteSet(Stacks)
    /\ Cardinality(Stacks) >= Cardinality(Routines)
    /\ MaxSuspends \in Nat

VARIABLES
    posted,      \* the queue of io_context_: fibers with a turn to come
    at,          \* where each worker is
    task,        \* the fiber whose turn it runs
    context,     \* what executes on it: a coroutine, or the worker itself
    current,     \* its current_coroutine
    parent,      \* Coroutine::parent_
    caller,      \* Coroutine::caller_context_
    suspends,    \* how often a coroutine has suspended
    completed,   \* coroutines with completed_ set
    spawned,     \* fibers that exist or existed
    gone,        \* fibers that were deleted
    stackOf,     \* Fiber::stack_
    pool,        \* StackAllocator::pool_
    locked,      \* Spinlock::locked_
    main,        \* "open", "joining" or "joined"
    aborted      \* an exception left a worker thread

coVars == <<context, current, parent, caller, suspends, completed>>
stackVars == <<stackOf, pool, locked>>
mtVars == <<posted, at, task, coVars, spawned, gone, stackVars, main, aborted>>

MtInit ==
    /\ posted = <<>>
    /\ at = [w \in PoolThreads |-> "idle"]
    /\ task = [w \in PoolThreads |-> NoCo]
    /\ context = [w \in PoolThreads |-> w]
    /\ current = [w \in PoolThreads |-> NoCo]
    /\ parent = [c \in Coroutines |-> NoCo]
    /\ caller = [c \in Coroutines |-> NoCo]
    /\ suspends = [c \in Coroutines |-> 0]
    /\ completed = {}
    /\ spawned = {}
    /\ gone = {}
    /\ stackOf = [r \in Routines |-> NoStack]
    /\ pool = <<>>
    /\ locked = 0
    /\ main = "open"
    /\ aborted = FALSE

MtTypeOK ==
    /\ posted \in Seq(Routines)
    /\ at \in [PoolThreads -> {"idle", "exchange", "spin", "critical", "popping",
                               "resume", "inside", "back", "left"}]
    /\ task \in [PoolThreads -> Routines \cup {NoCo}]
    /\ context \in [PoolThreads -> PoolThreads \cup Coroutines]
    /\ current \in [PoolThreads -> Coroutines \cup {NoCo}]
    /\ parent \in [Coroutines -> Coroutines \cup {NoCo}]
    /\ caller \in [Coroutines -> PoolThreads \cup Coroutines \cup {NoCo}]
    /\ suspends \in [Coroutines -> 0..MaxSuspends]
    /\ completed \subseteq Coroutines
    /\ spawned \subseteq Routines /\ gone \subseteq Routines
    /\ stackOf \in [Routines -> Stacks \cup {NoStack}]
    /\ pool \in Seq(Stacks)
    /\ locked \in {0, 1}
    /\ main \in {"open", "joining", "joined"}
    /\ aborted \in BOOLEAN

Goes(w, from, to) == at[w] = from /\ at' = [at EXCEPT ![w] = to]

-----------------------------------------------------------------------------
(***************************************************************************)
(* The coroutine: src/fibers/coroutine/mtf/coroutine/impl.cpp.             *)
(***************************************************************************)

\* Resume up to the switch; the other end of the switch, in Trampoline or in
\* Suspend, finds c in current_coroutine as well.
Enter(w, c) ==
    /\ parent' = [parent EXCEPT ![c] = current[w]]
    /\ caller' = [caller EXCEPT ![c] = context[w]]
    /\ current' = [current EXCEPT ![w] = c]
    /\ context' = [context EXCEPT ![w] = c]

\* Planted bug: Resume leaves current_coroutine as it is.
ReturnFromStale(w, c) ==
    /\ context' = [context EXCEPT ![w] = caller[c]]
    /\ caller' = [caller EXCEPT ![c] = NoCo]
    /\ at' = [at EXCEPT ![w] = IF caller[c] \in PoolThreads THEN "back" ELSE @]
    /\ UNCHANGED <<current, parent>>

\* The switch back to the caller, and the rest of Resume there.  The caller's
\* context stays where it is in memory, and is overwritten by the next Resume
\* before anybody reads it: the model forgets it at once.
ReturnFrom(w, c) ==
    /\ context' = [context EXCEPT ![w] = caller[c]]
    /\ current' = [current EXCEPT ![w] = parent[c]]
    /\ caller' = [caller EXCEPT ![c] = NoCo]
    /\ at' = [at EXCEPT ![w] = IF caller[c] \in PoolThreads THEN "back" ELSE @]
    /\ UNCHANGED parent

\* Yield, or SimpleCoroutine::Suspend: whoever current_coroutine names stops.
Suspends(w) ==
    LET co == current[w] IN
    /\ at[w] = "inside"
    /\ suspends[co] < MaxSuspends
    /\ suspends' = [suspends EXCEPT ![co] = @ + 1]
    /\ ReturnFrom(w, co)
    /\ UNCHANGED <<posted, task, completed, spawned, gone, stackVars, main, aborted>>

\* The routine returns and Trampoline leaves for good.  So it does after an
\* exception, which Resume throws again in the caller: a routine that resumed
\* a generator may go on or throw as well, which is its own choice anyway.
Completes(w) ==
    /\ at[w] = "inside"
    /\ completed' = completed \cup {context[w]}
    /\ ReturnFrom(w, context[w])
    /\ UNCHANGED <<posted, task, suspends, spawned, gone, stackVars, main, aborted>>

\* What a fiber throws leaves its task, io_context::run and the thread: the
\* program ends.
Throws(w) ==
    /\ at[w] = "inside" /\ context[w] \in Routines
    /\ aborted' = TRUE
    /\ UNCHANGED <<posted, at, task, coVars, spawned, gone, stackVars, main>>

\* A routine, or a generator of it, resumes a generator of its own.
ResumesGenerator(w, g) ==
    /\ at[w] = "inside" /\ context[w] = Parent[g]
    /\ g \notin completed
    /\ Enter(w, g)
    /\ UNCHANGED <<posted, at, task, suspends, completed, spawned, gone, stackVars,
                   main, aborted>>

-----------------------------------------------------------------------------
(***************************************************************************)
(* The spinlock and the allocator: fibers/spinlock.cpp, fibers/stacks.cpp. *)
(* A worker whose fiber has a stack comes to release it, any other to      *)
(* allocate one.                                                           *)
(***************************************************************************)

StacksOnly == UNCHANGED <<posted, task, coVars, spawned, main, aborted>>

LockExchange(w) ==
    /\ Goes(w, "exchange", IF locked = 0 THEN "critical" ELSE "spin")
    /\ locked' = 1
    /\ UNCHANGED <<stackOf, pool, gone>> /\ StacksOnly

\* Planted bug: lock() returns when the load sees 0, without another exchange.
LockSpinEnters(w) ==
    /\ locked = 0
    /\ Goes(w, "spin", "critical")
    /\ UNCHANGED <<stackVars, gone>> /\ StacksOnly

LockSpin(w) ==
    /\ locked = 0
    /\ Goes(w, "spin", "exchange")
    /\ UNCHANGED <<stackVars, gone>> /\ StacksOnly

\* Memory that nobody has; which of it makes no difference to anybody.
GetNewStack == CHOOSE s \in Stacks : s \notin Range(stackOf) \cup Range(pool)

AllocateNew(w) ==
    /\ Goes(w, "critical", "resume")
    /\ stackOf[task[w]] = NoStack /\ pool = <<>>
    /\ stackOf' = [stackOf EXCEPT ![task[w]] = GetNewStack]
    /\ locked' = 0
    /\ UNCHANGED <<pool, gone>> /\ StacksOnly

AllocateBack(w) ==
    /\ Goes(w, "critical", "popping")
    /\ stackOf[task[w]] = NoStack /\ pool # <<>>
    /\ stackOf' = [stackOf EXCEPT ![task[w]] = Last(pool)]
    /\ UNCHANGED <<pool, locked, gone>> /\ StacksOnly

AllocatePop(w) ==
    /\ Goes(w, "popping", "resume")
    /\ pool' = Front(pool)
    /\ locked' = 0
    /\ UNCHANGED <<stackOf, gone>> /\ StacksOnly

\* Planted bug: the lock is not released after the stack.
ReleaseLocked(w) ==
    /\ Goes(w, "critical", "idle")
    /\ stackOf[task[w]] # NoStack
    /\ pool' = Append(pool, stackOf[task[w]])
    /\ stackOf' = [stackOf EXCEPT ![task[w]] = NoStack]
    /\ gone' = gone \cup {task[w]}
    /\ task' = [task EXCEPT ![w] = NoCo]
    /\ UNCHANGED <<posted, coVars, spawned, locked, main, aborted>>

\* The destructor of Fiber; the worker's task ends with it.
Release(w) ==
    /\ Goes(w, "critical", "idle")
    /\ stackOf[task[w]] # NoStack
    /\ pool' = Append(pool, stackOf[task[w]])
    /\ stackOf' = [stackOf EXCEPT ![task[w]] = NoStack]
    /\ locked' = 0
    /\ gone' = gone \cup {task[w]}
    /\ task' = [task EXCEPT ![w] = NoCo]
    /\ UNCHANGED <<posted, coVars, spawned, main, aborted>>

-----------------------------------------------------------------------------
(***************************************************************************)
(* The fiber and the pool: fibers/fiber.cpp, thread_pool.                  *)
(***************************************************************************)

\* Spawn: the fiber's first turn goes to the pool of the caller.
Spawns(r) ==
    /\ r \in Routines \ spawned
    /\ spawned' = spawned \cup {r}
    /\ posted' = Append(posted, r)
    /\ UNCHANGED <<at, task, coVars, gone, stackVars, main, aborted>>

SpawnsInside(w, r) == at[w] = "inside" /\ context[w] = Parent[r] /\ Spawns(r)

SpawnsOutside(r) == main = "open" /\ Parent[r] = Main /\ Spawns(r)

\* A turn begins; CoroutineFactory has work to do in the first one.
TurnBegins(w) ==
    /\ posted # <<>>
    /\ Goes(w, "idle", IF stackOf[Head(posted)] = NoStack THEN "exchange" ELSE "resume")
    /\ task' = [task EXCEPT ![w] = Head(posted)]
    /\ posted' = Tail(posted)
    /\ UNCHANGED <<coVars, spawned, gone, stackVars, main, aborted>>

ResumesFiber(w) ==
    /\ Goes(w, "resume", "inside")
    /\ Enter(w, task[w])
    /\ UNCHANGED <<posted, task, suspends, completed, spawned, gone, stackVars, main, aborted>>

\* Planted bug: no look at IsCompleted, the fiber is deleted after one turn.
TurnEndsAlways(w) ==
    /\ Goes(w, "back", "exchange")
    /\ UNCHANGED <<posted, task, coVars, spawned, gone, stackVars, main, aborted>>

\* SubmitContinuation, or delete.  asio::defer hands the continuation to the
\* queue when the task that submits it ends, which is now.
TurnEnds(w) ==
    LET f == task[w] IN
    \/ /\ f \in completed
       /\ Goes(w, "back", "exchange")
       /\ UNCHANGED <<posted, task, coVars, spawned, gone, stackVars, main, aborted>>
    \/ /\ f \notin completed
       /\ Goes(w, "back", "idle")
       /\ posted' = Append(posted, f)
       /\ task' = [task EXCEPT ![w] = NoCo]
       /\ UNCHANGED <<coVars, spawned, gone, stackVars, main, aborted>>

\* work_guard_.reset()
JoinBegins ==
    /\ main = "open" /\ main' = "joining"
    /\ UNCHANGED <<posted, at, task, coVars, spawned, gone, stackVars, aborted>>

\* io_context::run returns when no work is outstanding: nothing is queued, no
\* task runs, and the guard is gone.
Leaves(w) ==
    /\ main = "joining" /\ posted = <<>>
    /\ \A v \in PoolThreads : task[v] = NoCo
    /\ Goes(w, "idle", "left")
    /\ UNCHANGED <<posted, task, coVars, spawned, gone, stackVars, main, aborted>>

JoinEnds ==
    /\ main = "joining" /\ ~aborted /\ \A w \in PoolThreads : at[w] = "left"
    /\ main' = "joined"
    /\ UNCHANGED <<posted, at, task, coVars, spawned, gone, stackVars, aborted>>

\* What a coroutine does while it executes on worker w.
Inside(w) ==
    \/ Suspends(w) \/ Completes(w) \/ Throws(w)
    \/ \E g \in Generators : ResumesGenerator(w, g)
    \/ \E r \in Routines : SpawnsInside(w, r)

WorkerSteps(w) ==
    /\ ~aborted
    /\ \/ TurnBegins(w) \/ ResumesFiber(w) \/ Inside(w) \/ TurnEnds(w)
       \/ LockExchange(w) \/ LockSpin(w)
       \/ AllocateNew(w) \/ AllocateBack(w) \/ AllocatePop(w) \/ Release(w)
       \/ Leaves(w)

MainSteps == ~aborted /\ (JoinEnds \/ JoinBegins \/ \E r \in Routines : SpawnsOutside(r))

MtOver == (aborted \/ main = "joined") /\ UNCHANGED mtVars

MtNext == (\E w \in PoolThreads : WorkerSteps(w)) \/ MainSteps \/ MtOver

MtSpec == MtInit /\ [][MtNext]_mtVars

-----------------------------------------------------------------------------
(***************************************************************************)
(* Every stack is in one place: two fibers never have the same one, and    *)
(* none of them has one that the allocator would hand out again.  Several  *)
(* workers allocate and release at once.                                   *)
(***************************************************************************)
StackOwned ==
    LET owners == {r \in Routines : stackOf[r] # NoStack}
        Unpopped == {r \in owners : \E w \in PoolThreads : at[w] = "popping" /\ task[w] = r} IN
    /\ \A r, s \in owners : stackOf[r] = stackOf[s] => r = s
    /\ IsInjective(pool)
    /\ \A r \in owners \ Unpopped : stackOf[r] \notin Range(pool)

(***************************************************************************)
(* current_coroutine of each worker is the coroutine that executes there,  *)
(* and none executes on two of them, however fibers move between workers   *)
(* and generators nest: so Yield stops the coroutine that called it.       *)
(***************************************************************************)
CurrentExecutes ==
    /\ \A w \in PoolThreads :
          current[w] = IF context[w] \in Coroutines THEN context[w] ELSE NoCo
    /\ \A v, w \in PoolThreads : context[v] = context[w] => v = w

(***************************************************************************)
(* "Graceful shutdown": when Join returns, every fiber that was spawned,   *)
(* also by another fiber and also during the Join, has run to its end and  *)
(* given its stack back, however often it gave up its worker before.       *)
(***************************************************************************)
JoinWaitsForFibers ==
    main = "joined" =>
        /\ spawned = gone /\ gone \subseteq completed
        /\ \A r \in gone : stackOf[r] = NoStack

(***************************************************************************)
(* A Join that has begun ends, unless a routine throws: no fiber is lost   *)
(* between two turns, and nobody spins for ever.                           *)
(***************************************************************************)
FibersFinish == main = "joining" ~> (main = "joined" \/ aborted)
=============================================================================
