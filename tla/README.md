# Verification of TPCC

TPCC is a collection of concurrency components in C++: locks, condition
variables, semaphores and queues, thread pools and executors, futures with
combinators and timers, two fiber runtimes, and two echo servers. This directory holds TLA+ specifications of
them, the TLC configurations that check the specifications on small instances,
and TLAPS proofs for every size. Each specification is translated from the code
in `src/`; `PROJECT.json` maps every definition to the lines it stands for.

## 1. Inventory

Several parts exist in more than one copy: the thread pool in
`condvar/thread-pool/tp`, `futures/executors` and `futures/futures`; the strand in
the last two, and the priority executor too; the tinyfibers runtime in `tinyfibers/sleep` and `tinyfibers/echo`.
The copies share their design. One module models it, and its definitions are
mapped to the copy whose code they follow: some of them to one copy, some to
another.

| part | state | operations | what is hard, and what must hold |
|---|---|---|---|
| `mutex/mutex` Mutex | `state_`, `waiting_counter_` | Lock, Unlock | Unlock tests the counter after it has released: no lost wakeup; one holder |
| `mutex/try-lock` TicketLock | `next_free_ticket_`, `owner_ticket_` | Lock, TryLock, Unlock | TryLock's load and CAS are two steps: no ticket taken and left, FIFO, TryLock honest |
| `mutex/spinlock` TASSpinLock | one word | Lock, Unlock | exchange and store in assembly |
| `mutex/livelock`, `intro` | - | - | exercises: a livelock and a deadlock made on purpose, dining philosophers, a guarded value, a context switch |
| `condvar/condvar` ConditionVariable | `ticket_` (wraps) | Wait, NotifyOne, NotifyAll | notification between unlock and sleep |
| `condvar/barrier` CyclicBarrier | two counters, `index_` | Arrive | reuse by fast threads while slow ones leave |
| `condvar/semaphore` | `current_number_`; `buffer_` and three semaphores | Acquire, Release; Put, Take | barging, full and empty queue: permits add up, bounded FIFO |
| thread pool | `buffer_`, `closed_`, `current_number_`, `executed_counter_` | Execute, Join, Shutdown, destructor, the worker loop | submitting while stopping, tasks that submit tasks, lost wakeups |
| strand | lock-free stack, `is_scheduled_` | Execute, the batch | ABA, two schedulers, the gap between IsEmpty and the store |
| priority executor | `queue_` ordered by priority, lambdas in the underlying executor | Execute, FixPriority, the lambda | lambdas and tasks are not paired: no lambda without a task, high before low |
| other executors (manual, inline, label_thread) | a queue, or nothing | Execute, Run... | sequential forwarding |
| `futures/core` SharedState | `state_`, plain `callback_`, `result_`, `executor_` | SetResult; Via, IsReady, GetResult, GetReadyResult, Subscribe | producer and consumer race; plain fields ordered by one atomic |
| `futures/core` Future | chains of contracts | Via, Then (two kinds), Recover, Transform | errors, exceptions and executors through a chain |
| `futures/combine` | All: mutex, `error_`, `counter_`, `results_`; FirstOf: `released_` | Combine, callbacks | any order of completions, ready inputs, only failures |
| `futures/time` TimeKeeper, After | priority queue of promises | After, the polling thread, Stop | a clock read outside the lock: never early, nothing forgotten; timers pending at Stop |
| tinyfibers runtime | `io_context`, fibers, handles, parking lots | Spawn, Yield, SleepFor, Join, Detach, Park, Wake, Future Get/Set | one fiber in one place; freed and reused fibers; moved handles |
| tinyfibers net, echo server | socket, acceptor | Read, Write, Accept, Connect | partial reads and writes, errors, clients that vanish or write more than fits |
| `asio/echo` | a session per connection | accept, read and write handlers | one buffer for reads and writes; errors of others |
| `fibers/coroutine/mtf` | coroutine contexts, a pool of stacks under a spinlock, a pool of threads | Spawn, Yield, Resume, Suspend | fibers move between threads: one stack each, the right current coroutine, Join waits for all |

How they interact. A future's callback is handed to an executor (thread pool,
strand, ...) or runs on the thread that sets the result. A strand hands batches to
another executor, the priority executor one lambda per task. A timer's promise is set
by the keeper's thread, which submits what was subscribed to it. Combinators and continuations subscribe to futures and set the
promise of the next. The thread pool's queue and counter sit on a mutex and a
condition variable. In tinyfibers everything runs on one thread: system calls
switch to the loop of `asio::io_context`, whose handlers resume fibers; the
network layer suspends a fiber in a `Future` until the handler of its operation
runs. `twist` (atomics, futex wait, mutexes), `wheels` (Result, VERIFY), `asio` and
`context` are libraries outside the repository and are modelled by how the code
uses them.

The hazards, each at its line and with the properties that watch it, are listed
in `PROJECT.json`.

## 2. Plan

Order: (1) the locks, as they are what the rest stands on; (2) thread pool, shared
state, strand; (3) combinators and chains; (4) condition variable, barrier,
semaphore, queue; (5) the fiber runtime and the echo servers; (6) timers and the
priority executor; (7) the multi-threaded fibers. All of these are done, and every
safety property of the passing runs is proved. Left: the livelock test as a client of
the fibers.

Abstract specifications: `ExclusiveAccess` (implemented by `Mutex` and
`TicketLock`), `BoundedFifo` (implemented by `BlockingQueue`) and `EchoPromise`
(implemented by both servers of `EchoServer`). Compositions: `BlockingQueue`
instantiates `Semaphore` three times; `FutureChain` extends `Combinators` and uses
of `SharedState` exactly what is checked there; `TimedTasks` joins `TimeKeeper` and
`PriorityExecutor`; `MtFibers` is fibers, coroutines, stack allocator, spinlock and
pool in one, as each turn of a fiber goes through all of them.

## 3. Modules

Common conventions. A module has one action per atomic operation, or per critical
section where the code holds a mutex, so that everything another thread can see in
between is a state. `pc` (or a similar variable) holds the next operation of each
thread. History variables are marked as such; no guard reads them. A definition
under the comment "Planted bug" is a mutation of the definition after it. It is
not part of the specification: it is there to show that a property can fail.
MC modules give the constants that a `.cfg` cannot. Four of them (`MCPools`,
`MCExecutors`, `MCFibers`, `MCCondVar`) check two or three components in one run: a
variable chosen in the initial state says which of them moves.

**ExclusiveAccess** is what a lock promises: it is handed over from nobody to one
owner and back.

**Mutex** (`mutex.hpp`). `LockExchange`, `LockAdd`, `LockWait`, `LockRetry`,
`LockSub` are the operations of Lock; `UnlockStore`, `UnlockCheck`, `UnlockNotify`
those of Unlock. `atomic::wait` compares and blocks; `notify_one` picks any blocked
thread.

**TicketLock** (`ticket_lock.hpp`). `LockTake`, `LockEnter`; `TryLoad`, `TryCas`;
`UnlockLoad`, `UnlockStore`. A spinning load that fails changes nothing and is a
stuttering step. `sawBusy` remembers whether the lock was taken during a TryLock.

**ConditionVariable** (`condvar.hpp`) with its intended client: waiters loop on a
predicate under a mutex, notifiers make it true and notify, under the mutex or
after it. `ticket_` wraps and starts anywhere. A notification wakes threads that
blocked on an older value, as the C++ standard says of `atomic::notify_one`.

**CyclicBarrier** (`cyclic_barrier.hpp`). `ArriveWait` and `ArriveLast` are Arrive up
to the wait or to its end; `Recheck` is the predicate after a wakeup, which may be
spurious. `slot` is the counter a thread's reference points to, as `index_` moves on
while it sleeps.

**Semaphore**, **BlockingQueue**, **BoundedFifo**. Acquire is one action when a
permit is there, else it sleeps; wakeups may be spurious and newcomers may barge.
Put and Take are the calls to the three semaphores and the access to the deque.

**ThreadPool** (`static_thread_pool.cpp`, `blocking_queue.hpp`, `helpers.cpp`).
`AcquireWorker`, `PutAccepted`/`PutRefused`, `ReleaseRefused` are Execute;
`TakeSleep`/`TakeExit`/`TakeTask`, `TaskEnds`, `CountExecuted`, `ReleaseWorker` the
worker; `JoinCall`, `EverybodyHome`, `Close`, `JoinThreads`, `Shutdown`,
`DestroyOpen`, `DestroyStopped` the owner. Tasks submit tasks and may end early by
an exception.

**Strand** (`strand.cpp`). Push is `PushAllocate`, `PushLoad`, `PushCas` on heap
nodes whose addresses come back; `Schedule` is the CAS on `is_scheduled_`; `TakeAll`
is ExecuteFirstStack. The batch runs `TaskStarts`/`TaskEnds`, then `CheckEmpty` and
`ClearScheduled` or another `TakeAll`. Freeing the nodes of a taken batch happens
with the exchange: in the code it is a little later, so the model reuses addresses
at least as early as the program can. `Linked(s)` says that the pointers lead from
`head_` through the nodes of `s`, the newest first, to nullptr; `OnStack` is that
sequence and `Chain` the tasks in it. The node pool of the shared stack is never
filled (only the local stack's `Pop` fills one, its own), so Push always allocates.

**SharedState** (`state.hpp`, `future.hpp`, `promise.hpp`). `SetCall`, `SetEmplace`,
`SetCas`, `SetNotify` are the producer; `Via`, `IsReady`, `GetResult`,
`BlockForResult`, `GetReadyResult`, `Subscribe`, `HasResult`, `SetCallback`,
`PassCallback` the consumer; `StoreDone`, `MoveResult`, `Execute` are common. Each
access to a plain field is an action of its own, so `NoDataRace` is about states in
which both sides are about to touch the same field. Memory is sequentially
consistent, as the code uses the default order everywhere.

**PriorityExecutor** (`priority.cpp`). `Emplace` is the critical section of Execute,
`HandOver` the call of the underlying executor, `PopTop` and `JobEnds` the lambda. The
heap keeps no order among equals, so any task of the highest priority may come out.

**TimeKeeper** (`time_keeper.hpp`, `after.cpp`). `ToDeadLine` reads the clock,
`AddTimer` queues the timer; `WorkChecks`, `GrabReadyTimers`, `Fire` and `PollEnds` are
one round of the thread; `StopRequest` and `StopJoin` the destructor. `Tick` moves the
clock at any time. **TimedTasks** joins both by `After(d).Via(FixPriority(p))`:
`Continue` is the callback that submits a job when its timer has fired.

**Combinators** (`all.hpp`, `first_of.hpp`, `combine.hpp`). `CombineEmpty` and
`Subscribe` are Combine; All's callback runs under a mutex and is one action,
FirstOf's is an exchange and a SetValue. `panicked` is the abort of a failed VERIFY.

**FutureChain** (`future.ipp`, `async.hpp`) adds links to the combined future:
`AddLink` is Via and Transform; `Callback` the transformer of Then, asynchronous
Then and Recover. The conversion of a failed `Result<T>` to `T` throws. An error at
an asynchronous Then therefore ends in `AsyncFails`: the inner callback throws
inside Subscribe, and the outer catch sets a promise that was moved from. If the
inner future fails later, the promise dies with its callback (`Broken`). The comment
there says "Propagate error" (finding `async_then_error`); `Promise::Set` in place of
`SetValue` would do that.

**FiberScheduler** (tinyfibers `runtime`). One thread, so a system call with the
Reschedule behind it is one action. Fibers are addresses: `Destroy` frees them and
`Spawn` reuses them. Handles can be moved, joined and detached. asio is a queue of
posted handlers and a set of operations that end at any time. The constant
`LateDetach` says whether routines call Detach on a fiber that has completed; the
code then writes to freed memory. The run sets it to FALSE, with TRUE
the part of `OnePlace` about handles fails.

**EchoServer** (`echo/server.cpp` of tinyfibers and of asio, `net/socket.cpp`,
`net/acceptor.cpp`). The tinyfibers server is `Listens`, `ServeForever`, `ClientRead`,
`ClientWrite`, `ClientWritten` and `ClientReturns`; the asio server `ServerStart`,
`AcceptHandler`, `ReadChunk`, `WriteChunk` and `SessionEnds`. A client resolves a name,
tries the endpoints in turn, writes its message, shuts its side down and reads to
the end of the stream, all with `Socket`. TCP is two bounded streams per connection;
an operation moves any number of bytes from one up; a client may vanish and an
accept may fail. **EchoPromise** says what the client may see of it.

**MtFibers** (`fibers/coroutine/mtf`). A turn of a fiber on a worker is `TurnBegins`,
`LockExchange`/`LockSpin` and `AllocateNew` or `AllocateBack`, `AllocatePop` the first
time, `ResumesFiber`, whatever its routine does (`Suspends`, `Completes`, `Throws`,
`ResumesGenerator`, `SpawnsInside`), and `TurnEnds`, which submits the next turn or
goes on to `Release` the stack. `context` says what really executes on a worker and
`current` what its `current_coroutine` says. `Leaves` is the return of
`io_context::run`, when no work is outstanding.

## 4. Runs

Every passing run checks deadlock. States are distinct states found.

| run | instance | states | what it shows |
|---|---|---|---|
| `mutex` | 3 threads | 551 | `ImplementsLock`: one holder. `NoLostWakeup`: a sleeper on a free mutex has somebody awake to answer for it. `Progress`: only barging delays a waiter |
| `ticket_lock` | 3 threads, 5 tickets | 22084 | `ImplementsLock`; `NoAbandonedTicket`; `NoOvertaking`; `FailureJustified` (no spurious failure of TryLock); `StarvationFree` |
| `pools` | ThreadPool: 2 workers, 2 clients, 4 tasks, one submitted by a task. MtFibers: 2 workers, 3 fibers, one spawned by a generator, each coroutine suspends once | 155384 | `JoinDrains` (drained, graceful, counters exact), `StopReturns`, `AcceptedTasksRun`; `StackOwned`, `CurrentExecutes`, `JoinWaitsForFibers`, `FibersFinish` |
| `executors` | SharedState: a value and an error. Strand: 2 clients, 2 workers, 4 tasks, 3 nodes. TimedTasks: 3 jobs, 2 of them by timers, 2 priorities, 2 threads, 3 instants | 93892 | `DeliversOnce` (and no failed VERIFY), `NoDataRace`, `RunsOnExecutor`, `ResultArrives`; `InOrder` (and not concurrently), `ScheduledBatchRunsAll`; `LambdasCovered`, `HigherFirst`; `NeverEarly`, `TimedJobsRun` |
| `strand_lost_task` | 2 tasks | violation | `AddedTasksRun` fails, see section 7 |
| `futures` | up to 3 inputs, 2 links, 2 executors | 119430 | `OutcomeRight`; `ResultsFlow` (errors skip Then, values skip Recover, functions run on the executor of the last Via), `ChainCompletes` |
| `all_panic` | up to 3 inputs | violation | `AllSetsOnce` fails |
| `first_of_errors` | up to 3 inputs | violation | `ErrorArrives` fails |
| `async_then_error` | up to 2 inputs, 1 link | violation | `AsyncErrorPasses` fails |
| `fibers` | FiberScheduler: 3 fiber addresses, 2 handles. EchoServer: both servers, 2 clients, with 4 bytes over streams of 1 and 2 bytes over streams of 2, 2 bytes in the buffer, 2 endpoints, 1 failed accept | 95180 | `OnePlace`, `JoinWaits`, `NobodyForgotten`; `ImplementsEcho`, `EverythingComesBack` |
| `blocking_queue` | 2 producers, 2 consumers, 2 values, capacity 2 | 74560 | `PermitsAddUp`, `ImplementsFifo`, `DataFlows` |
| `condvar` | 3 waiters, 2 notifiers, modulus 4; 3 participants, 3 rounds | 69318 | `NoLostNotification`, `ItemsAreTaken`; `NobodyLeavesEarly`, `AllLeave` |

**Bounds.** Three threads are enough for a lock: a holder, a sleeper and one that
barges or notifies; the proofs cover any number. Five tickets let each thread come
more than once and a TryLock be stale by several tickets. In the pool and the strand
four tasks give two submitters at once, one client that submits twice and a task
that submits; with three nodes for four tasks an address must come back. Two
workers suffice for two batches or tasks to overlap if they ever could. Three
inputs allow a first, a middle and a last completion; two links after them are one
that passes a result on and one that gets it from there. Three fiber addresses with
two handles allow a fiber that joins one while another takes over a freed address.
Capacity 2 makes the queue full, empty and in between, with two threads waiting on
either side. The modulus is larger than the number of notifications, so a waiter is
never passed by a full turn, and every start value makes the wrap happen. Three
rounds use both counters of the barrier and come back to the first. Three instants
and delays of 0 and 1 let a deadline be past, now or to come when the clock is read.
A stream of one byte makes every transfer partial; 3 bytes are the longest message
that always comes back over it, and 4 are one too many: that client may hang, because
neither side reads while it writes, and the other one must be served all the same. Its
2 bytes are below the limit of its streams. So the run shows that the limit cannot be
raised (with `Fits` one larger TLC finds the hanging client), and that the limit itself
is safe is the theorem `ServersNeverStall`; the instance with exactly 5 bytes over
streams of 2 has no error either (219516 states, four minutes), and is not kept as a run.
Two workers and three fibers let a stack
be released by one fiber while two others want one; the generator suspends and ends
in different turns of its fiber, on different workers.

**Fairness.** A thread that is inside a call goes on (weak fairness per thread),
critical sections and tasks end, executors and event loops run what they were given.
Nobody has to call Lock, Execute, Set or Join, and inputs of combinators and futures
of asynchronous continuations may stay pending. Exceptions: in `blocking_queue`
producers and consumers keep calling, since a queue whose producers have stopped
leaves consumers waiting by design; in `fibers` a running fiber gives the processor
away (cooperative scheduling) and pending operations end, with strong fairness
because their handlers run only between others; in `executors` time passes, up to
`MaxTime`. Clients of the echo servers go on but may vanish at any time, and a
routine may throw instead of going on. Where a component can take only finitely many
steps, fairness is stated for its threads together, as it makes no difference then
which of them is fair. Blocking on a mutex of the library
is weakly fair where it is contended finitely often.

**Mutants.** For every property of every passing run `PROJECT.json` names a planted
bug (a dropped guard, an off-by-one, a lost notification, a swapped order) under
which the property fails.

## 5. Proofs

Eight modules hold proofs, for every value of the constants. Each one states an
inductive invariant as a conjunction of named parts, shows that it holds initially
and that each action keeps it, and derives the properties from it.

* **MutexProofs**. `IInv` is TypeOK, exclusion (an owner implies `state_` is LOCKED,
  and there is one owner), `CounterCoversWaiters` (`waiting_counter_` is exactly the
  number of waiting threads) and `NoLostWakeup`. The last is not inductive alone:
  that Unlock may skip the notification when it reads 0 needs the exact count. From
  it follow `TypeCorrect`, `WakeupSafety`, `CounterExact` and `Refinement`
  (`Spec => ImplementsLock`). Assumption: finitely many threads, as the count is a
  cardinality.
* **TicketLockProofs**. `IInv` adds to `NoAbandonedTicket` the order of the tickets
  (`QueueOrder`) and what a TryLock between its two operations knows (`TryOrder`: what
  it loaded is at most the current owner's ticket, and is both counters' value if the
  lock has been free ever since). Results: `TypeCorrect`, `TicketAccount`, `Fifo`,
  `TryLockHonest`, `Refinement`. Tickets are bounded by `MaxTickets`, any natural
  number.
* **SharedStateProofs**. `IInv` says, for each value of `state_`, where both sides can
  be and where the result is. Results: `TypeCorrect`, `Delivery` (which contains that no
  VERIFY fails), `RaceFree`, `OnExecutor`, and `ResultNotLost`, the safety core of
  `ResultArrives`: when both sides and the executor are at rest, a result that was set
  and asked for has arrived. It needs that a consumer which sleeps after the producer's
  CAS is about to be notified (`Awaited`).
* **CondVarProofs**, about the condition variable and the barrier. `CondVarInv` adds
  to `NoLostNotification` who holds the mutex (`HolderKnown`), that the ticket is ahead
  of what a waiter has loaded by no more than the notifications made, which are fewer
  than the modulus (`NoWrap`), and that a waiter whose value is still current has only
  missed items whose notification is to come (`FreshTicket`). Result:
  `NotificationsKept`. `BarrierInv` says that some round is complete and the next is
  not: who has come to the next is counted at the present index, and as long as
  somebody has to leave the complete one, the other counter stays full. Without the
  last part a thread could be reset past; `BarrierHolds` follows. `NoSleeperLeftBehind` is the safety
  core of `AllLeave`: whoever sleeps in the barrier waits for somebody who has still to
  come to its round (`SleepersAreWaiting`). Assumptions:
  finitely many threads, fewer notifications than the modulus, at least one
  participant.
* **BlockingQueueProofs**. The three semaphores appear as counters and sets of
  sleepers; lemmas about Acquire and Release say what each does to them, whichever
  semaphore it is. `QueueInv` counts the threads at each place of Put and Take
  (`PlacesAddUp`): permits of one kind, elements and threads between the two
  semaphores add up to the capacity, and the mutex semaphore has one permit or one
  holder. Results: `QueueTypes`, `PermitsAreExact` (which is not inductive alone, as it
  says nothing of the order of the calls), and `QueueIsFifo`, the refinement: a push
  finds room because its thread holds a permit. `QueueNeverStalls` (`SomebodyAwake`: not
  all sleep at once) follows from the same account, with the place of every sleeper
  (`SleepersPlaced`): were all asleep, nobody would hold the mutex semaphore or be
  between two semaphores, so both kinds of permits would be used up by elements and free
  places alone, which cannot both be none. Assumptions: finitely many producers
  and consumers, no thread both, capacity at least 1.
* **PoolsProofs**, about the two pools. For `ThreadPool`, `PoolInv` says where a task
  is (the queue holds the accepted ones, each once; a worker's hand the one it runs),
  that the counters are the numbers of active and of executed tasks, and which tasks can
  be lost at which stage of the owner. `JoinIsGraceful` needs the count at the moment
  EverybodyHome returns: it is 0, so no task is under way, and only a client can submit
  another. `PoolNeverStalls` is the safety core of the pool's liveness
  (`NobodySleepsOverWork`). It is not inductive: `notify_one` wakes one sleeper per Put,
  so the invariant is a count, `WakeupsSuffice`: while anybody sleeps, the queue is not
  longer than the number of workers that will look at it. For `MtFibers`, `MtInv` has the place of every fiber
  (`FibersPlaced`, `FibersDone`), the lock, the stacks (`StacksHeld`: with one fiber or in
  the pool, and both only between `back()` and `pop_back()`), and `Chains`: from the
  coroutine that executes on a worker the callers lead back to the fiber that is the
  worker's task and to the worker, and `current_coroutine` is where the chain begins. A
  switch cuts one end of the chain off or adds to it, which is why it stays right.
  Results: `StacksAreOwned`, `CurrentIsExact`, `FibersAreJoined`. Assumptions: at least
  one worker each (with none a late task would stay in the queue), finitely many workers,
  tasks and routines, routines and generators are different, a stack for every fiber.
* **FuturesProofs**, about combinators, chains, timers, priorities and the strand. `CombineInv`
  relates the counters and flags of a combinator to the inputs its callbacks have seen
  (`FromInputs`, `AllInv`, `FirstOfInv`); the count of `All` reaches the number of
  inputs only when all have been seen, a count of different inputs. Result:
  `OutcomesAreRight`. `OutcomesAreGivenOut` is the converse: once the callbacks of all
  completed inputs have run, a combination whose outcome is known has it
  (`OutcomeGivenOut`, from `OutcomeKept`). `ChainInv` says that the executor a link has is the one of the
  last Via before it (`ExecutorsFollow`), that the links get their results in turn
  (`InTurn`), where a result comes from (`Passed`) and what a function ran for
  (`RanRight`). It rests on `CombineInv`, and on the fact that a future which
  has its result keeps it (`OutStays`). Result: `ChainsFlow`. `TimeInv` adds to `NeverEarly`
  that `now`, the clock the keeper has read, is never ahead of the clock; without it a
  grabbed timer could be early. `PriorityInv` adds to `LambdasCovered` that a submitted
  job is in exactly one place, the queue, a thread or the finished ones (`JobPlaces`):
  an addition to the queue then makes it longer by one, and what waits is in the queue,
  where the started job was highest. Every action keeps the count in balance: `Emplace`
  adds a job and an open call, `HandOver` turns the call into a lambda, `PopTop` takes a
  lambda and a job. Results: `NotEarly`, `LambdaFindsJob`, `PriorityOrder`. Assumptions:
  finitely many jobs, as the account counts them; natural priorities and delays; the
  markers of the history variables are not names of executors.
  For `Strand` the difficulty is the stack, a list in memory whose cells are reused.
  `PathUnique` shows that pointers lead along one path only, so that `OnStack` is any
  path one can exhibit: two paths agree at every distance from `head_`, since there is
  no least distance at which they differ. (The least element of a set of naturals,
  `LeastNumber`, takes the place of an induction rule, which the provers cannot
  instantiate.) `StrandInv` says that the path leads through allocated nodes, each once,
  that hold tasks (`Placed`), that the node of a Push under way is its own and not on the
  stack (`Prepared`), and that `is_scheduled_` tells whether there is a batch, with the
  caller that drains, in the executor's queue or at a thread, and only one (`OneBatch`).
  A CAS that meets an old address again is harmless: it succeeds only if the new node
  points to the present head, whatever happened in between. Result: `StrandRunsInOrder`
  (`StrandSpec => []InOrder`). Assumption: finitely many nodes.
* **FibersProofs**, about `FiberScheduler`, with addresses that are freed and reused,
  and `EchoServer`. `FibersInv` says that the queues have no repetitions and hold who they should
  (`Queues`), that a suspended fiber has exactly one reason to be, and one that is not
  suspended has none (`Reasons`), and that a handle knows its fiber and the fiber that
  waits in its Join, and they know it (`Watching`, `Joins`). `OnePlace` speaks of counts
  and is not inductive: that `OnCompleted` wakes a fiber which is suspended, and for
  this handle only, is `Joins`. Results: `FibersInOnePlace`, `JoinsAreKept`. Both
  assume `~LateDetach`: with a Detach after completion `OnePlace` does not hold. Under
  the same condition `RunLeavesOnlyWaiters`: when the loop has nothing left to do, who is
  left is in the wait queue or joins somebody who is left as well.
  `EchoInv` says that a message lies in order in the five places between its client's
  Write and Read (`InPieces`), unless the client has vanished, and what one side of a
  connection knows of the other (`Sides`): the server closes a connection that is not
  lost only when the client has shut its side down and nothing is left in stream and
  buffer. So at the end of the stream everything has come back. Result: `ServersEcho`,
  the refinement of `EchoPromise` by both servers, for messages, streams and buffers of
  any size. `ServersNeverStall` is the safety core of `EverythingComesBack`
  (`NoCircularWait`): if client and server waited for each other, both streams would be
  full and `rest` and the server's buffer would hold a byte each, which is more than a
  message that fits. TLC shows that the bound is sharp.

The type invariants are theorems (`TypeCorrect`, `QueueTypes`) or parts of the
inductive invariants.

Only model-checked: liveness (all properties with `~>`, `<>` or `[]<>`), which is
outside the prover's reach as it needs fairness and ENABLED. What of it is safety, that
nobody is left asleep with nobody to wake him, is proved for the mutex (`WakeupSafety`),
the condition variable (`NotificationsKept`), the barrier, the queue, the pool, the
shared state, the combinators, the fibers and the echo servers.

## 6. What is not modelled

* Parts left out: the spinlock in assembly (its protocol is the one of the spinlock in
  `MtFibers`, without the inner loop) and the context switch (machine code);
  the manual, inline and labelling executors (sequential forwarding); the exercises
  of `intro` (no component of their own).
* Object lifetime: destroying a mutex during Unlock or a pool from its own task
  (`PROJECT.json` lists both as hazards), or the priority executor that the executor
  returned by FixPriority refers to.
* A tinyfibers routine that throws: the trampoline ends the process with a PANIC
  (`src/tinyfibers/echo/tinyfibers/runtime/fiber.cpp:37`), there is no state after it.
  And the `no_buffer_space` arm of `ReadSome`, which reports that error as the end of the
  stream (`src/tinyfibers/echo/tinyfibers/net/socket.cpp:49`): the TCP of the model, which
  is external, never returns it.
* A Join of the thread pool on another thread while its owner cancels it
  (`blocking_queue.hpp:71`): one owner stops the pool.
* Memory allocation failures, and exceptions thrown by callbacks given to Subscribe
  directly. Exceptions of continuations, handlers and tasks are modelled.
* `BindToAvailablePort` and `GetPort` of the acceptor, which the servers do not call.
* A compiler that keeps the address of the thread-local `current_coroutine` across a
  context switch: the model reads and writes it on the thread it is on.
* Weak memory orders: the code does not use them.
* 64-bit wraparound of tickets, and a full turn of `ticket_` during one Wait.

## 7. Findings

* **A strand can leave a task behind** (`strand_lost_task`). The end of a batch tests
  `stack_.IsEmpty()` and then stores `is_scheduled_ = false`. A task pushed in between
  finds `is_scheduled_` true and nobody runs it until another task is submitted.
  `ScheduledBatchRunsAll` shows that the submission that next turns `is_scheduled_` on
  runs it after all.
* **All sets its promise twice** (`all_panic`) when the first error is also the last
  completion: after SetError the callback goes on to compare the counter and calls
  SetValue. The VERIFY in the promise aborts the process.
* **FirstOf of failures never completes** (`first_of_errors`), although the header
  promises "First value | last error".
* **An asynchronous Then does not propagate an error** (`async_then_error`). The
  callback on the inner future hands a failed Result to `SetValue`, which converts it to
  a value and throws. With a ready inner future, as when the input has failed, the outer
  catch sets a promise that was moved from and the VERIFY aborts the process; the comment
  says "Propagate error". `ChainCompletes` excepts this outcome until it is fixed.
