-------------------------- MODULE PriorityExecutor --------------------------
(***************************************************************************)
(* PriorityExecutorImpl, src/futures/executors/await/executors/            *)
(* priority.cpp (and its copy under src/futures/futures): Execute puts the *)
(* task into a priority queue under mutex_ and then gives the underlying   *)
(* executor a lambda that takes the first task out and runs it.  A lambda  *)
(* is not tied to the task it was made for.                                *)
(*                                                                         *)
(* One action per critical section and per call across an executor.  The   *)
(* underlying executor hood_ptr_ is external: it starts every lambda it    *)
(* was given once, on one of its threads.                                  *)
(***************************************************************************)
EXTENDS Naturals, FiniteSets

CONSTANTS Jobs,         \* the tasks, each submitted at most once
          NoJob,
          Priority,     \* Priority[k]: what FixPriority or Execute is given for k
          HoodThreads   \* the threads of the underlying executor

ASSUME PriorityAssumption ==
    /\ IsFiniteSet(Jobs) /\ NoJob \notin Jobs
    /\ Priority \in [Jobs -> Nat]

VARIABLES queue,     \* queue_: the jobs in it
          call,      \* how far Execute(priority, job) is
          lambdas,   \* hood_ptr_: lambdas given to it and not yet started
          doing,     \* the job each thread of the hood runs, in the lambda
          finished   \* history: the jobs that have run

priorityVars == <<queue, call, lambdas, doing, finished>>

PriorityTypeOK == /\ queue \subseteq Jobs
                  /\ call \in [Jobs -> {"none", "emplaced", "returned"}]
                  /\ lambdas \in Nat
                  /\ doing \in [HoodThreads -> Jobs \cup {NoJob}]
                  /\ finished \subseteq Jobs

PriorityInit == /\ queue = {}
                /\ call = [k \in Jobs |-> "none"]
                /\ lambdas = 0
                /\ doing = [h \in HoodThreads |-> NoJob]
                /\ finished = {}

-----------------------------------------------------------------------------
(* Execute(Priority[k], k), by any thread *)

\* Planted bug: the lambda goes out first, the job into the queue afterwards
EmplaceLate(k) == /\ call[k] = "none"
                  /\ call' = [call EXCEPT ![k] = "emplaced"]
                  /\ lambdas' = lambdas + 1
                  /\ UNCHANGED <<queue, doing, finished>>

\* queue_.emplace under mutex_
Emplace(k) == /\ call[k] = "none"
              /\ call' = [call EXCEPT ![k] = "emplaced"]
              /\ queue' = queue \cup {k}
              /\ UNCHANGED <<lambdas, doing, finished>>

\* hood_ptr_->Execute(lambda)
HandOver(k) == /\ call[k] = "emplaced"
               /\ call' = [call EXCEPT ![k] = "returned"]
               /\ lambdas' = lambdas + 1
               /\ UNCHANGED <<queue, doing, finished>>

-----------------------------------------------------------------------------
(* The lambda, on thread h of the hood *)

\* Planted bug: the comparator is the wrong way round
Lowest == {k \in queue : \A j \in queue : Priority[k] <= Priority[j]}

\* The jobs queue_.top() may return: the heap keeps no order among equals
Highest == {k \in queue : \A j \in queue : Priority[j] <= Priority[k]}

\* A free thread starts a lambda, which calls queue_.top() and queue_.pop()
\* under mutex_; they are undefined on an empty queue
PopTop(h) == /\ doing[h] = NoJob /\ lambdas > 0
             /\ lambdas' = lambdas - 1
             /\ \E k \in Highest : /\ queue' = queue \ {k}
                                   /\ doing' = [doing EXCEPT ![h] = k]
             /\ UNCHANGED <<call, finished>>

\* task() returns
JobEnds(h) == /\ doing[h] # NoJob
              /\ finished' = finished \cup {doing[h]}
              /\ doing' = [doing EXCEPT ![h] = NoJob]
              /\ UNCHANGED <<queue, call, lambdas>>

HoodStep(h) == PopTop(h) \/ JobEnds(h)

-----------------------------------------------------------------------------
(* Properties *)

(***************************************************************************)
(* Every lambda that the hood holds finds a job: the queue has one for     *)
(* each of them, and one for each Execute() that is between its critical   *)
(* section and its call of the hood.  So top() and pop() never meet an     *)
(* empty queue, although jobs and lambdas are not paired, and when all     *)
(* lambdas have run, no job is left.                                       *)
(***************************************************************************)
LambdasCovered ==
    Cardinality(queue) = lambdas + Cardinality({k \in Jobs : call[k] = "emplaced"})

\* Execute(k) has returned, and k has not been started
Waits(k) == /\ call[k] = "returned" /\ k \notin finished
            /\ \A h \in HoodThreads : doing[h] # k

(***************************************************************************)
(* "Higher-priority tasks first!": a job that starts has the highest       *)
(* priority of all jobs whose Execute() has returned; and no job starts    *)
(* twice.                                                                  *)
(***************************************************************************)
StartsHighest ==
    \A h \in HoodThreads : doing[h] = NoJob /\ doing'[h] # NoJob =>
      /\ \A k \in Jobs : Waits(k) => Priority[k] <= Priority[doing'[h]]
      /\ doing'[h] \notin finished
      /\ \A g \in HoodThreads : doing[g] # doing'[h]

HigherFirst == [][StartsHighest]_priorityVars
=============================================================================
