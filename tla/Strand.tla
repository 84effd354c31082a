------------------------------- MODULE Strand -------------------------------
(***************************************************************************)
(* StrandExecutor over its LockFreeStack, src/futures/executors/await/     *)
(* executors/strand.cpp: Execute pushes a task on a Treiber stack, and     *)
(* whoever turns is_scheduled_ on takes the whole stack and hands it to    *)
(* the underlying executor as one batch.                                   *)
(*                                                                         *)
(* One action per atomic operation on head_ and is_scheduled_.  Nodes are  *)
(* heap addresses that the allocator gives out again after they were       *)
(* freed, so a CAS may meet an old address with a new task in it.  The     *)
(* nodes' pool_ in stack_ stays empty (only tasks_to_run.Pop feeds a pool, *)
(* its own), so Push always allocates.                                     *)
(*                                                                         *)
(* The underlying executor is external: a queue of batches and threads     *)
(* that run them (see ThreadPool).  A task is submitted once, by a client  *)
(* or by a task of the strand while it runs.                               *)
(***************************************************************************)
EXTENDS Naturals, FiniteSets, SequencesExt

CONSTANTS Clients,  \* threads that call Execute
          Workers,  \* threads of the underlying executor
          Tasks,    \* the tasks ever submitted
          Source,   \* Source[k]: the client or the task that submits task k
          Nodes,    \* heap addresses for StackNode
          Null

ASSUME StrandAssumption ==
    /\ Null \notin Nodes \cup Tasks /\ IsFiniteSet(Nodes)
    /\ Source \in [Tasks -> Clients \cup Tasks]

VARIABLES head,          \* stack_.head_
          next, data,    \* the fields of the nodes
          allocated,     \* the nodes in use
          is_scheduled,  \* is_scheduled_
          sub,           \* how far the call Execute(k) is
          node,          \* new_node of that call
          pool,          \* batches given to the underlying executor
          worker,        \* control point of each of its threads
          batch,         \* what is left of the batch the thread runs
          running,       \* the task the thread runs
          order,         \* history: tasks in the order of their pushes
          started        \* history: tasks in the order they were started

strandVars == <<head, next, data, allocated, is_scheduled, sub, node, pool,
                worker, batch, running, order, started>>
stack == <<head, next, data, allocated>>
workerVars == <<worker, batch, running>>

StrandTypeOK ==
    /\ head \in Nodes \cup {Null}
    /\ next \in [Nodes -> Nodes \cup {Null}]
    /\ data \in [Nodes -> Tasks \cup {Null}]
    /\ allocated \subseteq Nodes
    /\ is_scheduled \in BOOLEAN
    /\ sub \in [Tasks -> {"new", "load", "cas", "sched", "drain", "end"}]
    /\ node \in [Tasks -> Nodes \cup {Null}]
    /\ pool \in Seq(Seq(Tasks))
    /\ worker \in [Workers -> {"idle", "batch", "task", "clear", "drain"}]
    /\ batch \in [Workers -> Seq(Tasks)]
    /\ running \in [Workers -> Tasks \cup {Null}]
    /\ order \in Seq(Tasks) /\ started \in Seq(Tasks)

StrandInit ==
    /\ head = Null
    /\ next = [n \in Nodes |-> Null] /\ data = [n \in Nodes |-> Null]
    /\ allocated = {}
    /\ is_scheduled = FALSE
    /\ sub = [k \in Tasks |-> "new"]
    /\ node = [k \in Tasks |-> Null]
    /\ pool = <<>>
    /\ worker = [w \in Workers |-> "idle"]
    /\ batch = [w \in Workers |-> <<>>]
    /\ running = [w \in Workers |-> Null]
    /\ order = <<>> /\ started = <<>>

Goto(k, from, to) == sub[k] = from /\ sub' = [sub EXCEPT ![k] = to]
WGoto(w, from, to) == worker[w] = from /\ worker' = [worker EXCEPT ![w] = to]

\* The tasks that are inside Execute
Submitting == {k \in Tasks : sub[k] \notin {"new", "end"}}

-----------------------------------------------------------------------------
(* LockFreeStack *)

\* The pointers lead from head_ through the nodes of s, backwards, to nullptr
Linked(s) ==
    /\ IF s = <<>> THEN head = Null ELSE head = s[Len(s)] /\ next[s[1]] = Null
    /\ \A i \in 2..Len(s) : next[s[i]] = s[i - 1]

\* The nodes on the stack, the oldest first
OnStack == CHOOSE s \in SeqOf(Nodes, Cardinality(Nodes)) : Linked(s)

\* Their tasks
Chain == LET s == OnStack IN [i \in 1..Len(s) |-> data[s[i]]]

\* The nodes go back to the allocator; what is left in them is void
Free(freed) ==
    /\ allocated' = allocated \ freed
    /\ next' = [n \in Nodes |-> IF n \in freed THEN Null ELSE next[n]]
    /\ data' = [n \in Nodes |-> IF n \in freed THEN Null ELSE data[n]]

\* Execute(k) begins: Push allocates a node and fills it
PushAllocate(k) ==
    /\ \A j \in Submitting : Source[j] # Source[k]
    /\ Source[k] \in Tasks => \E w \in Workers : running[w] = Source[k]
    /\ Goto(k, "new", "load")
    /\ \E n \in Nodes \ allocated :
         /\ node' = [node EXCEPT ![k] = n]
         /\ allocated' = allocated \cup {n}
         /\ data' = [data EXCEPT ![n] = k]
    /\ UNCHANGED <<head, next, is_scheduled, pool, workerVars, order, started>>

PushLoad(k) ==
    /\ Goto(k, "load", "cas")
    /\ next' = [next EXCEPT ![node[k]] = head]
    /\ UNCHANGED <<head, data, allocated, is_scheduled, node, pool, workerVars,
                   order, started>>

PushCas(k) ==
    /\ sub[k] = "cas"
    /\ \/ /\ head = next[node[k]]
          /\ head' = node[k]
          /\ order' = Append(order, k)
          /\ sub' = [sub EXCEPT ![k] = "sched"]
          /\ node' = [node EXCEPT ![k] = Null]
       \/ /\ head # next[node[k]]
          /\ sub' = [sub EXCEPT ![k] = "load"]
          /\ UNCHANGED <<head, order, node>>
    /\ UNCHANGED <<next, data, allocated, is_scheduled, pool, workerVars, started>>

-----------------------------------------------------------------------------
(* StrandExecutor *)

\* Planted bug: the test and the set of is_scheduled_ are not one operation
ScheduleAlways(k) ==
    /\ Goto(k, "sched", "drain")
    /\ is_scheduled' = TRUE
    /\ UNCHANGED <<stack, node, pool, workerVars, order, started>>

Schedule(k) ==
    /\ Goto(k, "sched", IF is_scheduled THEN "end" ELSE "drain")
    /\ is_scheduled' = TRUE
    /\ UNCHANGED <<stack, node, pool, workerVars, order, started>>

(***************************************************************************)
(* ExecuteFirstStack: exchange the stack for an empty one, pop it into a   *)
(* vector that is run from the back (oldest first), free its nodes, and    *)
(* give the batch to the executor.  Only the exchange is visible to other  *)
(* threads, besides the start of the batch, which the executor may delay.  *)
(***************************************************************************)
TakeAll ==
    /\ pool' = Append(pool, Chain)
    /\ head' = Null
    /\ Free(Range(OnStack))
    /\ UNCHANGED <<is_scheduled, node, order, started>>

\* Planted bug: the caller that turned is_scheduled_ on does not go on
DrainByCallerLost(k) ==
    /\ Goto(k, "drain", "end")
    /\ UNCHANGED <<stack, is_scheduled, node, pool, workerVars, order, started>>

DrainByCaller(k) == Goto(k, "drain", "end") /\ TakeAll /\ UNCHANGED workerVars

DrainByWorker(w) ==
    WGoto(w, "drain", "idle") /\ TakeAll /\ UNCHANGED <<sub, batch, running>>

\* The executor starts a batch
BatchStarts(w) ==
    /\ pool # <<>>
    /\ WGoto(w, "idle", "batch")
    /\ batch' = [batch EXCEPT ![w] = Head(pool)]
    /\ pool' = Tail(pool)
    /\ UNCHANGED <<stack, is_scheduled, sub, node, running, order, started>>

TaskStarts(w) ==
    /\ batch[w] # <<>>
    /\ WGoto(w, "batch", "task")
    /\ running' = [running EXCEPT ![w] = Head(batch[w])]
    /\ batch' = [batch EXCEPT ![w] = Tail(@)]
    /\ started' = Append(started, Head(batch[w]))
    /\ UNCHANGED <<stack, is_scheduled, sub, node, pool, order>>

TaskEnds(w) ==
    /\ WGoto(w, "task", "batch")
    /\ \A k \in Submitting : Source[k] # running[w]
    /\ running' = [running EXCEPT ![w] = Null]
    /\ UNCHANGED <<stack, is_scheduled, sub, node, pool, batch, order, started>>

\* After the last task: is there more on the stack?
CheckEmpty(w) ==
    /\ batch[w] = <<>>
    /\ WGoto(w, "batch", IF head = Null THEN "clear" ELSE "drain")
    /\ UNCHANGED <<stack, is_scheduled, sub, node, pool, batch, running, order,
                   started>>

ClearScheduled(w) ==
    /\ WGoto(w, "clear", "idle")
    /\ is_scheduled' = FALSE
    /\ UNCHANGED <<stack, sub, node, pool, batch, running, order, started>>

-----------------------------------------------------------------------------
Submit(k) == PushLoad(k) \/ PushCas(k) \/ Schedule(k) \/ DrainByCaller(k)

Work(w) == \/ BatchStarts(w) \/ TaskStarts(w) \/ TaskEnds(w) \/ CheckEmpty(w)
           \/ ClearScheduled(w) \/ DrainByWorker(w)

\* Nobody is inside Execute and the executor has nothing to do
Quiet == /\ Submitting = {} /\ pool = <<>>
         /\ \A w \in Workers : worker[w] = "idle"
         /\ UNCHANGED strandVars

StrandNext == \/ \E k \in Tasks : PushAllocate(k) \/ Submit(k)
              \/ \E w \in Workers : Work(w)
              \/ Quiet

StrandSpec == StrandInit /\ [][StrandNext]_strandVars

(***************************************************************************)
(* Calls to Execute go on, tasks end, and the executor runs its batches.   *)
(* Strong fairness on the CAS loop is not needed: it fails only finitely   *)
(* often, as there are finitely many tasks.                                *)
(***************************************************************************)
FairStrandSpec == /\ StrandSpec
                  /\ \A k \in Tasks : WF_strandVars(Submit(k))
                  /\ \A w \in Workers : WF_strandVars(Work(w))

-----------------------------------------------------------------------------
(* Properties *)

ActiveWorkers == {w \in Workers : worker[w] # "idle"}

\* At most one batch exists, so no two tasks overlap.
NonConcurrent ==
    Cardinality(ActiveWorkers) + Len(pool)
      + Cardinality({k \in Tasks : sub[k] = "drain"}) <= 1

InBatch == IF pool # <<>> THEN Head(pool)
           ELSE IF ActiveWorkers # {} THEN batch[CHOOSE w \in ActiveWorkers : TRUE]
           ELSE <<>>

(***************************************************************************)
(* strand.hpp: "Strand executes (via underlying executor) tasks            *)
(* non-concurrently and in the order they were added".  Tasks start in the *)
(* order of their pushes, and none is lost, duplicated or overtaken,       *)
(* although node addresses come back: what was pushed is what was started, *)
(* then the one batch, then the stack.                                     *)
(***************************************************************************)
InOrder == NonConcurrent /\ order = started \o InBatch \o Chain

Added(k) == \E i \in 1..Len(order) : order[i] = k
Started(k) == \E i \in 1..Len(started) : started[i] = k

(***************************************************************************)
(* Whoever turns is_scheduled_ on runs everything added before, its own    *)
(* task and those that an earlier batch left behind.                       *)
(***************************************************************************)
ScheduledBatchRunsAll ==
    \A k \in Tasks : (Added(k) /\ \E j \in Tasks : sub[j] = "drain") ~> Started(k)

(***************************************************************************)
(* strand.hpp: "Strand executes (via underlying executor) tasks": a task   *)
(* that was added is executed, if the executor runs what it is given.      *)
(***************************************************************************)
AddedTasksRun == \A k \in Tasks : Added(k) ~> Started(k)
=============================================================================
