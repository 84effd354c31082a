------------------------------ MODULE MCPools -------------------------------
(***************************************************************************)
(* The two thread pools, checked by TLC: ThreadPool with two clients and a *)
(* task that submits another task, and MtFibers, the pool over asio with   *)
(* the fibers that are its tasks: two fibers of the main thread, one with  *)
(* a generator that spawns a third.  They share nothing: one of them moves *)
(* in a behaviour, the other stays in its initial state.                   *)
(***************************************************************************)
EXTENDS ThreadPool, MtFibers

CONSTANTS c1, c2, a, b, x, child, r1, r2, r3, g

MCSource == [k \in {a, b, x, child} |->
               CASE k \in {a, x} -> c1 [] k = b -> c2 [] k = child -> a]

MCParent == [c \in {r1, r2, r3, g} |->
               CASE c \in {r1, r2} -> Main [] c = r3 -> g [] c = g -> r1]

VARIABLE kind   \* "tasks" or "fibers"

poolsVars == <<kind, vars, mtVars>>

PoolsInit == kind \in {"tasks", "fibers"} /\ Init /\ MtInit

TasksStep(A) == kind = "tasks" /\ A /\ UNCHANGED <<kind, mtVars>>

FibersStep(A) == kind = "fibers" /\ A /\ UNCHANGED <<kind, vars>>

(***************************************************************************)
(* The fairness of ThreadPool's FairSpec; and the workers of the other     *)
(* pool run, and the Join that waits for them returns.  A routine suspends *)
(* only so often, so it makes no difference which of the workers is fair.  *)
(***************************************************************************)
PoolsSpec ==
    /\ PoolsInit
    /\ [][TasksStep(Next) \/ FibersStep(MtNext)]_poolsVars
    /\ \A k \in Tasks : WF_poolsVars(TasksStep(Submit(k)))
    /\ \A w \in Workers : WF_poolsVars(TasksStep(Work(w)))
    /\ WF_poolsVars(TasksStep(Stopping))
    /\ WF_poolsVars(FibersStep(JoinEnds \/ \E w \in PoolThreads : WorkerSteps(w)))
=============================================================================
