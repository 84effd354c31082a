---------------------------- MODULE MCExecutors -----------------------------
(***************************************************************************)
(* A future's contract with its promise, and the executors that its        *)
(* callbacks may be given to, checked by TLC: the shared state, the        *)
(* strand, and the priority executor with the timers that feed it.  They   *)
(* share nothing: one of them moves in a behaviour, the others stay in     *)
(* their initial states.                                                   *)
(***************************************************************************)
EXTENDS MCStrand, TimedTasks, SharedState

CONSTANTS j1, j2, j3

MCPriority == [k \in {j1, j2, j3} |-> IF k = j2 THEN 2 ELSE 1]

VARIABLE part   \* "contract", "strand" or "priority"

executorVars == <<part, vars, strandVars, timedVars>>

ExecutorsInit == /\ part \in {"contract", "strand", "priority"}
                 /\ Init /\ StrandInit /\ TimedInit

ContractStep(A) == /\ part = "contract"
                   /\ A
                   /\ UNCHANGED <<part, strandVars, timedVars>>

StrandStep(A) == part = "strand" /\ A /\ UNCHANGED <<part, vars, timedVars>>

PriorityStep(A) == part = "priority" /\ A /\ UNCHANGED <<part, vars, strandVars>>

(***************************************************************************)
(* The fairness of SharedState's FairSpec; and time passes, the keeper's   *)
(* thread and the threads of both underlying executors run, and calls go   *)
(* on once begun.  With finitely many jobs it makes no difference which    *)
(* call or which thread of the hood is fair.                               *)
(***************************************************************************)
ExecutorsSpec ==
    /\ ExecutorsInit
    /\ [][\/ ContractStep(Next)
          \/ StrandStep(StrandNext)
          \/ PriorityStep(TimedNext)]_executorVars
    /\ WF_executorVars(ContractStep(ProducerStep \/ Take("producer")))
    /\ WF_executorVars(ContractStep(ConsumerStep \/ Take("consumer")))
    /\ WF_executorVars(ContractStep(ExecutorRuns))
    /\ \A k \in Tasks : WF_executorVars(StrandStep(Submit(k)))
    /\ \A w \in Workers : WF_executorVars(StrandStep(Work(w)))
    /\ WF_executorVars(PriorityStep(\E k \in Jobs : Proceeds(k)))
    /\ WF_executorVars(PriorityStep(\E h \in HoodThreads : HoodRuns(h)))
    /\ WF_executorVars(PriorityStep(KeeperStep(Tick)))
    /\ WF_executorVars(PriorityStep(KeeperStep(WorkRuns \/ StopJoin)))
=============================================================================
