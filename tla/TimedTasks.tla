----------------------------- MODULE TimedTasks -----------------------------
(***************************************************************************)
(* Timers and the priority executor together, the way the futures library  *)
(* joins them: After(d).Via(priority->FixPriority(p)).Subscribe(job).  The *)
(* SetValue of the timer, or the Subscribe if that comes second, submits   *)
(* the job to the priority executor.  The jobs in Timers are submitted     *)
(* that way, the others directly.                                          *)
(***************************************************************************)
EXTENDS TimeKeeper, PriorityExecutor

ASSUME TimedAssumption == Timers \subseteq Jobs

timedVars == <<timeVars, priorityVars>>

TimedInit == TimeInit /\ PriorityInit

\* A client submits a job, directly or by a timer
Submits(k) == \/ k \notin Timers /\ Emplace(k) /\ UNCHANGED timeVars
              \/ /\ k \in Timers
                 /\ \E d \in Delays : ToDeadLine(k, d)
                 /\ UNCHANGED priorityVars

\* The callback of the timer's future: Execute of the executor given to Via
Continue(k) == /\ k \in Timers /\ timer[k] = "fired"
               /\ Emplace(k)
               /\ UNCHANGED timeVars

\* The rest of a call that has begun
Proceeds(k) == \/ Continue(k)
               \/ HandOver(k) /\ UNCHANGED timeVars
               \/ k \in Timers /\ AddTimer(k) /\ UNCHANGED priorityVars

KeeperStep(A) == A /\ UNCHANGED priorityVars

HoodRuns(h) == HoodStep(h) /\ UNCHANGED timeVars

\* All jobs have been submitted and have run, or their timers were dropped
AllSettled == /\ keeper = "gone" /\ stop = "joined" /\ queue = {} /\ lambdas = 0
              /\ \A h \in HoodThreads : doing[h] = NoJob
              /\ \A k \in Jobs : call[k] # "emplaced"
              /\ UNCHANGED timedVars

TimedNext == \/ \E k \in Jobs : Submits(k) \/ Proceeds(k)
             \/ \E h \in HoodThreads : HoodRuns(h)
             \/ KeeperStep(Tick) \/ KeeperStep(StopRequest)
             \/ KeeperStep(WorkRuns \/ StopJoin)
             \/ AllSettled

TimedSpec == TimedInit /\ [][TimedNext]_timedVars

-----------------------------------------------------------------------------
(* Properties *)

(***************************************************************************)
(* After(d) leads to its continuation: once the timer is queued, its job   *)
(* runs, however many jobs of higher priority come, unless the keeper is   *)
(* stopped first; and Stop() returns, also with timers in the queue.       *)
(***************************************************************************)
TimedJobsRun ==
    /\ \A k \in Timers : timer[k] = "queued" ~> k \in finished \/ stop = "joined"
    /\ stop = "requested" ~> stop = "joined"
=============================================================================
