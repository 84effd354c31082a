----------------------------- MODULE TimeKeeper -----------------------------
(***************************************************************************)
(* TimeKeeper, src/futures/futures/await/time/time_keeper.hpp: one thread  *)
(* polls a queue of timers every 10 ms and completes the promises of those *)
(* that are due, outside the lock.  After(d) reads the clock, then takes   *)
(* the lock to add the timer.                                              *)
(*                                                                         *)
(* One action per critical section, SetValue and access to the clock or to *)
(* stop_requested_.  steady_clock is external: it counts up, also between  *)
(* any two steps of the others.  The sleep of 10 ms is the time that may   *)
(* pass before the next step.                                              *)
(***************************************************************************)
EXTENDS Naturals, Sequences, FiniteSets

CONSTANTS Timers,   \* the calls of After
          Delays,   \* their arguments
          MaxTime   \* bound: how far the clock runs

ASSUME TimersAssumption ==
    IsFiniteSet(Timers) /\ Delays \subseteq Nat /\ MaxTime \in Nat

VARIABLES clock,     \* what Clock::now() returns
          deadline,  \* deadline_ of each timer
          timer,     \* where each timer is
          keeper,    \* control point of the worker thread
          now,       \* the local variable of GrabReadyTimers, 0 outside it
          ready,     \* the promises PollTimerQueue has still to complete
          stop       \* how far Stop is: "no", "requested" or "joined"

timeVars == <<clock, deadline, timer, keeper, now, ready, stop>>

\* A timer whose keeper is gone stays "queued": its promise is dropped
TimeTypeOK ==
    /\ clock \in 0..MaxTime /\ now \in 0..MaxTime
    /\ deadline \in [Timers -> 0..MaxTime]
    /\ timer \in [Timers -> {"unset", "adding", "queued", "ready", "fired"}]
    /\ keeper \in {"check", "grab", "fire", "gone"}
    /\ ready \in Seq(Timers)
    /\ stop \in {"no", "requested", "joined"}

TimeInit == /\ clock = 0 /\ now = 0
            /\ deadline = [t \in Timers |-> 0]
            /\ timer = [t \in Timers |-> "unset"]
            /\ keeper = "check"
            /\ ready = <<>>
            /\ stop = "no"

Moves(t, from, to) == timer[t] = from /\ timer' = [timer EXCEPT ![t] = to]

KeeperGoto(from, to) == keeper = from /\ keeper' = to

Tick == /\ clock < MaxTime
        /\ clock' = clock + 1
        /\ UNCHANGED <<deadline, timer, keeper, now, ready, stop>>

-----------------------------------------------------------------------------
(* After(d); nobody calls it on a keeper that is being destroyed *)

ToDeadLine(t, d) == /\ stop = "no"
                    /\ clock + d <= MaxTime
                    /\ Moves(t, "unset", "adding")
                    /\ deadline' = [deadline EXCEPT ![t] = clock + d]
                    /\ UNCHANGED <<clock, keeper, now, ready, stop>>

AddTimer(t) == /\ Moves(t, "adding", "queued")
               /\ UNCHANGED <<clock, deadline, keeper, now, ready, stop>>

-----------------------------------------------------------------------------
(* Work, on the keeper's thread *)

\* Planted bug: the thread does not look at stop_requested_ again
WorkForever == /\ KeeperGoto("check", "grab")
               /\ now' = clock
               /\ UNCHANGED <<clock, deadline, timer, ready, stop>>

\* The test of the loop, and `now' at the beginning of GrabReadyTimers
WorkChecks == /\ \/ stop = "no" /\ KeeperGoto("check", "grab") /\ now' = clock
                 \/ stop # "no" /\ KeeperGoto("check", "gone") /\ UNCHANGED now
              /\ UNCHANGED <<clock, deadline, timer, ready, stop>>

\* The ways to pop the timers in S, earliest deadline first
PopOrders(S) == {s \in [1..Cardinality(S) -> S] :
                   \A i, j \in DOMAIN s :
                     i < j => s[i] # s[j] /\ deadline[s[i]] <= deadline[s[j]]}

\* Planted bug: one timer too many, the first that is not due yet
DueInclusive == {t \in Timers : timer[t] = "queued" /\ deadline[t] <= now + 1}

Due == {t \in Timers : timer[t] = "queued" /\ deadline[t] <= now}

\* The loop of GrabReadyTimers, under mutex_
GrabReadyTimers ==
    /\ KeeperGoto("grab", "fire")
    /\ ready' \in PopOrders(Due)
    /\ timer' = [t \in Timers |-> IF t \in Due THEN "ready" ELSE timer[t]]
    /\ now' = 0
    /\ UNCHANGED <<clock, deadline, stop>>

\* std::move(p).SetValue({}) for the next promise
Fire == /\ keeper = "fire" /\ ready # <<>>
        /\ Moves(Head(ready), "ready", "fired")
        /\ ready' = Tail(ready)
        /\ UNCHANGED <<clock, deadline, keeper, now, stop>>

\* The end of the poll, and the sleep
PollEnds == /\ ready = <<>>
            /\ KeeperGoto("fire", "check")
            /\ UNCHANGED <<clock, deadline, timer, now, ready, stop>>

WorkRuns == WorkChecks \/ GrabReadyTimers \/ Fire \/ PollEnds

-----------------------------------------------------------------------------
(* Stop, from the destructor *)

StopRequest == /\ stop = "no"
               /\ \A t \in Timers : timer[t] # "adding"
               /\ stop' = "requested"
               /\ UNCHANGED <<clock, deadline, timer, keeper, now, ready>>

StopJoin == /\ stop = "requested" /\ keeper = "gone"
            /\ stop' = "joined"
            /\ UNCHANGED <<clock, deadline, timer, keeper, now, ready>>

-----------------------------------------------------------------------------
(* Properties *)

(***************************************************************************)
(* The future of After(d) completes d after the call or later, never       *)
(* earlier: `now' is older than the moment of SetValue, and the deadline   *)
(* was computed before the timer was visible to the keeper.                *)
(***************************************************************************)
NeverEarly == \A t \in Timers : timer[t] \in {"ready", "fired"} => deadline[t] <= clock
=============================================================================
