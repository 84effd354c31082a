--------------------------- MODULE CyclicBarrier ----------------------------
(***************************************************************************)
(* src/condvar/barrier/cyclic_barrier.hpp: a reusable barrier with two     *)
(* counters used in turn, so that a thread which is slow to leave one      *)
(* round still finds that round's counter full while the next fills up.    *)
(* Arrive runs under mutex_: one action up to the wait, one per wakeup.    *)
(* participants_ is the number of threads that use the barrier.            *)
(***************************************************************************)
EXTENDS Naturals, FiniteSets

CONSTANTS Participants,  \* the threads
          MaxRounds      \* bound: how often each of them arrives

ASSUME BarrierAssumption ==
    IsFiniteSet(Participants) /\ Participants # {} /\ MaxRounds \in Nat

participants == Cardinality(Participants)

VARIABLES index,            \* index_
          to_wait_counter,  \* to_wait_counter_
          arrival,          \* a thread is "out", "asleep" in wait, or "woken"
          slot,             \* the counter that t's current_counter refers to
          round             \* history: how many times t has arrived

barrierVars == <<index, to_wait_counter, arrival, slot, round>>

BarrierTypeOK == /\ index \in {0, 1}
                 /\ to_wait_counter \in [{0, 1} -> 0..participants]
                 /\ arrival \in [Participants -> {"out", "asleep", "woken"}]
                 /\ slot \in [Participants -> {0, 1}]
                 /\ round \in [Participants -> 0..MaxRounds]

BarrierInit == /\ index = 0
               /\ to_wait_counter = [i \in {0, 1} |-> 0]
               /\ arrival = [t \in Participants |-> "out"]
               /\ slot = [t \in Participants |-> 0]
               /\ round = [t \in Participants |-> 0]

-----------------------------------------------------------------------------
(* Arrive *)

Enters(t) == /\ arrival[t] = "out" /\ round[t] < MaxRounds
             /\ round' = [round EXCEPT ![t] = @ + 1]
             /\ slot' = [slot EXCEPT ![t] = index]

\* Others are still to come: wait
ArriveWait(t) ==
    /\ Enters(t)
    /\ to_wait_counter[index] + 1 # participants
    /\ to_wait_counter' = [to_wait_counter EXCEPT ![index] = @ + 1]
    /\ arrival' = [arrival EXCEPT ![t] = "asleep"]
    /\ UNCHANGED index

NotifyAll == arrival' = [u \in Participants |->
                           IF arrival[u] = "asleep" THEN "woken" ELSE arrival[u]]

\* Planted bug: one counter for all rounds, reset by the last to arrive
ArriveLastReset(t) ==
    /\ Enters(t)
    /\ to_wait_counter[index] + 1 = participants
    /\ to_wait_counter' = [to_wait_counter EXCEPT ![index] = 0]
    /\ NotifyAll
    /\ UNCHANGED index

\* The last participant: switch to the other counter, clear it, notify_all
ArriveLast(t) ==
    /\ Enters(t)
    /\ to_wait_counter[index] + 1 = participants
    /\ index' = 1 - index
    /\ to_wait_counter' = [to_wait_counter EXCEPT ![index] = @ + 1,
                                                  ![1 - index] = 0]
    /\ NotifyAll

\* Planted bug: the wait has no predicate, any wakeup ends it
RecheckNever(t) ==
    /\ arrival[t] = "woken"
    /\ arrival' = [arrival EXCEPT ![t] = "out"]
    /\ UNCHANGED <<index, to_wait_counter, slot, round>>

\* A woken thread evaluates the predicate of its wait
Recheck(t) ==
    /\ arrival[t] = "woken"
    /\ arrival' = [arrival EXCEPT ![t] =
                     IF to_wait_counter[slot[t]] = participants THEN "out" ELSE "asleep"]
    /\ UNCHANGED <<index, to_wait_counter, slot, round>>

\* The condition variable wakes a thread for no reason
WakesSpuriously(t) ==
    /\ arrival[t] = "asleep"
    /\ arrival' = [arrival EXCEPT ![t] = "woken"]
    /\ UNCHANGED <<index, to_wait_counter, slot, round>>

-----------------------------------------------------------------------------
\* Everybody is through the last round
BarrierOver == /\ \A t \in Participants : arrival[t] = "out" /\ round[t] = MaxRounds
               /\ UNCHANGED barrierVars

BarrierNext ==
    \/ \E t \in Participants :
         ArriveWait(t) \/ ArriveLast(t) \/ Recheck(t) \/ WakesSpuriously(t)
    \/ BarrierOver

BarrierSpec == BarrierInit /\ [][BarrierNext]_barrierVars

-----------------------------------------------------------------------------
(* Properties *)

(***************************************************************************)
(* "Blocks until all participants have invoked Arrive()": when a thread is *)
(* out of its r-th Arrive(), every thread has arrived at least r times,    *)
(* so nobody is ever more than one round ahead.                            *)
(***************************************************************************)
NobodyLeavesEarly ==
    \A t, u \in Participants : arrival[t] = "out" => round[t] <= round[u]

(***************************************************************************)
(* When all have arrived, all leave: no sleeper of a complete round is     *)
(* left behind, also when the fast threads reuse the barrier at once.  A   *)
(* woken thread runs; nobody has to come to the barrier again.             *)
(***************************************************************************)
AllLeave ==
    \A t \in Participants :
      arrival[t] # "out" /\ (\A u \in Participants : round[t] <= round[u])
        ~> arrival[t] = "out"
=============================================================================
