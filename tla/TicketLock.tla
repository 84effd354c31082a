----------------------------- MODULE TicketLock -----------------------------
(***************************************************************************)
(* src/mutex/try-lock/ticket_lock.hpp: a ticket lock with TryLock.  One    *)
(* action per atomic operation.  Tickets are size_t in the code; they are  *)
(* natural numbers here and MaxTickets bounds how many are handed out, so  *)
(* wraparound after 2^64 acquisitions is outside the model.                *)
(***************************************************************************)
EXTENDS Naturals

CONSTANTS Threads,     \* the threads that use the lock
          NoThread,    \* "nobody", for the refinement
          MaxTickets   \* bound: tickets handed out in a behaviour

ASSUME TicketAssumption == NoThread \notin Threads /\ MaxTickets \in Nat

VARIABLES next_free_ticket,  \* next_free_ticket_
          owner_ticket,      \* owner_ticket_
          pc,                \* the next atomic operation of each thread
          ticket,            \* this_thread_ticket, for t in Lock or holding
          seen,              \* the last owner_ticket_ t loaded (TryLock, Unlock)
          sawBusy            \* history: the lock was taken during t's TryLock

vars == <<next_free_ticket, owner_ticket, pc, ticket, seen, sawBusy>>

(***************************************************************************)
(* "idle" outside   "spin"   waiting in Lock    "cas"    in TryLock        *)
(* "cs"   holding   "store"  in Unlock, between its load and its store     *)
(***************************************************************************)
PCs == {"idle", "spin", "cas", "cs", "store"}

TypeOK == /\ next_free_ticket \in 0..MaxTickets
          /\ owner_ticket \in 0..MaxTickets
          /\ pc \in [Threads -> PCs]
          /\ ticket \in [Threads -> Nat]
          /\ seen \in [Threads -> Nat]
          /\ sawBusy \in [Threads -> BOOLEAN]

Init == /\ next_free_ticket = 0
        /\ owner_ticket = 0
        /\ pc = [t \in Threads |-> "idle"]
        /\ ticket = [t \in Threads |-> 0]
        /\ seen = [t \in Threads |-> 0]
        /\ sawBusy = [t \in Threads |-> FALSE]

Goto(t, from, to) == pc[t] = from /\ pc' = [pc EXCEPT ![t] = to]

\* Somebody holds the lock or waits for it
Busy == next_free_ticket # owner_ticket

\* The history variable follows every step
Observe == sawBusy' = [t \in Threads |->
               pc'[t] = "cas" /\ (Busy' \/ (pc[t] = "cas" /\ sawBusy[t]))]

-----------------------------------------------------------------------------
(* Lock() *)

LockTake(t) == /\ next_free_ticket < MaxTickets
               /\ Goto(t, "idle", "spin")
               /\ ticket' = [ticket EXCEPT ![t] = next_free_ticket]
               /\ next_free_ticket' = next_free_ticket + 1
               /\ UNCHANGED <<owner_ticket, seen>>

\* The load that ends the spin loop; the ones before it change nothing
LockEnter(t) == /\ ticket[t] = owner_ticket
                /\ Goto(t, "spin", "cs")
                /\ UNCHANGED <<next_free_ticket, owner_ticket, ticket, seen>>

-----------------------------------------------------------------------------
(* TryLock() *)

\* Planted bug: the wrong counter is loaded
TryLoadNext(t) == /\ next_free_ticket < MaxTickets
                  /\ Goto(t, "idle", "cas")
                  /\ seen' = [seen EXCEPT ![t] = next_free_ticket]
                  /\ UNCHANGED <<next_free_ticket, owner_ticket, ticket>>

TryLoad(t) == /\ owner_ticket < MaxTickets
              /\ Goto(t, "idle", "cas")
              /\ seen' = [seen EXCEPT ![t] = owner_ticket]
              /\ UNCHANGED <<next_free_ticket, owner_ticket, ticket>>

CasSucceeds(t) == /\ Goto(t, "cas", "cs")
                  /\ ticket' = [ticket EXCEPT ![t] = seen[t]]
                  /\ next_free_ticket' = seen[t] + 1
                  /\ UNCHANGED <<owner_ticket, seen>>

CasFails(t) == /\ Goto(t, "cas", "idle")
               /\ UNCHANGED <<next_free_ticket, owner_ticket, ticket, seen>>

\* Planted bug: compare_exchange_weak, which may fail without a reason
TryCasWeak(t) == (next_free_ticket = seen[t] /\ CasSucceeds(t)) \/ CasFails(t)

\* Planted bug: the ticket is taken before it is known to be the owner's
TryCasTakes(t) == \/ next_free_ticket = seen[t] /\ CasSucceeds(t)
                  \/ /\ next_free_ticket # seen[t] /\ Goto(t, "cas", "idle")
                     /\ next_free_ticket' = next_free_ticket + 1
                     /\ UNCHANGED <<owner_ticket, ticket, seen>>

TryCas(t) == \/ next_free_ticket = seen[t] /\ CasSucceeds(t)
             \/ next_free_ticket # seen[t] /\ CasFails(t)

-----------------------------------------------------------------------------
(* Unlock() *)

UnlockLoad(t) == /\ Goto(t, "cs", "store")
                 /\ seen' = [seen EXCEPT ![t] = owner_ticket]
                 /\ UNCHANGED <<next_free_ticket, owner_ticket, ticket>>

\* Planted bug: the lock is passed to the end of the queue
UnlockStoreLast(t) == /\ Goto(t, "store", "idle")
                      /\ owner_ticket' = next_free_ticket
                      /\ UNCHANGED <<next_free_ticket, ticket, seen>>

UnlockStore(t) == /\ Goto(t, "store", "idle")
                  /\ owner_ticket' = seen[t] + 1
                  /\ UNCHANGED <<next_free_ticket, ticket, seen>>

-----------------------------------------------------------------------------
\* What a thread does once it has called Lock, TryLock or Unlock, or to leave
\* its critical section
Step(t) == /\ LockEnter(t) \/ TryCas(t) \/ UnlockLoad(t) \/ UnlockStore(t)
           /\ Observe

Call(t) == (LockTake(t) \/ TryLoad(t)) /\ Observe

\* All tickets are used up and every thread is outside the lock
Terminated == /\ owner_ticket = MaxTickets
              /\ \A t \in Threads : pc[t] = "idle"
              /\ UNCHANGED vars

Next == (\E t \in Threads : Call(t) \/ Step(t)) \/ Terminated

Spec == Init /\ [][Next]_vars

\* Threads keep running and critical sections end; nobody has to call Lock
FairSpec == Spec /\ \A t \in Threads : WF_vars(Step(t))

-----------------------------------------------------------------------------
(* Properties *)

Holds(t) == pc[t] \in {"cs", "store"}

\* t has a ticket that Unlock() has not retired yet
InQueue(t) == pc[t] \in {"spin", "cs", "store"}

(***************************************************************************)
(* Lock() and a successful TryLock() give the lock to one thread at a      *)
(* time, whatever happened between TryLock()'s load and its CAS.           *)
(***************************************************************************)
Holder == IF \E t \in Threads : Holds(t)
          THEN CHOOSE t \in Threads : Holds(t)
          ELSE NoThread

L == INSTANCE ExclusiveAccess WITH owner <- Holder

ImplementsLock == L!Promise

(***************************************************************************)
(* Every ticket between owner_ticket_ and next_free_ticket_ belongs to     *)
(* exactly one thread: TryLock() never takes a ticket and walks away,      *)
(* which would block every later Lock() for good.                          *)
(***************************************************************************)
NoAbandonedTicket ==
    /\ \A k \in 0..MaxTickets : owner_ticket <= k /\ k < next_free_ticket
         => \E t \in Threads : InQueue(t) /\ ticket[t] = k
    /\ \A t, u \in Threads :
         InQueue(t) /\ InQueue(u) /\ ticket[t] = ticket[u] => t = u

(***************************************************************************)
(* First come, first served: a thread that gets the lock, by Lock() or by  *)
(* TryLock(), does not overtake a thread that already waits in Lock().     *)
(***************************************************************************)
EntersInOrder ==
    \A t, u \in Threads :
      ~Holds(t) /\ Holds(t)' /\ t # u /\ pc[u] = "spin"
        => pc[t] = "spin" /\ ticket[t] < ticket[u]

NoOvertaking == [][EntersInOrder]_vars

(***************************************************************************)
(* TryLock() gives up only if the lock was taken at some moment of the     *)
(* call: it never fails spuriously on a lock that stayed free.             *)
(***************************************************************************)
FailsOnBusyLock ==
    \A t \in Threads : pc[t] = "cas" /\ pc'[t] = "idle" => sawBusy[t]

FailureJustified == [][FailsOnBusyLock]_vars

(***************************************************************************)
(* Unlike Mutex, the ticket lock starves nobody: every Lock() call gets    *)
(* the lock, however often the others call Lock() and TryLock().           *)
(***************************************************************************)
StarvationFree == \A t \in Threads : pc[t] = "spin" ~> pc[t] = "cs"
=============================================================================
