--------------------------- MODULE BlockingQueue ----------------------------
(***************************************************************************)
(* src/condvar/semaphore/blocking_queue.hpp: a bounded MPMC queue built of *)
(* three semaphores and a deque.  The semaphores are instances of module   *)
(* Semaphore; each of their operations, and the access to buffer_, is an   *)
(* action.  Producers call Put and consumers call Take, forever.           *)
(***************************************************************************)
EXTENDS Naturals, Sequences, FiniteSets

CONSTANTS Producers, Consumers, Values, NoValue, capacity

ASSUME QueueAssumption == /\ IsFiniteSet(Producers) /\ IsFiniteSet(Consumers)
                          /\ Producers \cap Consumers = {}
                          /\ capacity \in Nat \ {0}
                          /\ NoValue \notin Values

Threads == Producers \cup Consumers

VARIABLES buffer,                          \* buffer_
          topNumber, topSleeping, topWoken,          \* bound_top_tokens_
          bottomNumber, bottomSleeping, bottomWoken, \* bound_bottom_tokens_
          lockNumber, lockSleeping, lockWoken,       \* queue_protector_
          pc,                              \* control point of each thread
          val,                             \* the value each producer puts
          returned                         \* the last value that was taken

Top == INSTANCE Semaphore WITH
         initial <- capacity, current_number <- topNumber,
         sleeping <- topSleeping, woken <- topWoken
Bottom == INSTANCE Semaphore WITH
         initial <- 0, current_number <- bottomNumber,
         sleeping <- bottomSleeping, woken <- bottomWoken
Lock == INSTANCE Semaphore WITH
         initial <- 1, current_number <- lockNumber,
         sleeping <- lockSleeping, woken <- lockWoken

top == <<topNumber, topSleeping, topWoken>>
bottom == <<bottomNumber, bottomSleeping, bottomWoken>>
lock == <<lockNumber, lockSleeping, lockWoken>>

vars == <<buffer, top, bottom, lock, pc, val, returned>>

\* "tokens": the first Acquire; "lock": Acquire of the protector; "access" to
\* the buffer; "unlock": Release of the protector; "signal": the last Release
PCs == {"idle", "tokens", "lock", "access", "unlock", "signal"}

TypeOK == /\ Top!TypeOK /\ Bottom!TypeOK /\ Lock!TypeOK
          /\ pc \in [Threads -> PCs]
          /\ val \in [Producers -> Values \cup {NoValue}]
          /\ buffer \in Seq(Values)
          /\ returned \in Values \cup {NoValue}

Init == /\ Top!Init /\ Bottom!Init /\ Lock!Init
        /\ buffer = <<>>
        /\ pc = [t \in Threads |-> "idle"]
        /\ val = [t \in Producers |-> NoValue]
        /\ returned = NoValue

Goto(t, from, to) == pc[t] = from /\ pc' = [pc EXCEPT ![t] = to]

-----------------------------------------------------------------------------
(* Put *)

PutCall(t, v) == /\ Goto(t, "idle", "tokens")
                 /\ val' = [val EXCEPT ![t] = v]
                 /\ UNCHANGED <<buffer, top, bottom, lock, returned>>

PutTokens(t) == /\ \/ Top!Acquire(t) /\ Goto(t, "tokens", "lock")
                   \/ Top!AcquireBlocks(t) /\ pc[t] = "tokens" /\ UNCHANGED pc
                /\ UNCHANGED <<buffer, bottom, lock, val, returned>>

PutPush(t) == /\ Goto(t, "access", "unlock")
              /\ buffer' = Append(buffer, val[t])
              /\ val' = [val EXCEPT ![t] = NoValue]
              /\ UNCHANGED <<top, bottom, lock, returned>>

PutSignal(t) == /\ Goto(t, "signal", "idle")
                /\ Bottom!Release
                /\ UNCHANGED <<buffer, top, lock, val, returned>>

-----------------------------------------------------------------------------
(* Take *)

TakeCall(t) == /\ Goto(t, "idle", "tokens")
               /\ UNCHANGED <<buffer, top, bottom, lock, val, returned>>

TakeTokens(t) == /\ \/ Bottom!Acquire(t) /\ Goto(t, "tokens", "lock")
                    \/ Bottom!AcquireBlocks(t) /\ pc[t] = "tokens" /\ UNCHANGED pc
                 /\ UNCHANGED <<buffer, top, lock, val, returned>>

\* Planted bug: the newest element is taken
TakePopBack(t) == /\ Goto(t, "access", "unlock")
                  /\ returned' = buffer[Len(buffer)]
                  /\ buffer' = SubSeq(buffer, 1, Len(buffer) - 1)
                  /\ UNCHANGED <<top, bottom, lock, val>>

TakePop(t) == /\ Goto(t, "access", "unlock")
              /\ returned' = Head(buffer)
              /\ buffer' = Tail(buffer)
              /\ UNCHANGED <<top, bottom, lock, val>>

\* Planted bug: the room that was made is not announced
TakeSignalLost(t) == /\ Goto(t, "signal", "idle")
                     /\ UNCHANGED <<buffer, top, bottom, lock, val, returned>>

TakeSignal(t) == /\ Goto(t, "signal", "idle")
                 /\ Top!Release
                 /\ UNCHANGED <<buffer, bottom, lock, val, returned>>

-----------------------------------------------------------------------------
(* Both *)

\* Planted bug: Put and Take access the buffer without the protector
ProtectSkipped(t) == /\ Goto(t, "lock", "access")
                     /\ UNCHANGED <<buffer, top, bottom, lock, val, returned>>

Protect(t) == /\ \/ Lock!Acquire(t) /\ Goto(t, "lock", "access")
                 \/ Lock!AcquireBlocks(t) /\ pc[t] = "lock" /\ UNCHANGED pc
              /\ UNCHANGED <<buffer, top, bottom, val, returned>>

Unprotect(t) == /\ Goto(t, "unlock", "signal")
                /\ Lock!Release
                /\ UNCHANGED <<buffer, top, bottom, val, returned>>

SpuriousWakeup ==
    /\ \/ Top!SpuriousWakeup /\ UNCHANGED <<bottom, lock>>
       \/ Bottom!SpuriousWakeup /\ UNCHANGED <<top, lock>>
       \/ Lock!SpuriousWakeup /\ UNCHANGED <<top, bottom>>
    /\ UNCHANGED <<buffer, pc, val, returned>>

-----------------------------------------------------------------------------
Step(t) == \/ Protect(t) \/ Unprotect(t)
           \/ t \in Producers /\ (PutTokens(t) \/ PutPush(t) \/ PutSignal(t))
           \/ t \in Consumers /\ (TakeTokens(t) \/ TakePop(t) \/ TakeSignal(t))

Call(t) == \/ t \in Producers /\ \E v \in Values : PutCall(t, v)
           \/ t \in Consumers /\ TakeCall(t)

Next == (\E t \in Threads : Call(t) \/ Step(t)) \/ SpuriousWakeup

Spec == Init /\ [][Next]_vars

(***************************************************************************)
(* Calls go on once begun, and producers and consumers keep calling: a     *)
(* queue whose producers stop leaves its consumers waiting by design.      *)
(***************************************************************************)
FairSpec == Spec /\ \A t \in Threads : WF_vars(Call(t)) /\ WF_vars(Step(t))

-----------------------------------------------------------------------------
(* Properties *)

(***************************************************************************)
(* The queue is a bounded FIFO: push_back never exceeds the capacity,      *)
(* front() and pop_front() never meet an empty deque, elements leave in    *)
(* the order they came.                                                    *)
(***************************************************************************)
Fifo == INSTANCE BoundedFifo WITH queue <- buffer

ImplementsFifo == Fifo!Spec

\* Some thread sleeps although there is a permit that no woken thread will see
LostPermit(semaphore) == LET number == semaphore[1]
                             sleeping == semaphore[2]
                             woken == semaphore[3]
                         IN  sleeping # {} /\ number > Cardinality(woken)

(***************************************************************************)
(* The semaphores, the buffer and the calls under way agree: free places,  *)
(* elements and operations add up to the capacity, elements are never      *)
(* promised twice, and the protector lets one thread at a time at the      *)
(* buffer, which is a plain deque.  Nobody sleeps on one of the three      *)
(* semaphores while it has more permits than woken threads to take them.   *)
(***************************************************************************)
At(points, group) == Cardinality({t \in group : pc[t] \in points})

PermitsAddUp ==
    /\ topNumber + bottomNumber
         + At({"lock", "access", "unlock", "signal"}, Threads) = capacity
    /\ Len(buffer) = bottomNumber + At({"unlock", "signal"}, Producers)
                                  + At({"lock", "access"}, Consumers)
    /\ lockNumber + At({"access", "unlock"}, Threads) = 1
    /\ ~LostPermit(top) /\ ~LostPermit(bottom) /\ ~LostPermit(lock)

(***************************************************************************)
(* Data flows: elements are put and taken again and again; producers and   *)
(* consumers never all wait for one another.                               *)
(***************************************************************************)
DataFlows == /\ []<>(\E t \in Producers : pc[t] = "signal")
             /\ []<>(\E t \in Consumers : pc[t] = "signal")
=============================================================================
