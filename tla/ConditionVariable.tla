------------------------- MODULE ConditionVariable --------------------------
(***************************************************************************)
(* src/condvar/condvar/condvar.hpp: a condition variable that is one       *)
(* atomic counter, ticket_, with atomic wait and notify.  One action per   *)
(* atomic operation.  It is driven the way condition variables are used:   *)
(* a notifier adds an item under the mutex and calls NotifyOne or          *)
(* NotifyAll, before or after it unlocks; a waiter calls Wait in a loop    *)
(* until it finds an item, and takes it.                                   *)
(*                                                                         *)
(* ticket_ is a uint32_t: it wraps at Modulus (2^32 in the code).  It may  *)
(* have any value when a behaviour begins, and fewer than Modulus          *)
(* notifications fit into one Wait.                                        *)
(*                                                                         *)
(* ticket_.notify_one unblocks a thread that is eligible by the C++        *)
(* standard: one that blocked on an older value than the present one.      *)
(***************************************************************************)
EXTENDS Naturals, FiniteSets

CONSTANTS Waiters, Notifiers,  \* the threads; each comes once
          Modulus,             \* 2^32, scaled down
          NoThread             \* the mutex is free

ASSUME CondVarAssumption ==
    /\ IsFiniteSet(Waiters) /\ IsFiniteSet(Notifiers) /\ Modulus \in Nat
    /\ Cardinality(Notifiers) < Modulus
    /\ Waiters \cap Notifiers = {} /\ NoThread \notin Waiters \cup Notifiers

Threads == Waiters \cup Notifiers

VARIABLES ticket,  \* ticket_
          mutex,   \* the holder of the mutex given to Wait (external)
          items,   \* what the waiters wait for
          pc,      \* control point of each thread
          seen     \* current_ticket of each waiter

vars == <<ticket, mutex, items, pc, seen>>

(***************************************************************************)
(* waiter:   "lock" "test" "load" "unlock" "wait" "blocked" "relock" "end" *)
(*           and "unlockLast", the unlock after it has taken an item       *)
(* notifier: "lock" "add", then either the notification under the mutex,   *)
(*           "bumpIn" "wakeIn" "unlockLast", or after it, "unlock"         *)
(*           "bumpOut" "wakeOut"; and "end"                                *)
(***************************************************************************)
PCs == {"lock", "test", "load", "unlock", "wait", "blocked", "relock", "end",
        "add", "bumpIn", "wakeIn", "bumpOut", "wakeOut", "unlockLast"}

TypeOK == /\ ticket \in 0..(Modulus - 1)
          /\ mutex \in Threads \cup {NoThread}
          /\ items \in Nat
          /\ pc \in [Threads -> PCs]
          /\ seen \in [Waiters -> 0..(Modulus - 1)]

Init == /\ ticket \in 0..(Modulus - 1)
        /\ mutex = NoThread
        /\ items = 0
        /\ pc = [t \in Threads |-> "lock"]
        /\ seen = [t \in Waiters |-> 0]

Goto(t, from, to) == pc[t] = from /\ pc' = [pc EXCEPT ![t] = to]

Acquire(t, from, to) == /\ mutex = NoThread /\ mutex' = t
                        /\ Goto(t, from, to)
                        /\ UNCHANGED <<ticket, items, seen>>

Release(t, from, to) == /\ mutex' = NoThread
                        /\ Goto(t, from, to)
                        /\ UNCHANGED <<ticket, items, seen>>

-----------------------------------------------------------------------------
(* The waiter's loop around Wait, and Wait *)

WaiterLocks(t) == Acquire(t, "lock", "test")

\* The caller's predicate: wait, or take an item and unlock
WaiterTests(t) == /\ \/ items = 0 /\ Goto(t, "test", "load") /\ UNCHANGED items
                     \/ /\ items > 0
                        /\ items' = items - 1
                        /\ Goto(t, "test", "unlockLast")
                  /\ UNCHANGED <<ticket, mutex, seen>>

WaitLoad(t) == /\ Goto(t, "load", "unlock")
               /\ seen' = [seen EXCEPT ![t] = ticket]
               /\ UNCHANGED <<ticket, mutex, items>>

WaitUnlock(t) == Release(t, "unlock", "wait")

\* ticket_.wait(current_ticket): compare and block
WaitBlocks(t) == /\ Goto(t, "wait", IF ticket = seen[t] THEN "blocked" ELSE "relock")
                 /\ UNCHANGED <<ticket, mutex, items, seen>>

WaitRelock(t) == Acquire(t, "relock", "test")

WaiterLeaves(t) == Release(t, "unlockLast", "end")

-----------------------------------------------------------------------------
(* The notifier, and NotifyOne / NotifyAll *)

NotifierLocks(t) == Acquire(t, "lock", "add")

NotifierAdds(t) == /\ items' = items + 1
                   /\ Goto(t, "add", "bumpIn") \/ Goto(t, "add", "unlock")
                   /\ UNCHANGED <<ticket, mutex, seen>>

NotifierUnlocks(t) == Release(t, "unlock", "bumpOut")

NotifierLeaves(t) == Release(t, "unlockLast", "end")

NextPc(p) == CASE p = "bumpIn"  -> "wakeIn"
               [] p = "bumpOut" -> "wakeOut"
               [] p = "wakeIn"  -> "unlockLast"
               [] p = "wakeOut" -> "end"

\* Planted bug: the counter is not moved
NotifyBumpLost(t) == /\ pc[t] \in {"bumpIn", "bumpOut"}
                     /\ pc' = [pc EXCEPT ![t] = NextPc(@)]
                     /\ UNCHANGED <<ticket, mutex, items, seen>>

NotifyBump(t) == /\ pc[t] \in {"bumpIn", "bumpOut"}
                 /\ pc' = [pc EXCEPT ![t] = NextPc(@)]
                 /\ ticket' = (ticket + 1) % Modulus
                 /\ UNCHANGED <<mutex, items, seen>>

Blocked == {t \in Waiters : pc[t] = "blocked"}

Eligible == {t \in Blocked : seen[t] # ticket}

\* Planted bug: a notification without the call that wakes
NotifyWakeNone(t) == /\ pc[t] \in {"wakeIn", "wakeOut"}
                     /\ pc' = [pc EXCEPT ![t] = NextPc(@)]
                     /\ UNCHANGED <<ticket, mutex, items, seen>>

\* notify_one: one eligible thread, if there is one; notify_all: all
NotifyWake(t) ==
    /\ pc[t] \in {"wakeIn", "wakeOut"}
    /\ \E W \in {{w} : w \in Eligible} \cup {Eligible} :
         pc' = [u \in Threads |-> IF u = t THEN NextPc(pc[t])
                                  ELSE IF u \in W THEN "wait" ELSE pc[u]]
    /\ UNCHANGED <<ticket, mutex, items, seen>>

-----------------------------------------------------------------------------
Waiter(t) == \/ WaiterLocks(t) \/ WaiterTests(t) \/ WaitLoad(t) \/ WaitUnlock(t)
             \/ WaitBlocks(t) \/ WaitRelock(t) \/ WaiterLeaves(t)

Notifier(t) == \/ NotifierLocks(t) \/ NotifierAdds(t) \/ NotifierUnlocks(t)
               \/ NotifyBump(t) \/ NotifyWake(t) \/ NotifierLeaves(t)

\* All notifiers are through; the waiters left over wait
Finished == /\ \A t \in Notifiers : pc[t] = "end"
            /\ \A t \in Waiters : pc[t] \in {"blocked", "end"}
            /\ UNCHANGED vars

Next == \/ \E t \in Waiters : Waiter(t)
        \/ \E t \in Notifiers : Notifier(t)
        \/ Finished

Spec == Init /\ [][Next]_vars

\* Every thread that can run does; the mutex is contended finitely often
FairSpec == /\ Spec
            /\ \A t \in Waiters : WF_vars(Waiter(t))
            /\ \A t \in Notifiers : WF_vars(Notifier(t))

-----------------------------------------------------------------------------
(* Properties *)

\* Threads that will look at the items without any further notification
Awake == {t \in Waiters : \/ pc[t] \in {"lock", "test", "relock"}
                          \/ pc[t] = "wait" /\ seen[t] # ticket}

\* Notifiers whose notification is still to come
Notifying == {t \in Notifiers : pc[t] \in {"unlock", "bumpIn", "wakeIn",
                                           "bumpOut", "wakeOut"}}

(***************************************************************************)
(* "the operation Wait is atomic indeed": no notification falls between    *)
(* the unlock and the sleep.  If a waiter sleeps, every item has an awake  *)
(* waiter or a pending notification to answer for it.                      *)
(***************************************************************************)
NoLostNotification ==
    Blocked # {} => items <= Cardinality(Awake) + Cardinality(Notifying)

(***************************************************************************)
(* In the end no item lies there while a waiter sleeps.                    *)
(***************************************************************************)
ItemsAreTaken == <>[](items = 0 \/ \A t \in Waiters : pc[t] = "end")
=============================================================================
