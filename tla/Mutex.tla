------------------------------- MODULE Mutex --------------------------------
(***************************************************************************)
(* src/mutex/mutex/mutex.hpp: a mutex over an atomic word `state_', with   *)
(* atomic wait/notify (futex) and a count of waiting threads that lets     *)
(* Unlock skip the notification.  One action per atomic operation.         *)
(*                                                                         *)
(* atomic::wait(LOCKED) is modelled by its definition: compare, and block  *)
(* if equal; a notified thread compares again.  notify_one picks any       *)
(* blocked thread.  Threads call Lock and Unlock alternately, forever.     *)
(***************************************************************************)
EXTENDS Naturals, FiniteSets

CONSTANTS Threads,   \* the threads that use the mutex
          NoThread   \* "nobody", for the refinement

ASSUME ThreadsAssumption == IsFiniteSet(Threads) /\ NoThread \notin Threads

UNLOCKED == 0
LOCKED   == 1

VARIABLES state,            \* state_
          waiting_counter,  \* waiting_counter_
          pc                \* the next atomic operation of each thread

vars == <<state, waiting_counter, pc>>

(***************************************************************************)
(* "idle"    outside            "cs"      after Lock(), before Unlock()    *)
(* "add"     fetch_add(1)       "check"   waiting_counter_ > 0             *)
(* "wait"    compare in wait    "notify"  notify_one                       *)
(* "blocked" asleep in wait                                                *)
(* "retry"   second exchange    "sub"     fetch_sub(1), mutex already held *)
(***************************************************************************)
PCs == {"idle", "add", "wait", "blocked", "retry", "sub",
        "cs", "check", "notify"}

TypeOK == /\ state \in {UNLOCKED, LOCKED}
          /\ waiting_counter \in Nat
          /\ pc \in [Threads -> PCs]

Init == /\ state = UNLOCKED
        /\ waiting_counter = 0
        /\ pc = [t \in Threads |-> "idle"]

Goto(t, from, to) == pc[t] = from /\ pc' = [pc EXCEPT ![t] = to]

-----------------------------------------------------------------------------
(* Lock() *)

\* state_.exchange(LOCKED) by t, from one step; it enters `got' if the old
\* value was UNLOCKED and `missed' otherwise
Exchange(t, from, got, missed) ==
    /\ Goto(t, from, IF state = UNLOCKED THEN got ELSE missed)
    /\ state' = LOCKED

LockExchange(t) == /\ Exchange(t, "idle", "cs", "add")
                   /\ UNCHANGED waiting_counter

LockAdd(t) == /\ Goto(t, "add", "wait")
              /\ waiting_counter' = waiting_counter + 1
              /\ UNCHANGED state

\* The comparison in state_.wait(LOCKED): block, or return
LockWait(t) == /\ Goto(t, "wait", IF state = LOCKED THEN "blocked" ELSE "retry")
               /\ UNCHANGED <<state, waiting_counter>>

\* Planted bug: a woken thread takes the mutex for granted
LockRetryUnchecked(t) == /\ Goto(t, "retry", "sub")
                         /\ state' = LOCKED
                         /\ UNCHANGED waiting_counter

LockRetry(t) == /\ Exchange(t, "retry", "sub", "wait")
                /\ UNCHANGED waiting_counter

LockSub(t) == /\ Goto(t, "sub", "cs")
              /\ waiting_counter' = waiting_counter - 1
              /\ UNCHANGED state

-----------------------------------------------------------------------------
(* Unlock() *)

UnlockStore(t) == /\ Goto(t, "cs", "check")
                  /\ state' = UNLOCKED
                  /\ UNCHANGED waiting_counter

\* Planted bug: off by one in the test that lets Unlock skip notify_one
UnlockCheckOffByOne(t) ==
    /\ Goto(t, "check", IF waiting_counter > 1 THEN "notify" ELSE "idle")
    /\ UNCHANGED <<state, waiting_counter>>

UnlockCheck(t) ==
    /\ Goto(t, "check", IF waiting_counter > 0 THEN "notify" ELSE "idle")
    /\ UNCHANGED <<state, waiting_counter>>

Blocked == {t \in Threads : pc[t] = "blocked"}

UnlockNotify(t) ==
    /\ pc[t] = "notify"
    /\ \/ /\ Blocked = {}
          /\ pc' = [pc EXCEPT ![t] = "idle"]
       \/ \E w \in Blocked : pc' = [pc EXCEPT ![t] = "idle", ![w] = "wait"]
    /\ UNCHANGED <<state, waiting_counter>>

-----------------------------------------------------------------------------
\* What a thread does inside Lock and Unlock, or to leave its critical section
Step(t) == \/ LockAdd(t) \/ LockWait(t) \/ LockRetry(t) \/ LockSub(t)
           \/ UnlockStore(t) \/ UnlockCheck(t) \/ UnlockNotify(t)

Next == \E t \in Threads : LockExchange(t) \/ Step(t)

Spec == Init /\ [][Next]_vars

(***************************************************************************)
(* A started operation goes on, and critical sections end; nobody is       *)
(* obliged to call Lock, and a blocked thread has no step of its own.      *)
(***************************************************************************)
FairSpec == Spec /\ \A t \in Threads : WF_vars(Step(t))

-----------------------------------------------------------------------------
(* Properties *)

Owns(t) == pc[t] \in {"sub", "cs"}

\* The threads Lock has counted in waiting_counter_ and not yet counted out
Waiters == {t \in Threads : pc[t] \in {"wait", "blocked", "retry", "sub"}}

(***************************************************************************)
(* Lock() gives the mutex to one thread at a time: the exchange that finds *)
(* UNLOCKED is the acquisition, the store in Unlock() the release.         *)
(***************************************************************************)
Holder == IF \E t \in Threads : Owns(t)
          THEN CHOOSE t \in Threads : Owns(t)
          ELSE NoThread

L == INSTANCE ExclusiveAccess WITH owner <- Holder

ImplementsLock == L!Promise

(***************************************************************************)
(* No lost wakeup, although Unlock() tests waiting_counter_ after it has   *)
(* released the mutex: if a thread sleeps on a free mutex, some unlocker   *)
(* is still on its way to notify_one or some waiter is awake and will take *)
(* the mutex (and then notify in its own Unlock).                          *)
(***************************************************************************)
NoLostWakeup ==
    Blocked # {} /\ state = UNLOCKED
      => \E t \in Threads : pc[t] \in {"check", "notify", "wait", "retry"}

(***************************************************************************)
(* waiting_counter_ never undercounts the sleepers, which is what lets     *)
(* Unlock() skip notify_one when it reads 0.                               *)
(***************************************************************************)
CounterCoversWaiters == waiting_counter = Cardinality(Waiters)

(***************************************************************************)
(* A thread inside Lock() gets the mutex unless others keep calling Lock() *)
(* forever: only barging can starve it, a missed notification cannot.      *)
(***************************************************************************)
Progress ==
    \/ []<><<\E t \in Threads : LockExchange(t)>>_vars
    \/ \A t \in Threads : pc[t] \in {"add", "blocked"} ~> Owns(t)
=============================================================================
