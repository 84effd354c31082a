----------------------------- MODULE Semaphore ------------------------------
(***************************************************************************)
(* src/condvar/semaphore/semaphore.hpp: a counting semaphore over a mutex  *)
(* and a condition variable.  Acquire and Release run under the mutex; a   *)
(* call of Acquire is one action if a permit is there, and otherwise one   *)
(* that goes to sleep and one per wakeup.  notify_one picks any sleeper,   *)
(* and a newcomer may take the permit before the woken thread does.        *)
(* The module is instantiated by BlockingQueue, three times.               *)
(***************************************************************************)
EXTENDS Naturals

CONSTANTS Threads,   \* the threads that use the semaphore
          initial    \* the number of permits it is created with

VARIABLES current_number,  \* current_number_
          sleeping,        \* threads asleep in enough_tokens_.wait
          woken            \* threads woken there that have not looked yet

vars == <<current_number, sleeping, woken>>

TypeOK == /\ current_number \in Nat
          /\ sleeping \subseteq Threads
          /\ woken \subseteq Threads \ sleeping

Init == current_number = initial /\ sleeping = {} /\ woken = {}

\* Acquire returns: t, newly come or woken, finds a permit
Acquire(t) == /\ t \notin sleeping
              /\ current_number > 0
              /\ current_number' = current_number - 1
              /\ woken' = woken \ {t}
              /\ UNCHANGED sleeping

\* Acquire blocks: t, newly come or woken, finds no permit
AcquireBlocks(t) == /\ t \notin sleeping
                    /\ current_number = 0
                    /\ sleeping' = sleeping \cup {t}
                    /\ woken' = woken \ {t}
                    /\ UNCHANGED current_number

Release ==
    /\ current_number' = current_number + 1
    /\ \/ sleeping = {} /\ UNCHANGED <<sleeping, woken>>
       \/ \E t \in sleeping : /\ sleeping' = sleeping \ {t}
                              /\ woken' = woken \cup {t}

SpuriousWakeup == \E t \in sleeping : /\ sleeping' = sleeping \ {t}
                                      /\ woken' = woken \cup {t}
                                      /\ UNCHANGED current_number
=============================================================================
