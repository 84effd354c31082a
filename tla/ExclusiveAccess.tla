-------------------------- MODULE ExclusiveAccess ---------------------------
(***************************************************************************)
(* What a lock promises its users, seen from outside: access passes from   *)
(* nobody to one thread and from that thread back to nobody, never from    *)
(* one thread to another.  Mutex and TicketLock are each shown to          *)
(* implement this specification.                                           *)
(***************************************************************************)
CONSTANTS Threads, NoThread

VARIABLE owner   \* the thread between its Lock() and its Unlock(), if any

Handovers == ({NoThread} \X Threads) \cup (Threads \X {NoThread})

Free == owner = NoThread

Handover == <<owner, owner'>> \in Handovers

Promise == Free /\ [][Handover]_owner
=============================================================================
