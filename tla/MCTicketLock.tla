---------------------------- MODULE MCTicketLock ----------------------------
(* TicketLock with a fixed set of threads, checked by TLC. *)
EXTENDS TicketLock
=============================================================================
