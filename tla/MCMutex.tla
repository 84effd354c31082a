------------------------------ MODULE MCMutex -------------------------------
(* Mutex with a fixed set of threads, checked by TLC. *)
EXTENDS Mutex
=============================================================================
