-------------------------- MODULE MCBlockingQueue ---------------------------
(* BlockingQueue with fixed threads and a small capacity, checked by TLC. *)
EXTENDS BlockingQueue
=============================================================================
