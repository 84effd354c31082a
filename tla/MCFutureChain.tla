---------------------------- MODULE MCFutureChain ---------------------------
(* Both combinators with a chain of links on the combined future. *)
EXTENDS FutureChain
=============================================================================
