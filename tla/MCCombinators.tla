--------------------------- MODULE MCCombinators ----------------------------
(* Both combinators on vectors of bounded length, checked by TLC. *)
EXTENDS Combinators
=============================================================================
