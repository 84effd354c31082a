------------------------------ MODULE MCStrand ------------------------------
(* Strand with two clients and a task that submits another task. *)
EXTENDS Strand

CONSTANTS c1, c2, a, b, x, child

MCSource == [k \in {a, b, x, child} |->
               CASE k \in {a, x} -> c1 [] k = b -> c2 [] k = child -> a]

\* The smallest instance that loses a task
PairSource == [k \in {a, b} |-> IF k = a THEN c1 ELSE c2]
=============================================================================
