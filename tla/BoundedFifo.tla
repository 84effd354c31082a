---------------------------- MODULE BoundedFifo -----------------------------
(***************************************************************************)
(* What a bounded blocking queue promises: elements leave in the order     *)
(* they came, at most `capacity' of them are inside, and nothing is taken  *)
(* from an empty queue.  `returned' is the last element that Take gave     *)
(* away.  BlockingQueue is shown to implement this specification.          *)
(***************************************************************************)
EXTENDS Naturals, Sequences

CONSTANTS Values, capacity, NoValue

VARIABLES queue, returned

Init == queue = <<>> /\ returned = NoValue

Put(v) == /\ Len(queue) < capacity
          /\ queue' = Append(queue, v)
          /\ UNCHANGED returned

Take == /\ queue # <<>>
        /\ returned' = Head(queue)
        /\ queue' = Tail(queue)

Next == (\E v \in Values : Put(v)) \/ Take

Spec == Init /\ [][Next]_<<queue, returned>>
=============================================================================
