---------------------------- MODULE EchoPromise -----------------------------
(***************************************************************************)
(* What an echo service promises on every connection: the client gets its  *)
(* own bytes back, in order, none of them twice and none out of thin air;  *)
(* and a connection that ends well ends when everything has come back.     *)
(* EchoServer is shown to implement this specification.                    *)
(***************************************************************************)
EXTENDS SequencesExt

CONSTANT Peers

VARIABLES written,  \* the bytes each client has written so far
          echoed,   \* the bytes it has got back
          ended     \* the clients that have seen the end of the stream

promiseVars == <<written, echoed, ended>>

NothingYet == /\ written = [c \in Peers |-> <<>>]
              /\ echoed = [c \in Peers |-> <<>>]
              /\ ended = {}

\* One step on any of the connections
Echoes == \A c \in Peers :
    /\ IsPrefix(written[c], written'[c])
    /\ IsPrefix(echoed[c], echoed'[c])
    /\ IsPrefix(echoed'[c], written[c])
    /\ c \in ended => c \in ended' /\ UNCHANGED <<written[c], echoed[c]>>
    /\ c \in ended' => echoed'[c] = written'[c]

Promise == NothingYet /\ [][Echoes]_promiseVars
=============================================================================
