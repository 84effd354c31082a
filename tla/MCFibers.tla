------------------------------ MODULE MCFibers ------------------------------
(***************************************************************************)
(* The tinyfibers runtime and the echo servers, checked by TLC.  In        *)
(* FiberScheduler three addresses for fibers and two handles: enough for a *)
(* fiber that joins a grandchild's address, a reused address, and a moved  *)
(* handle.  In EchoServer two clients: one with a message too long for     *)
(* what its streams and the server hold, one with streams that carry two   *)
(* bytes at a time, so that the server may write back a part of what it    *)
(* has read.  The two layers share nothing: one of them moves in a         *)
(* behaviour, the other has not been started.                              *)
(***************************************************************************)
EXTENDS FiberScheduler, EchoServer

CONSTANTS c1, c2

MCMessageSize == [c \in {c1, c2} |-> IF c = c1 THEN 4 ELSE 2]

MCPipeSize == [c \in {c1, c2} |-> IF c = c1 THEN 1 ELSE 2]

VARIABLE layer   \* "runtime" or "echo"

layerVars == <<layer, vars, echoVars>>

FibersInit == /\ \/ layer = "runtime" /\ Init /\ server = "tinyfibers"
                 \/ layer = "echo" /\ Posted(<<>>)
              /\ EchoInit

RuntimeStep(A) == layer = "runtime" /\ A /\ UNCHANGED <<layer, echoVars>>

EchoStep(A) == layer = "echo" /\ A /\ UNCHANGED <<layer, vars>>

(***************************************************************************)
(* The fairness of FiberScheduler's FairSpec; and the event loop of an     *)
(* echo server runs the handlers of operations that have ended, on the     *)
(* acceptor and on every connection, and clients go on.  A client may      *)
(* vanish and need not.                                                    *)
(***************************************************************************)
FibersSpec ==
    /\ FibersInit
    /\ [][RuntimeStep(Next) \/ EchoStep(EchoNext)]_layerVars
    /\ \A f \in Fibers : /\ WF_layerVars(RuntimeStep(Step(f)))
                         /\ SF_layerVars(RuntimeStep(Handler(f)))
                         /\ WF_layerVars(RuntimeStep(Leave(f)))
    /\ WF_layerVars(EchoStep(Accepting))
    /\ \A c \in Peers : /\ WF_layerVars(EchoStep(Serves(c)))
                        /\ WF_layerVars(EchoStep(ClientStep(c)))
=============================================================================
