----------------------------- MODULE EchoServer -----------------------------
(***************************************************************************)
(* The two echo servers, src/tinyfibers/echo/echo/server.cpp (a fiber per  *)
(* connection, over net/socket.cpp and net/acceptor.cpp) and               *)
(* src/asio/echo/echo/server.cpp (a chain of handlers per connection), and *)
(* clients written with the same Socket: ConnectTo, Write of a message,    *)
(* ShutdownWrite, Read to the end of the stream.                           *)
(*                                                                         *)
(* The servers have one thread; an action is the completion of one         *)
(* asynchronous operation with all the code up to the start of the next.   *)
(* How a fiber suspends in Future::Get and is resumed by the handler is    *)
(* FiberScheduler's Get and Set.                                           *)
(*                                                                         *)
(* TCP is external: per connection two streams of bytes, which hold a few  *)
(* of them on the way; an operation moves as many bytes as it likes, at    *)
(* least one; a client may vanish at any time, which makes the operations  *)
(* of the server fail.  asio reports eof to readers only, and completes a  *)
(* read or a write of no bytes at once with 0.                             *)
(***************************************************************************)
EXTENDS Naturals, Sequences, FiniteSets

CONSTANTS Peers,         \* the clients, one connection each
          MessageSize,   \* MessageSize[c]: the bytes client c writes
          PipeSize,      \* PipeSize[c]: the bytes each of c's streams holds on the way
          BufferSize,    \* the server's buffer: 256, or kBufferSize = 1024
          MaxEndpoints,  \* bound: endpoints that a host name resolves to
          MaxErrors      \* bound: accepts that fail

ASSUME EchoAssumption ==
    /\ IsFiniteSet(Peers) /\ {MessageSize, PipeSize} \subseteq [Peers -> Nat \ {0}]
    /\ {BufferSize, MaxEndpoints} \subseteq Nat \ {0}
    /\ MaxErrors \in Nat

VARIABLES server,     \* "tinyfibers" or "asio"
          acceptor,   \* "new", "open" or "dead"
          errors,     \* how many accepts have failed
          backlog,    \* connections made and not accepted
          serving,    \* the server's side of a connection
          buffer,     \* what the server has read and not written back
          up, down,   \* the streams to and from the server
          client,     \* how far each client is
          endpoints,  \* endpoints that are left to try in TryToConnect
          rest,       \* what is left to Write
          got         \* what Read has received

serverVars == <<server, acceptor, errors, backlog, serving, buffer>>
clientVars == <<client, endpoints, rest, got>>
echoVars == <<serverVars, up, down, clientVars>>

Message(c) == [i \in 1..MessageSize[c] |-> i]

EchoTypeOK ==
    /\ server \in {"tinyfibers", "asio"}
    /\ acceptor \in {"new", "open", "dead"}
    /\ errors \in 0..MaxErrors
    /\ backlog \subseteq Peers
    /\ serving \in [Peers -> {"none", "read", "write", "closed"}]
    /\ client \in [Peers -> {"resolve", "connect", "failed", "thrown", "write",
                             "read", "done", "gone"}]
    /\ endpoints \in [Peers -> 0..MaxEndpoints]
    /\ {buffer, up, down, rest, got} \subseteq [Peers -> Seq(Nat)]

NoBytes == [c \in Peers |-> <<>>]

EchoInit == /\ server \in {"tinyfibers", "asio"}
            /\ acceptor = "new" /\ errors = 0 /\ backlog = {}
            /\ serving = [c \in Peers |-> "none"]
            /\ client = [c \in Peers |-> "resolve"]
            /\ endpoints = [c \in Peers |-> 0]
            /\ rest = [c \in Peers |-> Message(c)]
            /\ buffer = NoBytes /\ up = NoBytes /\ down = NoBytes /\ got = NoBytes

-----------------------------------------------------------------------------
(* Streams *)

First(s, k) == SubSeq(s, 1, k)
After(s, k) == SubSeq(s, k + 1, Len(s))

\* Some bytes move from the sequence from[c] to to[c], within a limit
Transfer(c, from, to, limit, fromNext, toNext) ==
    \E k \in 1..Len(from[c]) :
      /\ k <= limit
      /\ fromNext = [from EXCEPT ![c] = After(@, k)]
      /\ toNext = [to EXCEPT ![c] = @ \o First(from[c], k)]

Room(pipe, c) == PipeSize[c] - Len(pipe[c])

-----------------------------------------------------------------------------
(* Clients: the operations of Socket *)

ClientGoto(c, from, to) == client[c] = from /\ client' = [client EXCEPT ![c] = to]

\* GetEndpoints: the name is resolved, or ConnectTo returns the error
GetEndpoints(c) ==
    /\ \/ /\ ClientGoto(c, "resolve", "connect")
          /\ \E n \in 1..MaxEndpoints : endpoints' = [endpoints EXCEPT ![c] = n]
       \/ ClientGoto(c, "resolve", "failed") /\ UNCHANGED endpoints
    /\ UNCHANGED <<serverVars, up, down, rest, got>>

\* TryToConnectToEndpoint succeeds: the loop of TryToConnect ends
Connected(c) ==
    /\ acceptor = "open"
    /\ ClientGoto(c, "connect", "write")
    /\ backlog' = backlog \cup {c}
    /\ UNCHANGED <<server, acceptor, errors, serving, buffer, up, down,
                   endpoints, rest, got>>

\* It fails: the next endpoint, or none; ConnectTo then converts the failed
\* Result into a socket, which throws
NotConnected(c) ==
    /\ ClientGoto(c, "connect", IF endpoints[c] = 1 THEN "thrown" ELSE "connect")
    /\ endpoints' = [endpoints EXCEPT ![c] = @ - 1]
    /\ UNCHANGED <<serverVars, up, down, rest, got>>

\* A round of Write: WriteSome(buffer + shift)
WriteSome(c) ==
    /\ client[c] = "write"
    /\ Transfer(c, rest, up, Room(up, c), rest', up')
    /\ UNCHANGED <<serverVars, down, client, endpoints, got>>

\* WriteSome of nothing returns 0, which ends Write; then ShutdownWrite
ShutdownWrite(c) ==
    /\ rest[c] = <<>>
    /\ ClientGoto(c, "write", "read")
    /\ UNCHANGED <<serverVars, up, down, endpoints, rest, got>>

\* A round of Read: ReadSome(buffer + shift)
ReadSome(c) ==
    /\ client[c] = "read"
    /\ Transfer(c, down, got, PipeSize[c], down', got')
    /\ UNCHANGED <<serverVars, up, client, endpoints, rest>>

\* ReadSome meets eof and returns 0, which ends Read
ReadReturns(c) ==
    /\ down[c] = <<>> /\ serving[c] = "closed"
    /\ ClientGoto(c, "read", "done")
    /\ UNCHANGED <<serverVars, up, down, endpoints, rest, got>>

\* The client's process dies with the connection open
Vanish(c) == /\ client[c] \in {"write", "read"}
             /\ client' = [client EXCEPT ![c] = "gone"]
             /\ up' = [up EXCEPT ![c] = <<>>] /\ down' = [down EXCEPT ![c] = <<>>]
             /\ UNCHANGED <<serverVars, endpoints, rest, got>>

-----------------------------------------------------------------------------
(* Both servers: the connection between client c and the server *)

Shut(c) == client[c] \in {"read", "done"}
Lost(c) == client[c] = "gone"

ServeGoto(c, kind, from, to) ==
    /\ server = kind
    /\ serving[c] = from /\ serving' = [serving EXCEPT ![c] = to]

\* An operation on the connection fails, or a read meets the end of the stream
ReadFails(c) == Lost(c) \/ (Shut(c) /\ up[c] = <<>>)
WriteFails(c) == Lost(c)

-----------------------------------------------------------------------------
(* The tinyfibers server *)

\* BindTo and Listen; their errors are thrown
Listens == /\ server = "tinyfibers" /\ acceptor = "new"
           /\ acceptor' \in {"open", "dead"}
           /\ UNCHANGED <<server, errors, backlog, serving, buffer, up, down,
                          clientVars>>

\* Planted bug: an error of Accept ends the loop
ServeUntilError ==
    /\ server = "tinyfibers" /\ acceptor = "open"
    /\ \/ /\ errors < MaxErrors /\ errors' = errors + 1
          /\ acceptor' = "dead"
          /\ UNCHANGED <<backlog, serving>>
       \/ /\ \E c \in backlog : /\ backlog' = backlog \ {c}
                                /\ serving' = [serving EXCEPT ![c] = "read"]
          /\ UNCHANGED <<errors, acceptor>>
    /\ UNCHANGED <<server, buffer, up, down, clientVars>>

\* A round of ServeForever: Accept, and a fiber for the client if it succeeds
ServeForever ==
    /\ server = "tinyfibers" /\ acceptor = "open"
    /\ \/ /\ errors < MaxErrors /\ errors' = errors + 1
          /\ UNCHANGED <<backlog, serving>>
       \/ /\ \E c \in backlog : /\ backlog' = backlog \ {c}
                                /\ serving' = [serving EXCEPT ![c] = "read"]
          /\ UNCHANGED errors
    /\ UNCHANGED <<server, acceptor, buffer, up, down, clientVars>>

\* AcceptClient: ReadSome into an empty buffer
ClientRead(c) ==
    /\ ServeGoto(c, "tinyfibers", "read", "write")
    /\ Transfer(c, up, buffer, BufferSize, up', buffer')
    /\ UNCHANGED <<server, acceptor, errors, backlog, down, clientVars>>

\* Planted bug: one WriteSome instead of Write
ClientWriteOnce(c) ==
    /\ ServeGoto(c, "tinyfibers", "write", "read")
    /\ \E k \in 1..Len(buffer[c]) :
         k <= Room(down, c) /\ down' = [down EXCEPT ![c] = @ \o First(buffer[c], k)]
    /\ buffer' = [buffer EXCEPT ![c] = <<>>]
    /\ UNCHANGED <<server, acceptor, errors, backlog, up, clientVars>>

\* AcceptClient: a round of Write
ClientWrite(c) ==
    /\ ServeGoto(c, "tinyfibers", "write", "write")
    /\ Transfer(c, buffer, down, Room(down, c), buffer', down')
    /\ UNCHANGED <<server, acceptor, errors, backlog, up, clientVars>>

\* AcceptClient: Write returns, the loop goes on
ClientWritten(c) ==
    /\ buffer[c] = <<>>
    /\ ServeGoto(c, "tinyfibers", "write", "read")
    /\ UNCHANGED <<server, acceptor, errors, backlog, buffer, up, down, clientVars>>

\* AcceptClient returns, and the socket is closed with the fiber
ClientReturns(c) ==
    /\ \/ ReadFails(c) /\ ServeGoto(c, "tinyfibers", "read", "closed")
       \/ WriteFails(c) /\ ServeGoto(c, "tinyfibers", "write", "closed")
    /\ UNCHANGED <<server, acceptor, errors, backlog, buffer, up, down, clientVars>>

-----------------------------------------------------------------------------
(* The asio server *)

\* The acceptor's constructor binds and listens; its errors are thrown
ServerStart == /\ server = "asio" /\ acceptor = "new"
               /\ acceptor' \in {"open", "dead"}
               /\ UNCHANGED <<server, errors, backlog, serving, buffer, up, down,
                              clientVars>>

\* The handler of async_accept: a session, or not, and the next async_accept
AcceptHandler ==
    /\ server = "asio" /\ acceptor = "open"
    /\ \/ /\ errors < MaxErrors /\ errors' = errors + 1
          /\ UNCHANGED <<backlog, serving>>
       \/ /\ \E c \in backlog : /\ backlog' = backlog \ {c}
                                /\ serving' = [serving EXCEPT ![c] = "read"]
          /\ UNCHANGED errors
    /\ UNCHANGED <<server, acceptor, buffer, up, down, clientVars>>

\* ReadChunk's handler gets data: WriteChunk
ReadChunk(c) ==
    /\ ServeGoto(c, "asio", "read", "write")
    /\ Transfer(c, up, buffer, BufferSize, up', buffer')
    /\ UNCHANGED <<server, acceptor, errors, backlog, down, clientVars>>

\* async_write moves some bytes; with the last of them WriteChunk's handler
\* runs, and calls ReadChunk
WriteChunk(c) ==
    /\ Transfer(c, buffer, down, Room(down, c), buffer', down')
    /\ ServeGoto(c, "asio", "write", IF buffer'[c] = <<>> THEN "read" ELSE "write")
    /\ UNCHANGED <<server, acceptor, errors, backlog, up, clientVars>>

\* A handler gets an error: nothing keeps the session alive
SessionEnds(c) ==
    /\ \/ ReadFails(c) /\ ServeGoto(c, "asio", "read", "closed")
       \/ WriteFails(c) /\ ServeGoto(c, "asio", "write", "closed")
    /\ UNCHANGED <<server, acceptor, errors, backlog, buffer, up, down, clientVars>>

-----------------------------------------------------------------------------
Accepting == Listens \/ ServeForever \/ ServerStart \/ AcceptHandler

Serves(c) == \/ ClientRead(c) \/ ClientWrite(c) \/ ClientWritten(c) \/ ClientReturns(c)
             \/ ReadChunk(c) \/ WriteChunk(c) \/ SessionEnds(c)

ClientStep(c) == \/ GetEndpoints(c) \/ Connected(c) \/ NotConnected(c)
                 \/ WriteSome(c) \/ ShutdownWrite(c) \/ ReadSome(c) \/ ReadReturns(c)

\* Every client is through; the server waits for others
AllServed == /\ backlog = {}
             /\ \A c \in Peers : /\ client[c] \in {"failed", "thrown", "done", "gone"}
                                 /\ serving[c] \in {"none", "closed"}
             /\ UNCHANGED echoVars

EchoNext == \/ Accepting \/ AllServed
            \/ \E c \in Peers : Serves(c) \/ ClientStep(c) \/ Vanish(c)

EchoSpec == EchoInit /\ [][EchoNext]_echoVars

-----------------------------------------------------------------------------
(* Properties *)

(***************************************************************************)
(* Both servers are echo services: what a client reads is what it has      *)
(* written, from the first byte on and in order, however reads and writes  *)
(* are cut into pieces; and when Read returns at the end of the stream,    *)
(* nothing is missing.                                                     *)
(***************************************************************************)
E == INSTANCE EchoPromise WITH
       written <- [c \in Peers |-> First(Message(c), MessageSize[c] - Len(rest[c]))],
       echoed <- got,
       ended <- {c \in Peers : client[c] = "done"}

ImplementsEcho == E!Promise

(***************************************************************************)
(* A client that writes its whole message before it reads is served to the *)
(* end, whatever the other clients do and although accepts fail, if the    *)
(* message fits into the two streams and one byte of the server's buffer.  *)
(* A longer one may stop for ever: the server does not read while it       *)
(* writes, and the client does not read while it writes.                   *)
(***************************************************************************)
Fits(c) == MessageSize[c] <= 2 * PipeSize[c] + 1

EverythingComesBack ==
    \A c \in Peers : Fits(c) /\ client[c] = "write" ~> client[c] \in {"done", "gone"}
=============================================================================
