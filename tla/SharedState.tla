---------------------------- MODULE SharedState -----------------------------
(***************************************************************************)
(* One contract of src/futures/futures/await/futures/core/: the Promise    *)
(* and the Future of a SharedState, used by two threads.  The producer     *)
(* sets the result once; the consumer may set an executor and poll, then   *)
(* consumes the result with GetResult, GetReadyResult or Subscribe.        *)
(*                                                                         *)
(* One action per operation on the atomic state_ and per access to the     *)
(* plain fields callback_, result_ and executor_, which both threads touch *)
(* without a lock.  The executor is external: it runs what it is given,    *)
(* later.                                                                  *)
(***************************************************************************)
EXTENDS Naturals, Sequences

CONSTANTS Results,   \* what the producer may set: values and errors
          NoResult,  \* an empty std::optional
          Moved      \* a moved-from result

ASSUME ResultAssumption == NoResult \notin Results /\ Moved \notin Results

\* enum SubscriptionState
Start        == 0
OnlyResult   == 1
OnlyCallback == 2

Done         == 3

VARIABLES state,      \* state_
          callback,   \* callback_: "none", "set" or "moved"
          result,     \* result_
          executor,   \* executor_ # nullptr
          pc,         \* control point of each side
          op,         \* how the consumer consumes: "get" or "subscribe"
          polled,     \* the last answer of IsReady()
          got,        \* the result each side has moved out of result_
          queued,     \* callbacks with their results, handed to the executor
          given,      \* history: the result passed to SetResult
          consumed    \* history: what the consumer or its callback received

vars == <<state, callback, result, executor, pc, op, polled, got, queued, given,
          consumed>>

Sides == {"producer", "consumer"}

(***************************************************************************)
(* producer: "idle" "write" "cas" "notify"                                 *)
(* consumer: "idle" "block" "blocked" "has" "setcb" "cas"                  *)
(* both:     "store" "move" "exec" (GetReadyResult, then Execute),         *)
(*           "end", and "panic" when WHEELS_VERIFY fails                   *)
(***************************************************************************)
PCs == {"idle", "write", "cas", "notify", "block", "blocked", "has", "setcb",
        "store", "move", "exec", "end", "panic"}

Content == Results \cup {NoResult, Moved}

TypeOK == /\ state \in 0..3
          /\ callback \in {"none", "set", "moved"}
          /\ result \in Content
          /\ executor \in BOOLEAN
          /\ pc \in [Sides -> PCs]
          /\ op \in {"none", "get", "subscribe"}
          /\ polled \in BOOLEAN
          /\ got \in [Sides -> Content]
          /\ queued \in Seq(Content)
          /\ given \in Results \cup {NoResult}
          /\ consumed \in Seq(Content)

Init == /\ state = Start
        /\ callback = "none" /\ result = NoResult /\ executor = FALSE
        /\ pc = [s \in Sides |-> "idle"]
        /\ op = "none" /\ polled = FALSE
        /\ got = [s \in Sides |-> NoResult]
        /\ queued = <<>>
        /\ given = NoResult /\ consumed = <<>>

Goes(s, from, to) == pc[s] = from /\ pc' = [pc EXCEPT ![s] = to]

-----------------------------------------------------------------------------
(* Promise::SetValue / SetError / Set *)

SetCall == /\ Goes("producer", "idle", "write")
           /\ given' \in Results
           /\ UNCHANGED <<state, callback, result, executor, op, polled, got,
                          queued, consumed>>

SetEmplace == /\ Goes("producer", "write", "cas")
              /\ result' = given
              /\ UNCHANGED <<state, callback, executor, op, polled, got, queued,
                             given, consumed>>

SetCas == /\ Goes("producer", "cas",
                  CASE state = Start        -> "notify"
                    [] state = OnlyCallback -> "store"
                    [] OTHER                -> "panic")
          /\ state' = IF state = Start THEN OnlyResult ELSE state
          /\ UNCHANGED <<callback, result, executor, op, polled, got, queued,
                         given, consumed>>

\* Planted bug: nobody is notified
SetNotifyLost == /\ Goes("producer", "notify", "end")
                 /\ UNCHANGED <<state, callback, result, executor, op, polled, got,
                                queued, given, consumed>>

SetNotify == /\ pc["producer"] = "notify"
             /\ pc' = [pc EXCEPT !["producer"] = "end",
                                 !["consumer"] = IF @ = "blocked" THEN "block"
                                                                  ELSE @]
             /\ UNCHANGED <<state, callback, result, executor, op, polled, got,
                            queued, given, consumed>>

-----------------------------------------------------------------------------
(* Future: Via, IsReady, GetResult, GetReadyResult, Subscribe *)

Via == /\ pc["consumer"] = "idle"
       /\ executor' \in BOOLEAN
       /\ UNCHANGED <<state, callback, result, pc, op, polled, got, queued, given,
                      consumed>>

IsReady == /\ pc["consumer"] = "idle"
           /\ polled' = (state = OnlyResult)
           /\ UNCHANGED <<state, callback, result, executor, pc, op, got, queued,
                          given, consumed>>

GetResult == /\ Goes("consumer", "idle", "block")
             /\ op' = "get"
             /\ UNCHANGED <<state, callback, result, executor, polled, got, queued,
                            given, consumed>>

\* Planted bug: the consumer does not wait for the result
BlockSkipped ==
    /\ Goes("consumer", "block", "store")
    /\ UNCHANGED <<state, callback, result, executor, op, polled, got, queued,
                   given, consumed>>

\* state_.wait(Start): compare, and sleep if equal
BlockForResult ==
    /\ Goes("consumer", "block", IF state = Start THEN "blocked" ELSE "store")
    /\ UNCHANGED <<state, callback, result, executor, op, polled, got, queued,
                   given, consumed>>

\* Pre-condition: IsReady() == true
GetReadyResult ==
    /\ polled
    /\ Goes("consumer", "idle", "store")
    /\ op' = "get"
    /\ UNCHANGED <<state, callback, result, executor, polled, got, queued, given,
                   consumed>>

Subscribe == /\ Goes("consumer", "idle", "has")
             /\ op' = "subscribe"
             /\ UNCHANGED <<state, callback, result, executor, polled, got, queued,
                            given, consumed>>

HasResult ==
    /\ Goes("consumer", "has", IF state = OnlyResult THEN "store" ELSE "setcb")
    /\ UNCHANGED <<state, callback, result, executor, op, polled, got, queued,
                   given, consumed>>

SetCallback == /\ Goes("consumer", "setcb", "cas")
               /\ callback' = "set"
               /\ UNCHANGED <<state, result, executor, op, polled, got, queued,
                              given, consumed>>

\* Planted bug: a result is taken although none was found
PassCallbackRacy ==
    /\ Goes("consumer", "cas", "store")
    /\ UNCHANGED <<state, callback, result, executor, op, polled, got, queued,
                   given, consumed>>

PassCallback ==
    /\ Goes("consumer", "cas",
            CASE state = Start      -> "end"
              [] state = OnlyResult -> "store"
              [] OTHER              -> "panic")
    /\ state' = IF state = Start THEN OnlyCallback ELSE state
    /\ UNCHANGED <<callback, result, executor, op, polled, got, queued, given,
                   consumed>>

-----------------------------------------------------------------------------
(* SharedState::GetReadyResult and Execute, on either side *)

StoreDone(s) ==
    /\ Goes(s, "store", "move")
    /\ state' = Done
    /\ UNCHANGED <<callback, result, executor, op, polled, got, queued, given,
                   consumed>>

\* The side is in GetResult or GetReadyResult of the future
Gets(s) == s = "consumer" /\ op = "get"

\* The result leaves result_; a blocking consumer has it, a callback is next
MoveResult(s) ==
    /\ Goes(s, "move", IF Gets(s) THEN "end" ELSE "exec")
    /\ got' = [got EXCEPT ![s] = result]
    /\ result' = Moved
    /\ consumed' = IF Gets(s) THEN Append(consumed, result) ELSE consumed
    /\ UNCHANGED <<state, callback, executor, op, polled, queued, given>>

\* Planted bug: the callback runs where it is, whatever the executor
ExecuteHere(s) ==
    /\ Goes(s, "exec", "end")
    /\ callback' = IF callback = "set" THEN "moved" ELSE callback
    /\ consumed' = Append(consumed, got[s])
    /\ UNCHANGED <<state, result, executor, op, polled, got, queued, given>>

Execute(s) ==
    /\ Goes(s, "exec", "end")
    /\ callback' = IF callback = "set" THEN "moved" ELSE callback
    /\ IF executor THEN /\ queued' = Append(queued, got[s])
                        /\ UNCHANGED consumed
                   ELSE /\ consumed' = Append(consumed, got[s])
                        /\ UNCHANGED queued
    /\ UNCHANGED <<state, result, executor, op, polled, got, given>>

\* The executor runs a callback it was given
ExecutorRuns ==
    /\ queued # <<>>
    /\ queued' = Tail(queued)
    /\ consumed' = Append(consumed, Head(queued))
    /\ UNCHANGED <<state, callback, result, executor, pc, op, polled, got, given>>

-----------------------------------------------------------------------------
\* What each side does once it has begun to set or to consume
ProducerStep == SetEmplace \/ SetCas \/ SetNotify
ConsumerStep == BlockForResult \/ HasResult \/ SetCallback \/ PassCallback
Take(s) == StoreDone(s) \/ MoveResult(s) \/ Execute(s)

\* The promise or the future is dropped, or its work is done
Rest == /\ pc["consumer"] \in {"idle", "blocked", "end"}
        /\ pc["producer"] \in {"idle", "end"}
        /\ queued = <<>>
        /\ UNCHANGED vars

Next == \/ SetCall \/ ProducerStep
        \/ Via \/ IsReady \/ GetResult \/ GetReadyResult \/ Subscribe
        \/ ConsumerStep
        \/ \E s \in Sides : Take(s)
        \/ ExecutorRuns
        \/ Rest

Spec == Init /\ [][Next]_vars

(***************************************************************************)
(* A call that has begun goes on and the executor runs what it was given;  *)
(* nobody has to set the promise or to consume the future.                 *)
(***************************************************************************)
FairSpec == /\ Spec
            /\ WF_vars(ProducerStep \/ Take("producer"))
            /\ WF_vars(ConsumerStep \/ Take("consumer"))
            /\ WF_vars(ExecutorRuns)

-----------------------------------------------------------------------------
(* Properties *)

\* The two WHEELS_VERIFYs, "Expected OnlyCallback" in SetResult and "Expected
\* OnlyResult" in PassCallback, never fail.
NoPanic == \A s \in Sides : pc[s] # "panic"

(***************************************************************************)
(* The result is delivered at most once, and what is delivered is what the *)
(* producer set: never an empty optional, never a moved-from result.  And  *)
(* neither side ever meets the other in a state it does not expect.        *)
(***************************************************************************)
DeliversOnce ==
    /\ consumed = <<>> \/ (given # NoResult /\ consumed = <<given>>)
    /\ NoPanic

(***************************************************************************)
(* The plain fields are never accessed by both sides at once with one of   *)
(* them writing: state_ orders every access to callback_, result_ and      *)
(* executor_.                                                              *)
(***************************************************************************)
TouchesResult(s)   == pc[s] \in {"write", "move"}
TouchesCallback(s) == pc[s] \in {"setcb", "exec"}  \* "exec" moves it
ReadsExecutor(s)   == pc[s] = "exec"
MayWriteExecutor   == pc["consumer"] = "idle"

NoDataRace ==
    /\ ~(TouchesResult("producer") /\ TouchesResult("consumer"))
    /\ ~(TouchesCallback("producer") /\ TouchesCallback("consumer"))
    /\ ~(ReadsExecutor("producer") /\ MayWriteExecutor)

(***************************************************************************)
(* A callback runs on the executor given to Via(), if any, whichever side  *)
(* came second.                                                            *)
(***************************************************************************)
CallbackRunsThere ==
    op = "subscribe" /\ executor /\ consumed' # consumed
      => queued # <<>> /\ queued' = Tail(queued)

RunsOnExecutor == [][CallbackRunsThere]_vars

(***************************************************************************)
(* A result that is set and asked for, by a blocking or by an asynchronous *)
(* consumer, arrives: no wakeup and no callback is lost.                   *)
(***************************************************************************)
ResultArrives == given # NoResult /\ op # "none" ~> consumed # <<>>
=============================================================================
