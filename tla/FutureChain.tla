---------------------------- MODULE FutureChain -----------------------------
(***************************************************************************)
(* A chain of continuations on a combined future: All(...) or FirstOf(...) *)
(* followed by .Via(e).Then(c).Recover(h)..., src/futures/futures/await/   *)
(* futures/core/future.ipp.  Every link is one Transform: a new contract   *)
(* whose promise is set by the callback on the link before.                *)
(*                                                                         *)
(* Link k consumes future k - 1 and makes future k; future 0 is what       *)
(* Combine returns.  A thread adds links while the inputs complete.  A     *)
(* callback is one action, enabled from its subscription and the result    *)
(* on: that it runs exactly once is SharedState's DeliversOnce and         *)
(* ResultArrives, and the time it spends in the queue of an executor is    *)
(* the time until the action.                                              *)
(***************************************************************************)
EXTENDS Combinators

CONSTANTS Executors,   \* the executors given to Via
          NoExecutor,  \* nullptr: callbacks run where the result was set
          MaxLinks     \* bound: the longest chain

ASSUME ChainAssumption ==
    /\ MaxLinks \in Nat /\ NoExecutor \notin Executors
    /\ "never" \notin Executors \cup {NoExecutor}

VARIABLES link,      \* the links: "Then", "AsyncThen" or "Recover"
          executor,  \* executor_ of the future each link consumes, and of the last
          future,    \* what the future made by each link has
          aborted,   \* WHEELS_VERIFY failed in a callback
          asked,     \* history: the executor of a Via before each link
          ran        \* history: where the user's function of each link ran

chainVars == <<link, executor, future, aborted, asked, ran>>
allChainVars == <<vars, chainVars>>

Links == 1..Len(link)
Newest == Len(executor)   \* the future at the end of the chain

\* A value or an error and the link it comes from, 0 for the combined future
Ok(k)   == [kind |-> "value", from |-> k]
Fail(k) == [kind |-> "error", from |-> k]

\* Nothing yet; nothing, but an AsyncThen has subscribed to the future its
\* continuation returned; nothing ever, for the promise was dropped
Unset   == [kind |-> "pending", from |-> 0]
Awaited == [kind |-> "awaited", from |-> 0]
Broken  == [kind |-> "broken", from |-> 0]

HasResult(r) == r.kind \in {"value", "error"}

\* The future that link k consumes
Input(k) == IF k = 1 THEN [kind |-> out.kind, from |-> 0] ELSE future[k - 1]

ChainTypeOK == /\ link \in Seq({"Then", "AsyncThen", "Recover"})
               /\ executor \in [1..Len(link) + 1 -> Executors \cup {NoExecutor}]
               /\ future \in [Links -> {Unset, Awaited, Broken} \cup
                                       {Ok(k) : k \in 0..MaxLinks} \cup
                                       {Fail(k) : k \in 0..MaxLinks}]
               /\ aborted \in BOOLEAN
               /\ asked \in [Links -> Executors \cup {NoExecutor}]
               /\ ran \in [Links -> Executors \cup {NoExecutor, "never"}]

ChainInit == /\ Init
             /\ link = <<>> /\ future = <<>> /\ executor = <<NoExecutor>>
             /\ aborted = FALSE
             /\ asked = <<>> /\ ran = <<>>

-----------------------------------------------------------------------------
(* Building the chain *)

\* Planted bug: the new future does not take the executor over
TransformPlain(e) == executor' = Append([executor EXCEPT ![Newest] = e], NoExecutor)

\* A contract on the executor of the future that is consumed
Transform(e) == executor' = Append([executor EXCEPT ![Newest] = e], e)

\* Combine has returned; Via(e), or no Via, and a link on the last future
AddLink(l) ==
    /\ Len(link) < MaxLinks
    /\ subscribed = n /\ (n = 0 => HasResult(out))
    /\ link' = Append(link, l)
    /\ future' = Append(future, Unset)
    /\ \E e \in Executors \cup {NoExecutor} :
         /\ asked' = Append(asked, e)
         /\ Transform(IF e = NoExecutor THEN executor[Newest] ELSE e)
    /\ ran' = Append(ran, "never")
    /\ UNCHANGED aborted

-----------------------------------------------------------------------------
(* The callback of link k *)

\* It is called with result r, for the first time
Called(k, r) == future[k] = Unset /\ Input(k) = r /\ HasResult(r)

\* The user's function is for this kind of result
Invokes(k, r) == r.kind = IF link[k] = "Recover" THEN "error" ELSE "value"

\* The promise of link k gets r
Sets(k, r) == future' = [future EXCEPT ![k] = r]

\* The user's function runs in the callback, on the executor of its input
RunsHere(k) == ran' = [ran EXCEPT ![k] = executor[k]]

\* Then passes an error on, Recover a value
Propagate(k, r) ==
    /\ link[k] # "AsyncThen" /\ ~Invokes(k, r)
    /\ Sets(k, r)
    /\ UNCHANGED <<aborted, ran>>

\* Planted bug: nobody catches what the function throws
InvokeUncaught(k, r) ==
    /\ link[k] # "AsyncThen" /\ Invokes(k, r)
    /\ Sets(k, Ok(k)) \/ Sets(k, Broken)
    /\ RunsHere(k)
    /\ UNCHANGED aborted

\* Then or Recover: the function returns a value, or throws
Invoke(k, r) ==
    /\ link[k] # "AsyncThen" /\ Invokes(k, r)
    /\ Sets(k, Ok(k)) \/ Sets(k, Fail(k))
    /\ RunsHere(k)
    /\ UNCHANGED aborted

\* AsyncThen: the continuation returns a future that is pending or ready
AsyncInvoke(k, r) ==
    /\ link[k] = "AsyncThen" /\ Invokes(k, r)
    /\ Sets(k, Awaited) \/ Sets(k, Ok(k))
    /\ RunsHere(k)
    /\ UNCHANGED aborted

(***************************************************************************)
(* An error reached AsyncThen, or its continuation threw or returned a     *)
(* future that has failed.  The inner callback converts that Result to a   *)
(* value, which throws the error inside the Subscribe of the outer one,    *)
(* whose SetError finds its promise moved from.                            *)
(***************************************************************************)
AsyncFails(k, r) ==
    /\ link[k] = "AsyncThen"
    /\ aborted' = TRUE
    /\ IF Invokes(k, r) THEN RunsHere(k) ELSE UNCHANGED ran
    /\ UNCHANGED future

Callback(k) ==
    /\ \E r \in {Input(k)} :
         /\ Called(k, r)
         /\ \/ Propagate(k, r) \/ Invoke(k, r)
            \/ AsyncInvoke(k, r) \/ AsyncFails(k, r)
    /\ UNCHANGED <<link, executor, asked>>

\* The future of the continuation completes; its error is thrown in the thread
\* that sets it, and the promise of the link dies with the callback
AsyncCompletes(k) ==
    /\ future[k] = Awaited
    /\ Sets(k, Ok(k)) \/ Sets(k, Broken)
    /\ UNCHANGED <<link, executor, aborted, asked, ran>>

-----------------------------------------------------------------------------
Builds == \E l \in {"Then", "AsyncThen", "Recover"} : AddLink(l)

Alive == ~panicked /\ ~aborted

\* A step of the combined futures, or the end of the process
CombinatorStep == /\ ~aborted /\ Next
                  /\ UNCHANGED chainVars

ChainStep == /\ Alive
             /\ Builds \/ \E k \in Links : Callback(k) \/ AsyncCompletes(k)
             /\ UNCHANGED vars

Aborted == aborted /\ UNCHANGED allChainVars

ChainSpec == /\ ChainInit
             /\ [][CombinatorStep \/ ChainStep \/ Aborted]_allChainVars

(***************************************************************************)
(* Combine returns, and callbacks with a result run: executors work off    *)
(* what they were given.  Inputs and the futures of asynchronous           *)
(* continuations may stay pending for ever, and nobody has to add a link.  *)
(***************************************************************************)
FairChainSpec ==
    /\ ChainSpec
    /\ WF_allChainVars(Alive /\ Combine /\ UNCHANGED chainVars)
    /\ \A i \in 1..MaxInputs :
         WF_allChainVars(/\ Alive /\ i <= n
                         /\ AllCallback(i) \/ FirstOfCallback(i)
                         /\ UNCHANGED chainVars)
    /\ \A k \in 1..MaxLinks :
         WF_allChainVars(Alive /\ k \in Links /\ Callback(k) /\ UNCHANGED vars)

-----------------------------------------------------------------------------
(* Properties *)

\* The executor of the last Via before link k
Asked(k) == LET vias == {j \in 1..k : asked[j] # NoExecutor}
            IN  IF vias = {} THEN NoExecutor
                ELSE asked[CHOOSE j \in vias : \A l \in vias : l <= j]

(***************************************************************************)
(* Errors skip Then and values skip Recover, over any number of links: a   *)
(* result in future k that comes from link j was passed on by every link   *)
(* between them, none of which was meant for it and none of which ran.  A  *)
(* function that ran had the kind of result it is for, and ran on the      *)
(* executor of the last Via before it ("Set executor for asynchronous      *)
(* callback / continuation"), however many links lie between and whichever *)
(* of them was asynchronous.                                               *)
(***************************************************************************)
ResultsFlow ==
    /\ \A k \in Links : HasResult(future[k]) =>
         LET j == future[k].from
         IN  /\ j # 0 => ran[j] # "never"
             /\ \A l \in j + 1..k :
                  /\ link[l] = "Recover" <=> future[k].kind = "value"
                  /\ ran[l] = "never"
    /\ \A k \in Links : ran[k] # "never" =>
         /\ Input(k).kind = IF link[k] = "Recover" THEN "error" ELSE "value"
         /\ ran[k] = Asked(k)

Halted == \/ ~Alive
          \/ \E k \in Links : link[k] = "AsyncThen" /\ future[k] \in {Awaited, Broken}

(***************************************************************************)
(* All completes when all inputs have values, or as soon as one fails, and *)
(* FirstOf as soon as one input has a value, whatever the others do; and   *)
(* once the combined future has a result, so has every link of the chain,  *)
(* unless the future of an AsyncThen is pending or was lost to an error.   *)
(***************************************************************************)
ChainCompletes ==
    /\ Decided ~> HasResult(out)
    /\ \A k \in 1..MaxLinks :
         k \in Links /\ HasResult(out)
           ~> Halted \/ (k \in Links /\ HasResult(future[k]))

(***************************************************************************)
(* future.ipp, asynchronous Then: "Propagate error".  An error that        *)
(* reaches an AsyncThen becomes the result of the link, as with a          *)
(* synchronous one, unless All has ended the process before.               *)
(***************************************************************************)
AsyncErrorPasses ==
    \A k \in 1..MaxLinks :
      k \in Links /\ link[k] = "AsyncThen" /\ Input(k).kind = "error"
        ~> panicked \/ (k \in Links /\ HasResult(future[k]))
=============================================================================
