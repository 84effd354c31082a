---------------------------- MODULE Combinators -----------------------------
(***************************************************************************)
(* All(inputs) and FirstOf(inputs), src/futures/futures/await/futures/     *)
(* combine: detail::Combine with one of two combinators.  The combining    *)
(* loop subscribes to the inputs one by one while their producers complete *)
(* them in any order.  All's callbacks run under mutex_, so each is one    *)
(* action; FirstOf's run at the same time and meet at released_.exchange,  *)
(* so each is two, the exchange and the SetValue.  What Subscribe promises *)
(* (the callback runs once, with the result that was set) is SharedState's *)
(* DeliversOnce and ResultArrives.                                         *)
(***************************************************************************)
EXTENDS Naturals, Sequences

CONSTANT MaxInputs   \* bound: the largest input vector

ASSUME InputsAssumption == MaxInputs \in Nat

VARIABLES combinator, \* "All" or "FirstOf": the template argument of Combine
          n,          \* inputs.size()
          input,      \* the state of each input future
          subscribed, \* the loop has subscribed to inputs 1..subscribed
          callback,   \* control point of each input's callback
          promise,    \* v_promise_ still has its shared state
          out,        \* the combined future: what it got, and from which inputs
          panicked,   \* WHEELS_VERIFY failed: the process is aborted
          error, counter, results,  \* All: error_, counter_, results_
          released,   \* FirstOf: released_
          failures    \* history: failed inputs in the order of their callbacks

inputs == <<combinator, n, input>>
allVars == <<error, counter, results>>
outcome == <<promise, out, panicked>>
vars == <<inputs, subscribed, callback, outcome, allVars, released, failures>>

Inputs == 1..n

Pending == [kind |-> "pending", from |-> <<>>]
Invalid == [kind |-> "invalid", from |-> <<>>]
Value(s) == [kind |-> "value", from |-> s]
Failure(i) == [kind |-> "error", from |-> <<i>>]

TypeOK == /\ combinator \in {"All", "FirstOf"}
          /\ n \in 0..MaxInputs
          /\ input \in [Inputs -> {"pending", "ok", "fail"}]
          /\ subscribed \in 0..n
          /\ callback \in [Inputs -> {"waiting", "set", "end"}]
          /\ counter \in 0..n
          /\ results \in [1..counter -> Inputs \cup {0}]
          /\ {error, released, promise, panicked} \subseteq BOOLEAN
          /\ out.kind \in {"pending", "value", "error", "invalid"}
          /\ out.from \in Seq(Inputs) /\ failures \in Seq(Inputs)

Init == /\ combinator \in {"All", "FirstOf"}
        /\ n \in 0..MaxInputs
        /\ input = [i \in Inputs |-> "pending"]
        /\ subscribed = 0
        /\ callback = [i \in Inputs |-> "waiting"]
        /\ promise = TRUE /\ out = Pending /\ panicked = FALSE
        /\ error = FALSE /\ counter = 0 /\ results = <<>>
        /\ released = FALSE
        /\ failures = <<>>

\* A producer completes input i
Resolve(i) == /\ input[i] = "pending"
              /\ \E r \in {"ok", "fail"} : input' = [input EXCEPT ![i] = r]
              /\ UNCHANGED <<combinator, n, subscribed, callback, outcome,
                             allVars, released, failures>>

-----------------------------------------------------------------------------
(* Combine *)

\* All of nothing is a value; FirstOf sets one and consumes it itself
CombineEmpty == /\ n = 0 /\ out = Pending
                /\ out' = IF combinator = "All" THEN Value(<<>>) ELSE Invalid
                /\ promise' = FALSE
                /\ UNCHANGED <<inputs, subscribed, callback, panicked, allVars,
                               released, failures>>

\* One round of the loop
Subscribe == /\ subscribed < n
             /\ subscribed' = subscribed + 1
             /\ UNCHANGED <<inputs, callback, outcome, allVars, released, failures>>

\* The callback of input i of combinator c can run, and gets result r
Runs(i, c, r) == /\ combinator = c /\ i <= subscribed
                 /\ callback[i] = "waiting" /\ input[i] = r

Ends(i) == callback' = [callback EXCEPT ![i] = "end"]

-----------------------------------------------------------------------------
(* The callback of AllCombinator *)

AllIgnores(i) ==
    /\ Runs(i, "All", "ok") \/ Runs(i, "All", "fail")
    /\ error
    /\ Ends(i)
    /\ failures' = IF input[i] = "fail" THEN Append(failures, i) ELSE failures
    /\ UNCHANGED <<inputs, subscribed, outcome, allVars, released>>

AllGetsValue(i) ==
    /\ Runs(i, "All", "ok") /\ ~error
    /\ Ends(i)
    /\ results' = Append(results, i)
    /\ counter' = counter + 1
    /\ IF counter' = n THEN out' = Value(results') /\ promise' = FALSE
                       ELSE UNCHANGED <<out, promise>>
    /\ UNCHANGED <<inputs, subscribed, panicked, error, released, failures>>

\* The error goes out; then counter_ is advanced and compared all the same,
\* and SetValue finds the promise without its state
AllGetsError(i) ==
    /\ Runs(i, "All", "fail") /\ ~error
    /\ Ends(i)
    /\ error' = TRUE
    /\ out' = Failure(i) /\ promise' = FALSE
    /\ counter' = counter + 1
    /\ results' = Append(results, 0)
    /\ panicked' = (counter' = n)
    /\ failures' = Append(failures, i)
    /\ UNCHANGED <<inputs, subscribed, released>>

-----------------------------------------------------------------------------
(* The callback of FirstOfCombinator *)

FirstOfGetsError(i) ==
    /\ Runs(i, "FirstOf", "fail")
    /\ Ends(i)
    /\ failures' = Append(failures, i)
    /\ UNCHANGED <<inputs, subscribed, outcome, allVars, released>>

\* Planted bug: released_ is tested and never set
FirstOfLoads(i) ==
    /\ Runs(i, "FirstOf", "ok")
    /\ callback' = [callback EXCEPT ![i] = IF released THEN "end" ELSE "set"]
    /\ UNCHANGED <<inputs, subscribed, outcome, allVars, released, failures>>

FirstOfExchanges(i) ==
    /\ Runs(i, "FirstOf", "ok")
    /\ callback' = [callback EXCEPT ![i] = IF released THEN "end" ELSE "set"]
    /\ released' = TRUE
    /\ UNCHANGED <<inputs, subscribed, outcome, allVars, failures>>

\* Promise::SetValue aborts if the promise was set before
FirstOfSets(i) ==
    /\ callback[i] = "set"
    /\ Ends(i)
    /\ IF promise THEN promise' = FALSE /\ out' = Value(<<i>>) /\ UNCHANGED panicked
                  ELSE panicked' = TRUE /\ UNCHANGED <<promise, out>>
    /\ UNCHANGED <<inputs, subscribed, allVars, released, failures>>

-----------------------------------------------------------------------------
Combine == CombineEmpty \/ Subscribe

AllCallback(i) == AllIgnores(i) \/ AllGetsValue(i) \/ AllGetsError(i)

FirstOfCallback(i) == FirstOfGetsError(i) \/ FirstOfExchanges(i) \/ FirstOfSets(i)

\* The process was aborted, or Combine and every callback have run
Over == /\ \/ panicked
           \/ (n = 0 => ~promise) /\ \A i \in Inputs : callback[i] = "end"
        /\ UNCHANGED vars

Next == \/ /\ ~panicked
           /\ \/ Combine
              \/ \E i \in Inputs : Resolve(i) \/ AllCallback(i) \/ FirstOfCallback(i)
        \/ Over

Spec == Init /\ [][Next]_vars

(***************************************************************************)
(* Combine runs to its end and callbacks of completed inputs run, each on  *)
(* its producer's thread; producers may leave inputs pending for ever.     *)
(***************************************************************************)
FairSpec ==
    /\ Spec
    /\ WF_vars(~panicked /\ Combine)
    /\ \A i \in 1..MaxInputs :
         WF_vars(~panicked /\ i <= n /\ (AllCallback(i) \/ FirstOfCallback(i)))

-----------------------------------------------------------------------------
(* Properties *)

(***************************************************************************)
(* all.hpp: "All values | first error".  A value of All holds the results  *)
(* of all inputs, each once; an error is the one whose callback came       *)
(* first.  first_of.hpp: "First value".  A value of FirstOf is that of an  *)
(* input that succeeded, and no value whose callback ran is passed over;   *)
(* its callbacks race for released_, and only the winner sets the promise. *)
(***************************************************************************)
OutcomeRight ==
    /\ out.kind = "value" =>
         /\ \A s \in 1..Len(out.from) : input[out.from[s]] = "ok"
         /\ combinator = "All" =>
              /\ Len(out.from) = n
              /\ \A i \in Inputs : \E s \in 1..n : out.from[s] = i
    /\ out.kind = "error" /\ combinator = "All" => out.from[1] = failures[1]
    /\ combinator = "FirstOf" /\ ~released =>
         \A i \in Inputs : callback[i] = "end" => input[i] = "fail"
    /\ combinator = "FirstOf" => ~panicked

\* The outcome is known: All has a value from every input or an error from one,
\* FirstOf has a value.
Decided == IF combinator = "All"
           THEN (\A i \in Inputs : input[i] = "ok") \/ (\E i \in Inputs : input[i] = "fail")
           ELSE \E i \in Inputs : input[i] = "ok"

(***************************************************************************)
(* all.hpp: "All values | first error": All sets its promise with one of   *)
(* them, not with both; a second SetValue fails the WHEELS_VERIFY of       *)
(* state.hpp, "No shared state or shared state released".                  *)
(***************************************************************************)
AllSetsOnce == combinator = "All" => ~panicked

(***************************************************************************)
(* first_of.hpp: "First value | last error".  When all its inputs have     *)
(* failed, FirstOf completes, with the last error.                         *)
(***************************************************************************)
ErrorArrives ==
    combinator = "FirstOf" /\ n > 0 /\ (\A i \in Inputs : input[i] = "fail")
      ~> out # Pending
=============================================================================
