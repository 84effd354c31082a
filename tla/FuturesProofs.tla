---------------------------- MODULE FuturesProofs ---------------------------
(***************************************************************************)
(* Proofs about what is built on futures, and about the executors beside   *)
(* them.  For any number of inputs, links and executors: All and FirstOf   *)
(* have the right outcome, and results flow through a chain of             *)
(* continuations.  For every set of jobs and timers, all priorities, any   *)
(* number of threads of the underlying executor and any bound on the       *)
(* clock: no timer fires early, every lambda finds a job, and the jobs     *)
(* start in the order of their priorities.  For all clients, tasks and     *)
(* threads, and any reuse of addresses: the strand runs its tasks one at a *)
(* time and in the order of their pushes.                                  *)
(***************************************************************************)
EXTENDS FutureChain, TimedTasks, Strand, FiniteSetTheorems, TLAPS

-----------------------------------------------------------------------------
(* The combinators *)

CombineTypes ==
    /\ combinator \in {"All", "FirstOf"} /\ n \in Nat
    /\ input \in [Inputs -> {"pending", "ok", "fail"}]
    /\ callback \in [Inputs -> {"waiting", "set", "end"}]
    /\ counter \in Nat /\ results \in Seq(Nat) /\ failures \in Seq(Nat)

\* Until an error comes, All has the values of the inputs whose callbacks have
\* run, each once; and nothing can follow what it gives out
AllInv == combinator = "All" =>
    /\ \A i \in Inputs : callback[i] # "set"
    /\ ~error =>
         /\ Len(results) = counter /\ failures = <<>> /\ out.kind # "error"
         /\ \A s \in 1..counter : /\ results[s] \in Inputs
                                  /\ callback[results[s]] = "end" /\ input[results[s]] = "ok"
         /\ \A s, t \in 1..counter : results[s] = results[t] => s = t
         /\ \A i \in Inputs : callback[i] = "end" => \E s \in 1..counter : results[s] = i
    /\ error => failures # <<>>
    /\ out.kind = "value" => \A i \in Inputs : callback[i] = "end"

\* The callback that FirstOf lets through finds the promise
FirstOfInv == combinator = "FirstOf" =>
    /\ out.kind # "error"
    /\ out.kind = "value" => ~promise
    /\ ~released => /\ n # 0 => promise
                    /\ \A i \in Inputs : callback[i] # "set"
    /\ \A i \in Inputs : callback[i] = "set" => promise /\ input[i] = "ok"
    /\ \A i, j \in Inputs : callback[i] = "set" /\ callback[j] = "set" => i = j

\* A value names the inputs it is made of
FromInputs == out.kind = "value" => \A s \in 1..Len(out.from) : out.from[s] \in Inputs

CombineInv == CombineTypes /\ FromInputs /\ AllInv /\ FirstOfInv /\ OutcomeRight

\* No callback has run.
LEMMA CombineInit == Init => CombineInv
<1> SUFFICES ASSUME Init PROVE CombineInv
  OBVIOUS
<1>1. CombineTypes
  BY InputsAssumption DEF Init, CombineTypes, Inputs
<1>2. FromInputs /\ AllInv /\ FirstOfInv /\ OutcomeRight
  BY DEF Init, FromInputs, AllInv, FirstOfInv, OutcomeRight, Inputs, Pending
<1> QED
  BY <1>1, <1>2 DEF CombineInv

\* An input completes: no callback has seen it.
LEMMA ResolveInv == ASSUME CombineInv, NEW i \in Inputs, Resolve(i) PROVE CombineInv'
<1>1. /\ input[i] = "pending" /\ \E r \in {"ok", "fail"} : input' = [input EXCEPT ![i] = r]
      /\ UNCHANGED <<combinator, n, callback, promise, out, panicked, error,
                     counter, results, released, failures>>
  BY DEF Resolve, outcome, allVars
<1>2. /\ Inputs' = Inputs /\ \A j \in Inputs : j # i => input'[j] = input[j]
      /\ \A j \in Inputs : input[j] \in {"ok", "fail"} => input'[j] = input[j]
  BY <1>1 DEF CombineInv, CombineTypes, Inputs
<1>3. CombineTypes'
  BY <1>1, <1>2 DEF CombineInv, CombineTypes
<1>4. FromInputs' /\ AllInv' /\ FirstOfInv'
  BY <1>1, <1>2 DEF CombineInv, FromInputs, AllInv, FirstOfInv
<1>5. OutcomeRight'
  BY <1>1, <1>2 DEF CombineInv, FromInputs, OutcomeRight
<1> QED
  BY <1>3, <1>4, <1>5 DEF CombineInv

\* How far the loop is does not matter.
LEMMA CombineKept ==
  ASSUME CombineInv,
         UNCHANGED <<combinator, n, input, callback, promise, out, panicked, error,
                     counter, results, released, failures>>
  PROVE  CombineInv'
<1>1. Inputs' = Inputs
  BY DEF Inputs
<1>2. CombineTypes' /\ FromInputs'
  BY <1>1 DEF CombineInv, CombineTypes, FromInputs
<1>3. AllInv' /\ FirstOfInv'
  BY <1>1 DEF CombineInv, AllInv, FirstOfInv
<1>4. OutcomeRight'
  BY <1>1 DEF CombineInv, OutcomeRight
<1> QED
  BY <1>2, <1>3, <1>4 DEF CombineInv

\* Combine itself, which has nothing to give out unless there are no inputs.
LEMMA CombineStep == ASSUME CombineInv, Combine PROVE CombineInv'
<1>1. ASSUME Subscribe PROVE CombineInv'
  BY <1>1, CombineKept DEF Subscribe, inputs, outcome, allVars
<1>2. ASSUME CombineEmpty PROVE CombineInv'
  <2>1. /\ n = 0 /\ ~promise'
        /\ \/ combinator = "All" /\ out'.kind = "value" /\ out'.from = <<>>
           \/ combinator = "FirstOf" /\ out'.kind = "invalid"
        /\ UNCHANGED <<combinator, n, input, callback, panicked, error, counter, results,
                       released, failures>>
    BY <1>2 DEF CombineEmpty, Value, Invalid, inputs, allVars, CombineInv, CombineTypes
  <2>2. Inputs = {} /\ Inputs' = {}
    BY <2>1 DEF Inputs
  <2>3. CombineTypes' /\ FromInputs'
    BY <2>1, <2>2 DEF CombineInv, CombineTypes, FromInputs, Inputs
  <2>4. AllInv' /\ FirstOfInv' /\ OutcomeRight'
    BY <2>1, <2>2 DEF CombineInv, AllInv, FirstOfInv, OutcomeRight
  <2> QED
    BY <2>3, <2>4 DEF CombineInv
<1> QED
  BY <1>1, <1>2 DEF Combine

\* When as many values have come as there are inputs, every input has given one.
LEMMA AllOfThem ==
  ASSUME n \in Nat, NEW s \in Seq(Nat), Len(s) = n,
         \A k \in 1..n : s[k] \in Inputs,
         \A k, l \in 1..n : s[k] = s[l] => k = l
  PROVE  \A i \in Inputs : \E k \in 1..n : s[k] = i
<1> SUFFICES ASSUME NEW i \in Inputs, \A k \in 1..n : s[k] # i PROVE FALSE
  OBVIOUS
<1> DEFINE T == Inputs \ {i}
<1>1. IsFiniteSet(Inputs) /\ Cardinality(Inputs) = n
  <2>1. /\ IsFiniteSet(1..n)
        /\ Cardinality(1..n) = IF 1 > n THEN 0 ELSE n - 1 + 1
    BY FS_Interval
  <2> QED
    BY <2>1 DEF Inputs
<1>2. IsFiniteSet(T) /\ Cardinality(T) = n - 1
  BY <1>1, FS_RemoveElement
<1>3. s \in [Inputs -> T]
  <2>1. s \in [1..n -> Nat]
    OBVIOUS
  <2> QED
    BY <2>1 DEF Inputs
<1> HIDE DEF T
<1>4. \E x, y \in Inputs : x # y /\ s[x] = s[y]
  <2>1. Cardinality(T) < Cardinality(Inputs)
    BY <1>1, <1>2
  <2> QED
    BY <1>1, <1>2, <1>3, <2>1, FS_PigeonHole
<1> QED
  BY <1>4 DEF Inputs

\* A callback of All.
LEMMA AllCallbackInv == ASSUME CombineInv, NEW i \in Inputs, AllCallback(i) PROVE CombineInv'
<1>1. /\ combinator = "All" /\ callback[i] = "waiting" /\ input[i] \in {"ok", "fail"}
      /\ callback' = [callback EXCEPT ![i] = "end"] /\ UNCHANGED <<combinator, n, input, released>>
  BY DEF AllCallback, AllIgnores, AllGetsValue, AllGetsError, Runs, Ends, inputs, outcome
<1>2. /\ Inputs' = Inputs /\ callback'[i] = "end"
      /\ \A j \in Inputs : j # i => callback'[j] = callback[j]
      /\ callback' \in [Inputs -> {"waiting", "set", "end"}]
  BY <1>1 DEF CombineInv, CombineTypes, Inputs
<1>3. /\ FirstOfInv' /\ i \in Nat
  BY <1>1 DEF FirstOfInv, Inputs
<1>4. ASSUME AllIgnores(i) PROVE CombineInv'
  <2>1. /\ error /\ failures' \in {failures, Append(failures, i)}
        /\ UNCHANGED <<promise, out, panicked, error, counter, results>>
    BY <1>4 DEF AllIgnores, outcome, allVars
  <2>2. failures' \in Seq(Nat) /\ failures' # <<>> /\ failures'[1] = failures[1]
    <3>1. failures \in Seq(Nat) /\ failures # <<>>
      BY <1>1, <2>1 DEF CombineInv, CombineTypes, AllInv
    <3> QED
      BY <1>3, <2>1, <3>1
  <2>3. CombineTypes' /\ FromInputs'
    BY <1>1, <1>2, <2>1, <2>2 DEF CombineInv, CombineTypes, FromInputs
  <2>4. AllInv'
    BY <1>1, <1>2, <2>1, <2>2 DEF CombineInv, AllInv
  <2>5. OutcomeRight'
    BY <1>1, <1>2, <2>1, <2>2 DEF CombineInv, OutcomeRight
  <2> QED
    BY <1>3, <2>3, <2>4, <2>5 DEF CombineInv
<1>5. ASSUME AllGetsError(i) PROVE CombineInv'
  <2>1. /\ error' /\ out'.kind = "error" /\ out'.from = <<i>> /\ failures = <<>>
        /\ counter' = counter + 1 /\ results' = Append(results, 0)
        /\ failures' = Append(failures, i)
    BY <1>1, <1>5 DEF AllGetsError, Failure, CombineInv, AllInv
  <2>2. failures' \in Seq(Nat) /\ failures' # <<>> /\ failures'[1] = i /\ results' \in Seq(Nat)
    BY <1>3, <2>1 DEF CombineInv, CombineTypes
  <2>3. CombineTypes' /\ FromInputs'
    BY <1>1, <1>2, <2>1, <2>2 DEF CombineInv, CombineTypes, FromInputs
  <2>4. AllInv'
    BY <1>1, <1>2, <2>1, <2>2 DEF CombineInv, AllInv
  <2>5. OutcomeRight'
    BY <1>1, <2>1, <2>2 DEF OutcomeRight
  <2> QED
    BY <1>3, <2>3, <2>4, <2>5 DEF CombineInv
<1>6. ASSUME AllGetsValue(i) PROVE CombineInv'
  <2>1. /\ ~error /\ input[i] = "ok" /\ results' = Append(results, i) /\ counter' = counter + 1
        /\ UNCHANGED <<panicked, error, failures>>
        /\ \/ counter' = n /\ out'.kind = "value" /\ out'.from = results'
           \/ counter' # n /\ out' = out
    BY <1>6 DEF AllGetsValue, Runs, Value
  <2>2. /\ results \in Seq(Nat) /\ Len(results) = counter /\ counter \in Nat /\ n \in Nat
    BY <1>1, <2>1 DEF CombineInv, CombineTypes, AllInv
  <2>3. /\ results' \in Seq(Nat) /\ Len(results') = counter + 1 /\ counter' \in Nat
        /\ \A s \in 1..counter : results'[s] = results[s]
        /\ results'[counter + 1] = i
        /\ \A s \in 1..counter' : s \in 1..counter \/ s = counter + 1
        /\ \A s \in 1..counter : s \in 1..counter'
        /\ counter + 1 \in 1..counter'
    BY <1>3, <2>1, <2>2
  <2>4. /\ \A s \in 1..counter' : /\ results'[s] \in Inputs
                                  /\ callback'[results'[s]] = "end" /\ input[results'[s]] = "ok"
        /\ \A s, t \in 1..counter' : results'[s] = results'[t] => s = t
    BY <1>1, <1>2, <2>1, <2>3 DEF CombineInv, AllInv
  <2>5. ASSUME NEW j \in Inputs, callback'[j] = "end"
        PROVE  \E s \in 1..counter' : results'[s] = j
    <3>1. CASE j = i
      BY <3>1, <2>3
    <3>2. CASE j # i
      <4>1. PICK s \in 1..counter : results[s] = j
        BY <1>1, <1>2, <2>1, <2>5, <3>2 DEF CombineInv, AllInv
      <4> QED
        BY <4>1, <2>3
    <3> QED
      BY <3>1, <3>2
  <2>6. ASSUME counter' = n
        PROVE  \A j \in Inputs : \E s \in 1..n : results'[s] = j
    <3>1. /\ n \in Nat /\ results' \in Seq(Nat) /\ Len(results') = n
          /\ \A s \in 1..n : results'[s] \in Inputs
          /\ \A s, t \in 1..n : results'[s] = results'[t] => s = t
      BY <2>1, <2>2, <2>3, <2>4, <2>6
    <3> QED
      BY <3>1, AllOfThem
  <2>7. out.kind # "value" /\ out.kind # "error"
    BY <1>1, <2>1 DEF CombineInv, AllInv
  <2>8. CombineTypes' /\ FromInputs'
    <3>1. FromInputs'
      BY <1>2, <2>1, <2>3, <2>4, <2>7 DEF FromInputs
    <3>2. CombineTypes'
      BY <1>1, <1>2, <2>1, <2>3 DEF CombineInv, CombineTypes
    <3> QED
      BY <3>1, <3>2
  <2>9. AllInv'
    <3>1. out'.kind = "value" => \A j \in Inputs : callback'[j] = "end"
      <4> SUFFICES ASSUME out'.kind = "value", NEW j \in Inputs PROVE callback'[j] = "end"
        OBVIOUS
      <4>1. counter' = n
        BY <2>1, <2>7
      <4>2. PICK s \in 1..n : results'[s] = j
        BY <4>1, <2>6
      <4> QED
        BY <4>1, <4>2, <2>4
    <3> QED
      BY <1>1, <1>2, <2>1, <2>3, <2>4, <2>5, <2>7, <3>1 DEF CombineInv, AllInv
  <2>10. OutcomeRight'
    <3>1. out'.kind = "value" =>
            /\ Len(out'.from) = n /\ \A s \in 1..n : input[out'.from[s]] = "ok"
            /\ \A j \in Inputs : \E s \in 1..n : out'.from[s] = j
      <4>1. out'.kind = "value" => counter' = n /\ out'.from = results' /\ Len(results') = n
        BY <2>1, <2>2, <2>3, <2>7
      <4> QED
        BY <4>1, <2>4, <2>6
    <3>2. out'.kind # "error"
      BY <2>1, <2>7
    <3> QED
      BY <1>1, <1>2, <3>1, <3>2 DEF OutcomeRight
  <2> QED
    BY <1>3, <2>8, <2>9, <2>10 DEF CombineInv
<1> QED
  BY <1>4, <1>5, <1>6 DEF AllCallback

\* A callback of FirstOf: released_ lets one of them through.
LEMMA FirstOfCallbackInv ==
  ASSUME CombineInv, NEW i \in Inputs, FirstOfCallback(i) PROVE CombineInv'
<1>1. /\ combinator = "FirstOf" /\ UNCHANGED <<combinator, n, input, error, counter, results>>
      /\ callback[i] # "end"
  BY DEF FirstOfCallback, FirstOfGetsError, FirstOfExchanges, FirstOfSets, Runs, inputs, outcome,
     allVars, CombineInv, AllInv, CombineTypes
<1>2. AllInv' /\ Inputs' = Inputs /\ i \in Nat /\ n # 0
  BY <1>1 DEF AllInv, Inputs, CombineInv, CombineTypes
<1>3. ASSUME NEW to \in {"set", "end"}, callback' = [callback EXCEPT ![i] = to]
      PROVE  /\ callback'[i] = to /\ \A j \in Inputs : j # i => callback'[j] = callback[j]
             /\ callback' \in [Inputs -> {"waiting", "set", "end"}]
  BY <1>3 DEF CombineInv, CombineTypes
<1>4. ASSUME FirstOfGetsError(i) PROVE CombineInv'
  <2>1. /\ callback' = [callback EXCEPT ![i] = "end"] /\ input[i] = "fail"
        /\ failures' = Append(failures, i) /\ UNCHANGED <<promise, out, panicked, released>>
    BY <1>4 DEF FirstOfGetsError, Runs, Ends, outcome
  <2>2. failures' \in Seq(Nat)
    BY <1>2, <2>1 DEF CombineInv, CombineTypes
  <2>3. CombineTypes' /\ FromInputs'
    BY <1>1, <1>2, <1>3, <2>1, <2>2 DEF CombineInv, CombineTypes, FromInputs
  <2>4. FirstOfInv' /\ OutcomeRight'
    BY <1>1, <1>2, <1>3, <2>1 DEF CombineInv, FirstOfInv, OutcomeRight
  <2> QED
    BY <1>2, <2>3, <2>4 DEF CombineInv
<1>5. ASSUME FirstOfExchanges(i) PROVE CombineInv'
  <2>1. /\ \/ released /\ callback' = [callback EXCEPT ![i] = "end"]
           \/ ~released /\ callback' = [callback EXCEPT ![i] = "set"]
        /\ released' /\ input[i] = "ok" /\ UNCHANGED <<promise, out, panicked, failures>>
    BY <1>5 DEF FirstOfExchanges, Runs, outcome
  <2>2. CombineTypes' /\ FromInputs'
    BY <1>1, <1>2, <1>3, <2>1 DEF CombineInv, CombineTypes, FromInputs
  <2>3. FirstOfInv' /\ OutcomeRight'
    BY <1>1, <1>2, <1>3, <2>1 DEF CombineInv, FirstOfInv, OutcomeRight
  <2> QED
    BY <1>2, <2>2, <2>3 DEF CombineInv
<1>6. ASSUME FirstOfSets(i) PROVE CombineInv'
  <2>1. promise /\ input[i] = "ok" /\ released
    BY <1>1, <1>6 DEF FirstOfSets, CombineInv, FirstOfInv
  <2>2. /\ callback' = [callback EXCEPT ![i] = "end"] /\ callback[i] = "set" /\ ~promise'
        /\ out'.kind = "value" /\ out'.from = <<i>> /\ UNCHANGED <<panicked, released, failures>>
    BY <1>6, <2>1 DEF FirstOfSets, Ends, Value
  <2>3. CombineTypes' /\ FromInputs'
    BY <1>1, <1>2, <1>3, <2>2 DEF CombineInv, CombineTypes, FromInputs
  <2>4. FirstOfInv'
    BY <1>1, <1>2, <1>3, <2>1, <2>2 DEF CombineInv, FirstOfInv
  <2>5. OutcomeRight'
    BY <1>1, <1>2, <1>3, <2>1, <2>2 DEF CombineInv, OutcomeRight
  <2> QED
    BY <1>2, <2>3, <2>4, <2>5 DEF CombineInv
<1> QED
  BY <1>4, <1>5, <1>6 DEF FirstOfCallback

\* Every step of the combinators keeps the invariant.
LEMMA CombineNext == ASSUME CombineInv, [Next]_vars PROVE CombineInv'
<1>1. ASSUME NEW i \in Inputs, Resolve(i) \/ AllCallback(i) \/ FirstOfCallback(i) PROVE CombineInv'
  BY <1>1, ResolveInv, AllCallbackInv, FirstOfCallbackInv
<1>2. ASSUME UNCHANGED vars PROVE CombineInv'
  BY <1>2, CombineKept DEF vars, inputs, outcome, allVars
<1> QED
  BY <1>1, <1>2, CombineStep DEF Next, Over

\* A result that was given out stays: no callback sets the promise again.
LEMMA OutStays == ASSUME CombineInv, [Next]_vars, HasResult(out) PROVE out' = out
<1>1. out.kind \in {"value", "error"}
  BY DEF HasResult
<1>2. ASSUME NEW i \in Inputs, AllCallback(i) PROVE out' = out
  <2>1. error \/ callback[i] = "end"
    BY <1>1, <1>2 DEF CombineInv, AllInv, AllCallback, AllIgnores, AllGetsValue, AllGetsError, Runs
  <2> QED
    BY <1>2, <2>1 DEF AllCallback, AllIgnores, AllGetsValue, AllGetsError, Runs, outcome
<1>3. ASSUME NEW i \in Inputs, FirstOfCallback(i) PROVE out' = out
  <2>1. combinator = "FirstOf" => ~promise
    BY <1>1 DEF CombineInv, FirstOfInv
  <2>2. FirstOfSets(i) => combinator = "FirstOf"
    BY DEF FirstOfSets, CombineInv, CombineTypes, AllInv
  <2> QED
    BY <1>3, <2>1, <2>2 DEF FirstOfCallback, FirstOfGetsError, FirstOfExchanges, FirstOfSets, outcome
<1>4. Combine => out' = out
  BY <1>1 DEF Combine, CombineEmpty, Subscribe, Pending, outcome
<1>5. UNCHANGED vars => out' = out
  BY DEF vars, outcome
<1> QED
  BY <1>2, <1>3, <1>4, <1>5 DEF Next, Resolve, outcome, Over

\* "All values | first error", and the first value: for any number of inputs.
THEOREM OutcomesAreRight == Spec => []OutcomeRight
<1>1. CombineInv /\ [Next]_vars => CombineInv'
  BY CombineNext
<1>2. CombineInv => OutcomeRight
  BY DEF CombineInv
<1> QED
  BY <1>1, <1>2, CombineInit, PTL DEF Spec

\* What the promise got, as soon as the callbacks that decide it have run
OutcomeKept ==
    /\ combinator = "All" =>
         /\ error => out.kind = "error"
         /\ ~error /\ n # 0 /\ counter = n => out.kind = "value"
    /\ combinator = "FirstOf" /\ released =>
         out.kind = "value" \/ \E i \in Inputs : callback[i] = "set"

\* When the callbacks of all completed inputs have run, a combination whose
\* outcome is known has it: none falls between two callbacks.
OutcomeGivenOut ==
    n # 0 /\ Decided /\ (\A i \in Inputs : input[i] # "pending" => callback[i] = "end")
      => out.kind \in {"value", "error"}

\* The callback that raises the counter to n, or wins released_, gives it out.
LEMMA OutcomeKeptStep ==
    ASSUME CombineInv, OutcomeKept, [Next]_vars
    PROVE  OutcomeKept'
<1>0. CombineTypes
  BY DEF CombineInv
<1>1. ASSUME NEW i \in Inputs, Resolve(i) PROVE OutcomeKept'
  BY <1>1 DEF OutcomeKept, Resolve, outcome, allVars, Inputs
<1>2. ASSUME NEW i \in Inputs, AllIgnores(i) PROVE OutcomeKept'
  BY <1>2 DEF OutcomeKept, AllIgnores, Runs, inputs, outcome, allVars
<1>3. ASSUME NEW i \in Inputs, AllGetsValue(i) PROVE OutcomeKept'
  BY <1>3 DEF OutcomeKept, AllGetsValue, Runs, inputs, Value
<1>4. ASSUME NEW i \in Inputs, AllGetsError(i) PROVE OutcomeKept'
  BY <1>4 DEF OutcomeKept, AllGetsError, Runs, inputs, Failure
<1>5. ASSUME NEW i \in Inputs, FirstOfGetsError(i) PROVE OutcomeKept'
  <2>1. combinator = "FirstOf" /\ callback[i] = "waiting"
    BY <1>5 DEF FirstOfGetsError, Runs
  <2>2. \A j \in Inputs : callback[j] = "set" => callback'[j] = "set"
    BY <1>0, <1>5, <2>1 DEF FirstOfGetsError, Ends, CombineTypes
  <2> QED
    BY <1>5, <2>1, <2>2 DEF OutcomeKept, FirstOfGetsError, inputs, outcome, Inputs
<1>6. ASSUME NEW i \in Inputs, FirstOfExchanges(i) PROVE OutcomeKept'
  <2>1. combinator = "FirstOf" /\ callback[i] = "waiting" /\ Inputs' = Inputs
    BY <1>6 DEF FirstOfExchanges, Runs, inputs, Inputs
  <2>2. \A j \in Inputs : callback[j] = "set" => callback'[j] = "set"
    BY <1>0, <1>6, <2>1 DEF FirstOfExchanges, CombineTypes
  <2>3. ~released => callback'[i] = "set"
    BY <1>0, <1>6 DEF FirstOfExchanges, CombineTypes
  <2> QED
    BY <1>6, <2>1, <2>2, <2>3 DEF OutcomeKept, FirstOfExchanges, inputs, outcome
<1>7. ASSUME NEW i \in Inputs, FirstOfSets(i) PROVE OutcomeKept'
  <2>1. combinator = "FirstOf" /\ promise
    BY <1>0, <1>7 DEF FirstOfSets, CombineInv, AllInv, FirstOfInv, CombineTypes
  <2> QED
    BY <1>7, <2>1 DEF OutcomeKept, FirstOfSets, inputs, Value
<1>8. ASSUME Combine PROVE OutcomeKept'
  <2>1. CASE CombineEmpty
    BY <1>0, <2>1 DEF OutcomeKept, CombineEmpty, CombineInv, FirstOfInv, CombineTypes, Inputs,
                      inputs, allVars, Pending
  <2>2. CASE Subscribe
    BY <2>2 DEF OutcomeKept, Subscribe, inputs, outcome, allVars, Inputs
  <2> QED
    BY <1>8, <2>1, <2>2 DEF Combine
<1>9. ASSUME UNCHANGED vars PROVE OutcomeKept'
  BY <1>9 DEF OutcomeKept, vars, inputs, outcome, allVars, Inputs
<1> QED
  BY <1>1, <1>2, <1>3, <1>4, <1>5, <1>6, <1>7, <1>8, <1>9
  DEF Next, AllCallback, FirstOfCallback, Over

\* When All has the values of all inputs, each once, it has counted them all.
LEMMA AllCounted ==
    ASSUME NEW m \in Nat, NEW c \in Nat, NEW s \in Seq(Nat), Len(s) = c,
           \A i \in 1..c : s[i] \in 1..m,
           \A i, j \in 1..c : s[i] = s[j] => i = j,
           \A k \in 1..m : \E i \in 1..c : s[i] = k
    PROVE  c = m
<1> DEFINE f == [i \in 1..c |-> s[i]]
<1>1. f \in Surjection(1..c, 1..m) /\ f \in Injection(1..c, 1..m)
  <2>1. f \in [1..c -> 1..m] /\ DOMAIN f = 1..c /\ \A i \in 1..c : f[i] = s[i]
    OBVIOUS
  <2> HIDE DEF f
  <2> QED
    BY <2>1 DEF Surjection, Injection, IsInjective
<1>2. IsFiniteSet(1..c) /\ Cardinality(1..c) = c /\ Cardinality(1..m) = m
  BY FS_Interval
<1> HIDE DEF f
<1>3. Cardinality(1..m) = Cardinality(1..c)
  BY <1>1, <1>2, FS_Surjection
<1> QED
  BY <1>2, <1>3

\* All and FirstOf leave no outcome behind, in whatever order their callbacks run.
THEOREM OutcomesAreGivenOut == Spec => []OutcomeGivenOut
<1>1. Init => OutcomeKept
  BY InputsAssumption DEF Init, OutcomeKept
<1>2. CombineInv /\ OutcomeKept /\ [Next]_vars => OutcomeKept'
  BY OutcomeKeptStep
<1>3. ASSUME CombineInv, OutcomeKept PROVE OutcomeGivenOut
  <2> SUFFICES ASSUME n # 0, Decided,
                      \A i \in Inputs : input[i] # "pending" => callback[i] = "end"
               PROVE  out.kind \in {"value", "error"}
    BY DEF OutcomeGivenOut
  <2>1. CASE combinator = "All" /\ error
    BY <1>3, <2>1 DEF OutcomeKept
  <2>2. CASE combinator = "All" /\ ~error
    <3>1. \A i \in Inputs : input[i] = "ok"
      BY <1>3, <2>2 DEF Decided, CombineInv, AllInv
    <3>2. \A i \in Inputs : callback[i] = "end"
      BY <3>1
    <3>3. /\ n \in Nat /\ counter \in Nat /\ results \in Seq(Nat) /\ Len(results) = counter
          /\ \A s \in 1..counter : results[s] \in Inputs
          /\ \A s, t \in 1..counter : results[s] = results[t] => s = t
          /\ \A i \in Inputs : \E s \in 1..counter : results[s] = i
      BY <1>3, <2>2, <3>2 DEF CombineInv, AllInv, CombineTypes
    <3>4. counter = n
      BY <3>3, AllCounted DEF Inputs
    <3> QED
      BY <1>3, <2>2, <3>4 DEF OutcomeKept
  <2>3. CASE combinator = "FirstOf"
    <3>1. PICK i \in Inputs : input[i] = "ok"
      BY <2>3 DEF Decided
    <3>2. released
      BY <1>3, <2>3, <3>1 DEF CombineInv, OutcomeRight
    <3>3. \A j \in Inputs : callback[j] # "set"
      BY <1>3, <2>3 DEF CombineInv, FirstOfInv
    <3> QED
      BY <1>3, <2>3, <3>2, <3>3 DEF OutcomeKept
  <2> QED
    BY <1>3, <2>1, <2>2, <2>3 DEF CombineInv, CombineTypes
<1>4. CombineInv /\ [Next]_vars => CombineInv'
  BY CombineNext
<1> QED
  BY <1>1, <1>2, <1>3, <1>4, CombineInit, PTL DEF Spec

-----------------------------------------------------------------------------
(* The chain of continuations *)

Contents == [kind : {"pending", "awaited", "broken", "value", "error"}, from : Nat]

Place == Executors \cup {NoExecutor}

ChainTypes ==
    /\ link \in Seq({"Then", "AsyncThen", "Recover"})
    /\ future \in Seq(Contents) /\ Len(future) = Len(link)
    /\ executor \in Seq(Place) /\ Len(executor) = Len(link) + 1
    /\ asked \in Seq(Place) /\ Len(asked) = Len(link)
    /\ ran \in Seq(Place \cup {"never"}) /\ Len(ran) = Len(link)

\* e is the executor of the last Via before link k.  That there is a last one is
\* what Asked cannot say of itself
Vias(k) == {j \in 1..k : asked[j] # NoExecutor}
LastVia(k, e) == \/ Vias(k) = {} /\ e = NoExecutor
                 \/ \E j \in Vias(k) : (\A l \in Vias(k) : l <= j) /\ e = asked[j]

\* Every future has taken its executor over
ExecutorsFollow == /\ \A k \in Links : LastVia(k, executor[k])
                   /\ LastVia(Len(link), executor[Len(link) + 1])

\* The links get their results one after the other, and a function that has run
\* leaves a trace in the future of its link
InTurn ==
    /\ \A k \in Links : future[k] # Unset => HasResult(Input(k))
    /\ \A k \in Links : ~aborted /\ future[k] = Unset => ran[k] = "never"
    /\ \A k \in Links : future[k] = Awaited => ran[k] # "never"
    /\ \A k, l \in Links : future[k] # Unset /\ l < k => HasResult(future[l])

\* A result comes from a link that ran, over links that it was not for
Passed ==
    \A k \in Links : HasResult(future[k]) =>
      /\ future[k].from \in 0..k
      /\ future[k].from # 0 => ran[future[k].from] # "never"
      /\ \A l \in future[k].from + 1..k :
           (link[l] = "Recover" <=> future[k].kind = "value") /\ ran[l] = "never"

\* A function ran for a result of its kind, on the executor of its link
RanRight ==
    \A k \in Links : ran[k] # "never" =>
      /\ HasResult(Input(k))
      /\ Input(k).kind = IF link[k] = "Recover" THEN "error" ELSE "value"
      /\ ran[k] = executor[k]

ChainInv == ChainTypes /\ ExecutorsFollow /\ InTurn /\ Passed /\ RanRight

\* There are no links yet.
LEMMA ChainInit0 == ChainInit => ChainInv
<1> SUFFICES ASSUME ChainInit PROVE ChainInv
  OBVIOUS
<1>1. link = <<>> /\ future = <<>> /\ executor = <<NoExecutor>> /\ asked = <<>> /\ ran = <<>>
  BY DEF ChainInit
<1>2. Len(link) = 0 /\ Links = {} /\ Vias(0) = {}
  BY <1>1 DEF Links, Vias
<1>3. ChainTypes
  BY <1>1 DEF ChainTypes, Place
<1>4. ExecutorsFollow
  <2>1. executor[1] = NoExecutor
    BY <1>1
  <2> QED
    BY <1>2, <2>1 DEF ExecutorsFollow, LastVia
<1> QED
  BY <1>2, <1>3, <1>4 DEF ChainInv, InTurn, Passed, RanRight

\* Asked is the executor of the last Via, if there is a last one.
LEMMA AskedIsLast == ASSUME NEW k \in Nat, NEW e, LastVia(k, e) PROVE e = Asked(k)
<1>1. CASE Vias(k) = {} /\ e = NoExecutor
  BY <1>1 DEF Vias, Asked
<1>2. CASE \E j \in Vias(k) : (\A l \in Vias(k) : l <= j) /\ e = asked[j]
  <2>1. PICK j \in Vias(k) : (\A l \in Vias(k) : l <= j) /\ e = asked[j]
    BY <1>2
  <2>2. \A i \in Vias(k) : i \in Nat
    BY DEF Vias
  <2>3. (CHOOSE i \in Vias(k) : \A l \in Vias(k) : l <= i) = j
    BY <2>1, <2>2
  <2>4. Vias(k) # {} /\ Asked(k) = IF Vias(k) = {} THEN NoExecutor
                       ELSE asked[CHOOSE i \in Vias(k) : \A l \in Vias(k) : l <= i]
    BY <2>1 DEF Asked, Vias
  <2> QED
    BY <2>1, <2>3, <2>4
<1> QED
  BY <1>1, <1>2 DEF LastVia

\* What a link has got to work on stays, as results are final.
LEMMA InputStays ==
  ASSUME NEW k \in Links, HasResult(Input(k)), HasResult(out) => out' = out,
         link \in Seq({"Then", "AsyncThen", "Recover"}),
         \A l \in Links : HasResult(future[l]) => future'[l] = future[l]
  PROVE  Input(k)' = Input(k)
<1>1. CASE k = 1
  BY <1>1 DEF Input, HasResult
<1>2. CASE k # 1
  <2>1. k - 1 \in Links
    BY <1>2 DEF Links
  <2> QED
    BY <1>2, <2>1 DEF Input
<1> QED
  BY <1>1, <1>2

\* A step that leaves the chain alone and keeps the result of Combine.
LEMMA ChainKept ==
  ASSUME ChainInv, UNCHANGED chainVars, HasResult(out) => out' = out PROVE ChainInv'
<1>1. UNCHANGED <<link, executor, future, aborted, asked, ran>>
  BY DEF chainVars
<1>2. \A k \in Links : HasResult(Input(k)) => Input(k)' = Input(k)
  BY <1>1, InputStays DEF ChainInv, ChainTypes
<1>3. Links' = Links /\ \A k \in Links : HasResult(future[k])' <=> HasResult(future[k])
  BY <1>1 DEF Links, HasResult
<1>4. ChainTypes' /\ ExecutorsFollow'
  BY <1>1, <1>3 DEF ChainInv, ChainTypes, ExecutorsFollow, LastVia, Vias, Place
<1>5. \A k \in Links : HasResult(Input(k)) => HasResult(Input(k))'
  BY <1>2 DEF HasResult
<1>6. InTurn'
  BY <1>1, <1>3, <1>5 DEF ChainInv, InTurn, Unset, Awaited
<1>7. Passed'
  BY <1>1, <1>3 DEF ChainInv, Passed
<1>8. RanRight'
  BY <1>1, <1>2, <1>3, <1>5 DEF ChainInv, RanRight
<1> QED
  BY <1>4, <1>6, <1>7, <1>8 DEF ChainInv

\* A new link has nothing yet, and takes the executor over.
LEMMA AddLinkInv ==
  ASSUME ChainInv, NEW l \in {"Then", "AsyncThen", "Recover"}, AddLink(l), UNCHANGED vars
  PROVE  ChainInv'
<1> DEFINE m == Len(link)
<1>1. PICK e \in Place : /\ asked' = Append(asked, e)
                         /\ Transform(IF e = NoExecutor THEN executor[Newest] ELSE e)
  BY DEF AddLink, Place
<1> DEFINE to == IF e = NoExecutor THEN executor[m + 1] ELSE e
<1>2. /\ link' = Append(link, l) /\ future' = Append(future, Unset) /\ ran' = Append(ran, "never")
      /\ aborted' = aborted /\ out' = out
  BY DEF AddLink, vars, outcome
<1>3. /\ m \in Nat /\ Newest = m + 1 /\ m + 1 = Len(executor) /\ m + 1 \in 1..m + 1
      /\ executor \in Seq(Place) /\ executor[m + 1] \in Place /\ to \in Place
  BY DEF ChainInv, ChainTypes, Newest
<1>4. executor' = Append([executor EXCEPT ![m + 1] = to], to)
  BY <1>1, <1>3 DEF Transform
<1>5. /\ link' \in Seq({"Then", "AsyncThen", "Recover"}) /\ Len(link') = m + 1
      /\ \A k \in 1..m : link'[k] = link[k]
  BY <1>2 DEF ChainInv, ChainTypes
<1>6. /\ future' \in Seq(Contents) /\ Len(future') = m + 1
      /\ future'[m + 1] = Unset /\ \A k \in 1..m : future'[k] = future[k]
  <2>1. Unset \in Contents /\ future \in Seq(Contents)
        /\ Len(future) = m
    BY DEF Unset, Contents, ChainInv, ChainTypes
  <2> HIDE DEF m
  <2> QED
    BY <1>2, <2>1
<1>7. /\ ran' \in Seq(Place \cup {"never"}) /\ Len(ran') = m + 1
      /\ ran'[m + 1] = "never" /\ \A k \in 1..m : ran'[k] = ran[k]
  BY <1>2 DEF ChainInv, ChainTypes
<1>8. /\ asked' \in Seq(Place) /\ Len(asked') = m + 1
      /\ asked'[m + 1] = e /\ \A k \in 1..m : asked'[k] = asked[k]
  BY <1>1 DEF ChainInv, ChainTypes
<1>9. /\ executor' \in Seq(Place) /\ Len(executor') = m + 2
      /\ executor'[m + 1] = to /\ executor'[m + 2] = to
      /\ \A k \in 1..m : executor'[k] = executor[k]
  <2> DEFINE changed == [executor EXCEPT ![m + 1] = to]
  <2> HIDE DEF m, to
  <2>1. /\ changed \in Seq(Place) /\ Len(changed) = m + 1 /\ changed[m + 1] = to
        /\ \A k \in 1..m : changed[k] = executor[k]
    BY <1>3
  <2>2. executor' = Append(changed, to)
    BY <1>4
  <2> HIDE DEF changed
  <2>3. /\ executor' \in Seq(Place) /\ Len(executor') = m + 1 + 1 /\ executor'[m + 1 + 1] = to
        /\ \A k \in 1..m + 1 : executor'[k] = changed[k]
    BY <1>3, <2>1, <2>2
  <2> QED
    BY <1>3, <2>1, <2>3
<1> HIDE DEF m, to
<1>10. Links = 1..m /\ Links' = 1..m + 1 /\ (\A k \in 1..m + 1 : k \in 1..m \/ k = m + 1)
  BY <1>3, <1>5 DEF Links, m
<1>11. ChainTypes'
  BY <1>5, <1>6, <1>7, <1>8, <1>9, <1>3 DEF ChainTypes, Place
<1>12. /\ \A k \in 1..m : HasResult(Input(k)) => Input(k)' = Input(k)
       /\ \A k \in 1..m : HasResult(Input(k)) => HasResult(Input(k))'
  BY <1>2, <1>6, <1>10, InputStays DEF ChainInv, ChainTypes
<1>13. ExecutorsFollow'
  <2> DEFINE NewVias(k) == {j \in 1..k : asked'[j] # NoExecutor}
             IsLast(k, d) == \/ NewVias(k) = {} /\ d = NoExecutor
                             \/ \E j \in NewVias(k) : /\ \A i \in NewVias(k) : i <= j
                                                     /\ d = asked'[j]
  <2>1. \A k \in 0..m : NewVias(k) = Vias(k) /\ \A j \in Vias(k) : asked'[j] = asked[j]
    BY <1>3, <1>8 DEF Vias
  <2>2. ASSUME NEW k \in 0..m, NEW d, LastVia(k, d) PROVE IsLast(k, d)
    BY <2>1, <2>2 DEF LastVia
  <2>3. /\ LastVia(m, executor[m + 1]) /\ \A k \in 1..m : LastVia(k, executor[k])
    BY <1>10 DEF ChainInv, ExecutorsFollow, m
  <2>4. IsLast(m + 1, to)
    <3>1. CASE e = NoExecutor
      <4>1. NewVias(m + 1) = NewVias(m)
        BY <1>3, <1>8, <3>1
      <4>2. IsLast(m, to)
        BY <1>3, <2>2, <2>3, <3>1 DEF to
      <4> QED
        BY <4>1, <4>2
    <3>2. CASE e # NoExecutor
      <4>1. /\ m + 1 \in NewVias(m + 1) /\ \A j \in NewVias(m + 1) : j <= m + 1
            /\ to = asked'[m + 1]
        BY <1>3, <1>8, <3>2 DEF to
      <4> QED
        BY <4>1
    <3> QED
      BY <3>1, <3>2
  <2>5. \A k \in 1..m : IsLast(k, executor'[k])
    BY <1>3, <1>9, <2>2, <2>3
  <2>6. /\ \A k \in 1..m + 1 : IsLast(k, executor'[k])
        /\ IsLast(Len(link'), executor'[Len(link') + 1])
    <3>1. m + 1 + 1 = m + 2
      BY <1>3
    <3> HIDE DEF IsLast
    <3> QED
      BY <1>5, <1>9, <1>10, <2>4, <2>5, <3>1
  <2> QED
    BY <1>10, <2>6 DEF ExecutorsFollow, LastVia, Vias
<1>14. InTurn'
  <2>1. Unset # Awaited /\ \A k \in 1..m : k < m + 1
    BY <1>3 DEF Unset, Awaited
  <2>2. /\ \A k \in 1..m + 1 : future'[k] # Unset => HasResult(Input(k))'
        /\ \A k \in 1..m + 1 : ~aborted' /\ future'[k] = Unset => ran'[k] = "never"
        /\ \A k \in 1..m + 1 : future'[k] = Awaited => ran'[k] # "never"
    BY <1>2, <1>6, <1>7, <1>10, <1>12, <2>1 DEF ChainInv, InTurn
  <2>3. ASSUME NEW k \in 1..m + 1, NEW i \in 1..m + 1, future'[k] # Unset, i < k
        PROVE  HasResult(future'[i])
    <3>1. k \in 1..m /\ i \in 1..m
      BY <1>3, <1>6, <1>10, <2>3
    <3> QED
      BY <1>6, <1>10, <2>3, <3>1 DEF ChainInv, InTurn
  <2> QED
    BY <1>10, <2>2, <2>3 DEF InTurn, HasResult, Unset, Awaited
<1>15. Passed'
  <2>1. ~HasResult(Unset)
    BY DEF HasResult, Unset
  <2>2. ASSUME NEW k \in 1..m, HasResult(future[k]), NEW i \in future[k].from + 1..k
        PROVE  i \in 1..m
    BY <1>3, <1>10, <2>2 DEF ChainInv, Passed
  <2>3. ASSUME NEW k \in 1..m + 1, HasResult(future'[k])
        PROVE  /\ future'[k].from \in 0..k
               /\ future'[k].from # 0 => ran'[future'[k].from] # "never"
               /\ \A i \in future'[k].from + 1..k :
                    (link'[i] = "Recover" <=> future'[k].kind = "value") /\ ran'[i] = "never"
    <3>1. k \in 1..m /\ future'[k] = future[k]
      BY <1>6, <1>10, <2>1, <2>3
    <3>2. /\ future[k].from \in 0..k
          /\ future[k].from # 0 => ran[future[k].from] # "never"
          /\ \A i \in future[k].from + 1..k :
               (link[i] = "Recover" <=> future[k].kind = "value") /\ ran[i] = "never"
      BY <1>10, <2>3, <3>1 DEF ChainInv, Passed
    <3>3. future[k].from # 0 => future[k].from \in 1..m
      BY <1>3, <3>1, <3>2
    <3> QED
      BY <1>5, <1>7, <2>2, <2>3, <3>1, <3>2, <3>3
  <2> QED
    BY <1>10, <2>3 DEF Passed, HasResult
<1>16. RanRight'
  BY <1>3, <1>5, <1>7, <1>9, <1>10, <1>12 DEF ChainInv, RanRight
<1> QED
  BY <1>11, <1>13, <1>14, <1>15, <1>16 DEF ChainInv

\* How link k can go on.
Passes(k) ==
    /\ future[k] = Unset /\ future'[k] = Input(k) /\ ran'[k] = ran[k] /\ HasResult(Input(k))
    /\ link[k] = "Recover" <=> Input(k).kind = "value"
HasRun(k) ==
    /\ future[k] = Unset /\ HasResult(Input(k)) /\ ran'[k] = executor[k]
    /\ Input(k).kind = IF link[k] = "Recover" THEN "error" ELSE "value"
    /\ future'[k] \in {Ok(k), Fail(k), Awaited} \/ (future'[k] = Unset /\ aborted')
Aborts(k) == /\ future[k] = Unset /\ future'[k] = Unset /\ ran'[k] = ran[k] /\ aborted'
             /\ HasResult(Input(k))
Awoken(k) == /\ future[k] = Awaited /\ future'[k] \in {Ok(k), Broken} /\ ran'[k] = ran[k]
             /\ aborted' = aborted

\* The callback of a link has one of these effects and touches no other link.
LEMMA LinkEffect ==
  ASSUME ChainInv, NEW k \in Links, Callback(k) \/ AsyncCompletes(k)
  PROVE  /\ UNCHANGED <<link, executor, asked>>
         /\ Passes(k) \/ HasRun(k) \/ Aborts(k) \/ Awoken(k)
         /\ future' \in Seq(Contents) /\ Len(future') = Len(link)
         /\ ran' \in Seq(Place \cup {"never"}) /\ Len(ran') = Len(link)
         /\ \A j \in Links : j # k => future'[j] = future[j] /\ ran'[j] = ran[j]
<1>1. /\ k \in 1..Len(link) /\ Len(link) \in Nat /\ k \in Nat
      /\ future \in [1..Len(link) -> Contents] /\ future \in Seq(Contents) /\ Len(future) = Len(link)
      /\ ran \in [1..Len(link) -> Place \cup {"never"}] /\ ran \in Seq(Place \cup {"never"})
      /\ Len(ran) = Len(link)
      /\ link[k] \in {"Then", "AsyncThen", "Recover"} /\ executor[k] \in Place
  BY DEF Links, ChainInv, ChainTypes
<1>2. ASSUME NEW c \in Contents, NEW p \in Place \cup {"never"},
             future' = [future EXCEPT ![k] = c], ran' = [ran EXCEPT ![k] = p]
      PROVE  /\ future'[k] = c /\ ran'[k] = p
             /\ future' \in Seq(Contents) /\ Len(future') = Len(link)
             /\ ran' \in Seq(Place \cup {"never"}) /\ Len(ran') = Len(link)
             /\ \A j \in Links : j # k => future'[j] = future[j] /\ ran'[j] = ran[j]
  BY <1>1, <1>2 DEF Links
<1>3. /\ Unset \in Contents /\ Awaited \in Contents /\ Broken \in Contents
      /\ Ok(k) \in Contents /\ Fail(k) \in Contents
      /\ HasResult(Input(k)) => Input(k) \in Contents
  <2>1. k # 1 => Input(k) \in Contents
    BY <1>1 DEF Input
  <2>2. k = 1 /\ HasResult(Input(k)) => Input(k) \in Contents
    BY DEF Input, HasResult, Contents
  <2> QED
    BY <1>1, <2>1, <2>2 DEF Contents, Unset, Awaited, Broken, Ok, Fail
<1>4. ran = [ran EXCEPT ![k] = ran[k]] /\ ran[k] \in Place \cup {"never"}
  BY <1>1
<1>5. future = [future EXCEPT ![k] = future[k]]
  BY <1>1
<1>6. ASSUME AsyncCompletes(k)
      PROVE  \E c \in {Ok(k), Broken} :
               /\ future' = [future EXCEPT ![k] = c] /\ ran' = [ran EXCEPT ![k] = ran[k]]
               /\ future[k] = Awaited /\ aborted' = aborted
  BY <1>4, <1>6 DEF AsyncCompletes, Sets
<1>7. ASSUME Callback(k)
      PROVE  /\ future[k] = Unset /\ HasResult(Input(k))
             /\ \/ Propagate(k, Input(k)) \/ Invoke(k, Input(k))
                \/ AsyncInvoke(k, Input(k)) \/ AsyncFails(k, Input(k))
  BY <1>7 DEF Callback, Called
<1>8. UNCHANGED <<link, executor, asked>>
  BY DEF Callback, AsyncCompletes
<1>9. CASE AsyncCompletes(k)
  BY <1>2, <1>3, <1>4, <1>6, <1>8, <1>9 DEF Awoken
<1>10. CASE Callback(k) /\ Propagate(k, Input(k))
  <2>1. /\ future' = [future EXCEPT ![k] = Input(k)] /\ ran' = [ran EXCEPT ![k] = ran[k]]
        /\ link[k] = "Recover" <=> Input(k).kind = "value"
    BY <1>1, <1>4, <1>7, <1>10 DEF Propagate, Sets, Invokes, HasResult
  <2> QED
    BY <1>2, <1>3, <1>4, <1>7, <1>8, <1>10, <2>1 DEF Passes
<1>11. CASE Callback(k) /\ (Invoke(k, Input(k)) \/ AsyncInvoke(k, Input(k)))
  <2>1. PICK c \in {Ok(k), Fail(k), Awaited} :
          /\ future' = [future EXCEPT ![k] = c] /\ ran' = [ran EXCEPT ![k] = executor[k]]
    BY <1>11 DEF Invoke, AsyncInvoke, Sets, RunsHere
  <2>2. Input(k).kind = IF link[k] = "Recover" THEN "error" ELSE "value"
    BY <1>11 DEF Invoke, AsyncInvoke, Invokes
  <2> QED
    BY <1>1, <1>2, <1>3, <1>7, <1>8, <1>11, <2>1, <2>2 DEF HasRun
<1>12. CASE Callback(k) /\ AsyncFails(k, Input(k))
  <2>1. future' = [future EXCEPT ![k] = Unset] /\ future[k] = Unset /\ HasResult(Input(k)) /\ aborted'
    BY <1>5, <1>7, <1>12 DEF AsyncFails
  <2>2. CASE Invokes(k, Input(k))
    <3>1. /\ ran' = [ran EXCEPT ![k] = executor[k]]
          /\ Input(k).kind = IF link[k] = "Recover" THEN "error" ELSE "value"
      BY <1>12, <2>2 DEF AsyncFails, RunsHere, Invokes
    <3> QED
      BY <1>1, <1>2, <1>3, <1>8, <2>1, <3>1 DEF HasRun
  <2>3. CASE ~Invokes(k, Input(k))
    <3>1. ran' = [ran EXCEPT ![k] = ran[k]]
      BY <1>4, <1>12, <2>3 DEF AsyncFails
    <3> QED
      BY <1>2, <1>3, <1>4, <1>8, <2>1, <3>1 DEF Aborts
  <2> QED
    BY <2>2, <2>3
<1> QED
  BY <1>7, <1>9, <1>10, <1>11, <1>12

\* A callback: results come in turn, and go on over the links they are not for.
LEMMA CallbackInv ==
  ASSUME ChainInv, Alive, NEW k \in Links, Callback(k) \/ AsyncCompletes(k), UNCHANGED vars
  PROVE  ChainInv'
<1>1. /\ UNCHANGED <<link, executor, asked>> /\ out' = out /\ ~aborted
      /\ Passes(k) \/ HasRun(k) \/ Aborts(k) \/ Awoken(k)
      /\ future' \in Seq(Contents) /\ Len(future') = Len(link)
      /\ ran' \in Seq(Place \cup {"never"}) /\ Len(ran') = Len(link)
      /\ \A j \in Links : j # k => future'[j] = future[j] /\ ran'[j] = ran[j]
  BY LinkEffect DEF Alive, vars, outcome
<1>2. Links' = Links /\ Links = 1..Len(link) /\ Len(link) \in Nat /\ k \in Nat
  BY <1>1 DEF Links, ChainInv, ChainTypes
<1>3. /\ ~HasResult(future[k])
      /\ \A j \in Links : HasResult(future[j]) => j # k /\ future'[j] = future[j]
  BY <1>1 DEF Passes, HasRun, Aborts, Awoken, HasResult, Unset, Awaited
<1>4. \A j \in Links : HasResult(Input(j)) => Input(j)' = Input(j)
  BY <1>1, <1>3, InputStays DEF ChainInv, ChainTypes
<1>5. \A j \in Links : HasResult(Input(j)) => HasResult(Input(j))'
  BY <1>4 DEF HasResult
<1>6. /\ executor[k] \in Place /\ "never" \notin Place
      /\ Unset # Awaited /\ Unset # Broken /\ Awaited # Broken
      /\ \A j \in Nat : /\ Ok(j) \notin {Unset, Awaited} /\ Fail(j) \notin {Unset, Awaited}
                        /\ Ok(j).from = j /\ Fail(j).from = j
      /\ ~HasResult(Unset) /\ ~HasResult(Awaited) /\ ~HasResult(Broken)
  BY <1>2, ChainAssumption DEF ChainInv, ChainTypes, Place, Unset, Awaited, Broken, Ok, Fail, HasResult
<1>7. HasResult(Input(k))
  BY <1>1, <1>6 DEF Passes, HasRun, Aborts, Awoken, ChainInv, InTurn
<1>8. /\ \A j \in Links : ran[j] # "never" => ran'[j] # "never"
      /\ future[k] = Unset => ran[k] = "never"
      /\ future[k] = Awaited => ran[k] # "never"
  BY <1>1, <1>6 DEF Passes, HasRun, Aborts, Awoken, ChainInv, InTurn
<1>9. ChainTypes' /\ ExecutorsFollow'
  BY <1>1, <1>2 DEF ChainInv, ChainTypes, ExecutorsFollow, LastVia, Vias, Place, Contents
<1>10. \A j \in Links : j < k => HasResult(future[j])
  <2> SUFFICES ASSUME NEW j \in Links, j < k PROVE HasResult(future[j])
    OBVIOUS
  <2>1. k - 1 \in Links /\ HasResult(future[k - 1])
    BY <1>2, <1>7 DEF Input
  <2>2. future[k - 1] # Unset
    BY <1>6, <2>1
  <2> QED
    BY <1>2, <2>1, <2>2 DEF ChainInv, InTurn
<1>11. \A j \in Links : k < j => future[j] = Unset
  BY <1>3 DEF ChainInv, InTurn
<1>12. InTurn'
  <2>1. \A j \in Links : future'[j] # Unset => HasResult(Input(j))'
    BY <1>1, <1>5, <1>7 DEF ChainInv, InTurn
  <2>2. \A j \in Links : ~aborted' /\ future'[j] = Unset => ran'[j] = "never"
    BY <1>1, <1>2, <1>6, <1>7, <1>8 DEF Passes, HasRun, Aborts, Awoken, ChainInv, InTurn
  <2>3. \A j \in Links : future'[j] = Awaited => ran'[j] # "never"
    BY <1>1, <1>6, <1>7, <1>8 DEF Passes, HasRun, Aborts, Awoken, ChainInv, InTurn
  <2>4. ASSUME NEW j \in Links, NEW l \in Links, future'[j] # Unset, l < j
        PROVE  HasResult(future'[l])
    <3>1. j <= k
      BY <1>1, <1>2, <1>11, <2>4
    <3>2. HasResult(future[l])
      BY <1>2, <1>10, <2>4, <3>1
    <3> QED
      BY <1>3, <3>2
  <2> QED
    BY <1>2, <2>1, <2>2, <2>3, <2>4 DEF InTurn, HasResult, Unset, Awaited
<1>13. Passed'
  <2> SUFFICES ASSUME NEW j \in Links, HasResult(future'[j])
               PROVE  /\ future'[j].from \in 0..j
                      /\ future'[j].from # 0 => ran'[future'[j].from] # "never"
                      /\ \A l \in future'[j].from + 1..j :
                           (link[l] = "Recover" <=> future'[j].kind = "value") /\ ran'[l] = "never"
    BY <1>1, <1>2 DEF Passed, HasResult
  <2>1. \A i \in Links : HasResult(future[i]) =>
          /\ future[i].from \in 0..i
          /\ future[i].from # 0 => ran[future[i].from] # "never"
          /\ \A l \in future[i].from + 1..i :
               (link[l] = "Recover" <=> future[i].kind = "value") /\ ran[l] = "never"
    BY DEF ChainInv, Passed
  <2>2. ASSUME NEW i \in Links, HasResult(future[i]), i < k
        PROVE  /\ future[i].from \in 0..i
               /\ future[i].from # 0 => ran'[future[i].from] # "never"
               /\ \A l \in future[i].from + 1..i :
                    (link[l] = "Recover" <=> future[i].kind = "value") /\ ran'[l] = "never"
    <3>1. future[i].from \in 0..i /\ (future[i].from # 0 => future[i].from \in Links)
      BY <1>2, <2>1, <2>2
    <3>2. \A l \in future[i].from + 1..i : l \in Links /\ l # k
      BY <1>2, <2>2, <3>1
    <3> QED
      BY <1>1, <1>8, <2>1, <2>2, <3>1, <3>2
  <2>3. j <= k
    BY <1>1, <1>2, <1>6, <1>11
  <2>4. CASE j < k
    <3>1. future'[j] = future[j]
      BY <1>1, <1>2, <2>4
    <3> QED
      BY <2>2, <2>4, <3>1
  <2>5. CASE j = k /\ Passes(k)
    <3>1. /\ future'[k] = Input(k) /\ ran'[k] = "never"
          /\ link[k] = "Recover" <=> Input(k).kind = "value"
      BY <1>8, <2>5 DEF Passes
    <3>2. CASE k = 1
      <4>1. Input(k).from = 0 /\ 0 + 1..k = {k}
        BY <1>2, <3>2 DEF Input
      <4> QED
        BY <1>2, <2>5, <3>1, <4>1
    <3>3. CASE k # 1
      <4>1. k - 1 \in Links /\ k - 1 < k /\ Input(k) = future[k - 1] /\ HasResult(future[k - 1])
        BY <1>2, <1>7, <3>3 DEF Input
      <4>2. /\ future[k - 1].from \in 0..k - 1
            /\ future[k - 1].from # 0 => ran'[future[k - 1].from] # "never"
            /\ \A l \in future[k - 1].from + 1..k - 1 :
                 (link[l] = "Recover" <=> future[k - 1].kind = "value") /\ ran'[l] = "never"
        BY <2>2, <4>1
      <4>3. /\ future[k - 1].from \in 0..k
            /\ \A l \in future[k - 1].from + 1..k : l = k \/ l \in future[k - 1].from + 1..k - 1
        BY <1>2, <4>2
      <4> QED
        BY <2>5, <3>1, <4>1, <4>2, <4>3
    <3> QED
      BY <3>2, <3>3
  <2>6. CASE j = k /\ ~Passes(k)
    <3>1. future'[k].from = k /\ ran'[k] # "never"
      BY <1>1, <1>2, <1>6, <1>8, <2>6 DEF HasRun, Aborts, Awoken
    <3> QED
      BY <1>2, <2>6, <3>1
  <2> QED
    BY <1>2, <2>3, <2>4, <2>5, <2>6
<1>14. RanRight'
  <2> SUFFICES ASSUME NEW j \in Links, ran'[j] # "never"
               PROVE  /\ HasResult(Input(j))
                      /\ Input(j).kind = IF link[j] = "Recover" THEN "error" ELSE "value"
                      /\ ran'[j] = executor[j]
    BY <1>1, <1>2, <1>4, <1>5 DEF RanRight
  <2>1. CASE ran[j] # "never" /\ ran'[j] = ran[j]
    BY <2>1 DEF ChainInv, RanRight
  <2>2. CASE j = k /\ HasRun(k)
    BY <2>2 DEF HasRun
  <2> QED
    BY <1>1, <1>8, <2>1, <2>2 DEF Passes, Aborts, Awoken
<1> QED
  BY <1>9, <1>12, <1>13, <1>14 DEF ChainInv

\* Both invariants hold of every chain on a combined future.
THEOREM ChainInvariance == ChainSpec => [](CombineInv /\ ChainInv)
<1> DEFINE Step == [CombinatorStep \/ ChainStep \/ Aborted]_allChainVars
<1>1. ChainInit => CombineInv /\ ChainInv
  BY CombineInit, ChainInit0 DEF ChainInit
<1>2. CombineInv /\ ChainInv /\ Step => (CombineInv /\ ChainInv)'
  <2> SUFFICES ASSUME CombineInv, ChainInv, Step PROVE CombineInv' /\ ChainInv'
    OBVIOUS
  <2>1. CASE CombinatorStep \/ UNCHANGED allChainVars
    <3>1. [Next]_vars /\ UNCHANGED chainVars
      BY <2>1 DEF CombinatorStep, allChainVars
    <3> QED
      BY <3>1, CombineNext, OutStays, ChainKept
  <2>2. CASE ChainStep
    <3>1. UNCHANGED vars /\ Alive
      BY <2>2 DEF ChainStep
    <3>2. CombineInv'
      BY <3>1, CombineNext
    <3>3. ChainInv'
      BY <2>2, <3>1, AddLinkInv, CallbackInv DEF ChainStep, Builds
    <3> QED
      BY <3>2, <3>3
  <2> QED
    BY <2>1, <2>2 DEF Aborted
<1> QED
  BY <1>1, <1>2, PTL DEF ChainSpec

\* Errors skip Then, values skip Recover, and every function runs on the executor
\* of the last Via: for chains of any length and any executors.
THEOREM ChainsFlow == ChainSpec => []ResultsFlow
<1>1. ChainInv => ResultsFlow
  <2> SUFFICES ASSUME ChainInv PROVE ResultsFlow
    OBVIOUS
  <2>1. \A k \in Links : k \in Nat /\ executor[k] = Asked(k)
    BY AskedIsLast DEF ChainInv, ExecutorsFollow, Links, ChainTypes
  <2> QED
    BY <2>1 DEF ChainInv, Passed, RanRight, ResultsFlow
<1> QED
  BY <1>1, ChainInvariance, PTL

-----------------------------------------------------------------------------
(* Timers and the priority executor: each invariant is about one of the two, *)
(* and is kept by every step of the composition *)

\* `now' is a clock that was read, or 0: it is never ahead.
TimeInv ==
    /\ clock \in Nat /\ now \in Nat /\ now <= clock
    /\ deadline \in [Timers -> Nat]
    /\ timer \in [Timers -> {"unset", "adding", "queued", "ready", "fired"}]
    /\ NeverEarly

\* A job is where its call says, and in one place only.
JobPlaces ==
    /\ \A k \in Jobs : call[k] = "none" =>
         k \notin queue /\ k \notin finished /\ \A h \in HoodThreads : doing[h] # k
    /\ \A k \in Jobs : call[k] # "none" =>
         k \in queue \/ k \in finished \/ \E h \in HoodThreads : doing[h] = k
    /\ \A k \in queue : k \notin finished /\ \A h \in HoodThreads : doing[h] # k
    /\ \A k \in finished, h \in HoodThreads : doing[h] # k
    /\ \A g, h \in HoodThreads : doing[g] = doing[h] /\ doing[g] # NoJob => g = h

PriorityInv == PriorityTypeOK /\ JobPlaces /\ LambdasCovered

-----------------------------------------------------------------------------
\* The times that After may compute are natural numbers.
LEMMA Sums == ASSUME NEW d \in Delays, clock \in Nat
              PROVE  clock + d \in Nat /\ clock <= clock + d
  BY TimersAssumption

\* The keeper starts with no timer and the clock at 0.
LEMMA TimeInitInv == TimeInit => TimeInv
  BY DEF TimeInit, TimeInv, NeverEarly

\* No step of the keeper, of After or of the clock lets a timer be early.
LEMMA TimeStepInv ==
  ASSUME TimeInv,
         \/ Tick \/ WorkRuns \/ StopRequest \/ StopJoin \/ UNCHANGED timeVars
         \/ \E t \in Timers : AddTimer(t) \/ \E d \in Delays : ToDeadLine(t, d)
  PROVE  TimeInv'
<1> USE DEF TimeInv, NeverEarly
<1>1. ASSUME Tick PROVE TimeInv'
  BY <1>1, TimersAssumption DEF Tick
<1>2. ASSUME WorkChecks PROVE TimeInv'
  BY <1>2 DEF WorkChecks, KeeperGoto
<1>3. ASSUME GrabReadyTimers PROVE TimeInv'
  BY <1>3 DEF GrabReadyTimers, KeeperGoto, Due
<1>4. ASSUME Fire PROVE TimeInv'
  BY <1>4 DEF Fire, Moves
<1>5. ASSUME PollEnds \/ StopRequest \/ StopJoin \/ UNCHANGED timeVars PROVE TimeInv'
  BY <1>5 DEF PollEnds, KeeperGoto, StopRequest, StopJoin, timeVars
<1>6. ASSUME NEW t \in Timers, AddTimer(t) PROVE TimeInv'
  BY <1>6 DEF AddTimer, Moves
<1>7. ASSUME NEW t \in Timers, NEW d \in Delays, ToDeadLine(t, d) PROVE TimeInv'
  BY <1>7, Sums DEF ToDeadLine, Moves
<1> QED
  BY <1>1, <1>2, <1>3, <1>4, <1>5, <1>6, <1>7 DEF WorkRuns

-----------------------------------------------------------------------------
\* The counts of LambdasCovered are numbers.
LEMMA FiniteCounts ==
  ASSUME PriorityTypeOK
  PROVE  /\ IsFiniteSet(queue) /\ Cardinality(queue) \in Nat
         /\ IsFiniteSet({k \in Jobs : call[k] = "emplaced"})
         /\ Cardinality({k \in Jobs : call[k] = "emplaced"}) \in Nat
<1>1. queue \subseteq Jobs /\ {k \in Jobs : call[k] = "emplaced"} \subseteq Jobs
  BY DEF PriorityTypeOK
<1> QED
  BY <1>1, FS_Subset, FS_CardinalityType, PriorityAssumption

\* The executor starts empty.
LEMMA PriorityInitInv == PriorityInit => PriorityInv
<1> SUFFICES ASSUME PriorityInit PROVE PriorityInv
  OBVIOUS
<1>1. PriorityTypeOK
  BY DEF PriorityInit, PriorityTypeOK
<1>2. JobPlaces
  BY PriorityAssumption DEF PriorityInit, JobPlaces
<1>3. LambdasCovered
  <2>1. {k \in Jobs : call[k] = "emplaced"} = {} /\ queue = {} /\ lambdas = 0
    BY DEF PriorityInit
  <2> QED
    BY <2>1, FS_EmptySet DEF LambdasCovered
<1> QED
  BY <1>1, <1>2, <1>3 DEF PriorityInv

\* queue_.emplace: one job and one call between its two halves more.
LEMMA EmplaceInv == ASSUME PriorityInv, NEW k \in Jobs, Emplace(k) PROVE PriorityInv'
<1> DEFINE E == {j \in Jobs : call[j] = "emplaced"}
<1> USE DEF Emplace, PriorityInv
<1>1. PriorityTypeOK'
  BY DEF PriorityTypeOK
<1>2. JobPlaces'
  BY DEF JobPlaces, PriorityTypeOK
<1>3. LambdasCovered'
  <2>1. E' = E \cup {k} /\ k \notin E /\ k \notin queue /\ queue' = queue \cup {k}
    BY DEF PriorityTypeOK, JobPlaces
  <2>2. /\ Cardinality(E \cup {k}) = Cardinality(E) + 1
        /\ Cardinality(queue \cup {k}) = Cardinality(queue) + 1
    BY <2>1, FiniteCounts, FS_AddElement
  <2>3. lambdas' = lambdas /\ lambdas \in Nat
    BY DEF PriorityTypeOK
  <2>0. Cardinality(queue) \in Nat /\ Cardinality(E) \in Nat
    BY FiniteCounts
  <2> HIDE DEF E
  <2>4. Cardinality(queue) = lambdas + Cardinality(E)
    BY DEF LambdasCovered, E
  <2>5. Cardinality(queue') = lambdas' + Cardinality(E')
    BY <2>0, <2>1, <2>2, <2>3, <2>4
  <2> QED
    BY <2>5 DEF LambdasCovered, E
<1> QED
  BY <1>1, <1>2, <1>3

\* hood_ptr_->Execute: the call's share of the queue becomes the lambda's.
LEMMA HandOverInv == ASSUME PriorityInv, NEW k \in Jobs, HandOver(k) PROVE PriorityInv'
<1> DEFINE E == {j \in Jobs : call[j] = "emplaced"}
<1> USE DEF HandOver, PriorityInv
<1>1. PriorityTypeOK'
  BY DEF PriorityTypeOK
<1>2. JobPlaces'
  BY DEF JobPlaces, PriorityTypeOK
<1>3. LambdasCovered'
  <2>1. E' = E \ {k} /\ k \in E /\ queue' = queue
    BY DEF PriorityTypeOK
  <2>2. Cardinality(E \ {k}) = Cardinality(E) - 1
    BY <2>1, FiniteCounts, FS_RemoveElement
  <2>3. lambdas' = lambdas + 1 /\ lambdas \in Nat
    BY DEF PriorityTypeOK
  <2>0. Cardinality(queue) \in Nat /\ Cardinality(E) \in Nat
    BY FiniteCounts
  <2> HIDE DEF E
  <2>4. Cardinality(queue) = lambdas + Cardinality(E)
    BY DEF LambdasCovered, E
  <2>5. Cardinality(queue') = lambdas' + Cardinality(E')
    BY <2>0, <2>1, <2>2, <2>3, <2>4
  <2> QED
    BY <2>5 DEF LambdasCovered, E
<1> QED
  BY <1>1, <1>2, <1>3

\* A lambda takes a job of highest priority: one lambda and one job less.
LEMMA PopTopInv == ASSUME PriorityInv, NEW h \in HoodThreads, PopTop(h) PROVE PriorityInv'
<1>a. PICK k \in Highest : queue' = queue \ {k} /\ doing' = [doing EXCEPT ![h] = k]
  BY DEF PopTop
<1>b. /\ k \in queue /\ k \in Jobs /\ k # NoJob /\ doing[h] = NoJob
      /\ call' = call /\ finished' = finished /\ lambdas' = lambdas - 1 /\ lambdas > 0
  BY PriorityAssumption DEF Highest, PriorityInv, PriorityTypeOK, PopTop
<1>c. doing'[h] = k /\ \A g \in HoodThreads : g # h => doing'[g] = doing[g]
  BY <1>a DEF PriorityInv, PriorityTypeOK
<1> DEFINE E == {j \in Jobs : call[j] = "emplaced"}
<1> USE DEF PriorityInv
<1>1. PriorityTypeOK'
  BY <1>a, <1>b DEF PriorityTypeOK
<1>2. JobPlaces'
  <2> USE <1>a, <1>b, <1>c DEF JobPlaces
  <2>1. \A j \in Jobs : call[j] = "none" =>
          j # k /\ j \notin queue' /\ j \notin finished /\ \A g \in HoodThreads : doing'[g] # j
    BY DEF PriorityTypeOK
  <2>2. ASSUME NEW j \in Jobs, call[j] # "none"
        PROVE  j \in queue' \/ j \in finished \/ \E g \in HoodThreads : doing'[g] = j
    <3>1. j # NoJob
      BY PriorityAssumption
    <3>2. \A g \in HoodThreads : doing[g] = j => doing'[g] = j
      BY <3>1
    <3>3. j = k => doing'[h] = j
      OBVIOUS
    <3> QED
      BY <2>2, <3>2, <3>3
  <2>3. /\ \A j \in queue' : j \notin finished /\ \A g \in HoodThreads : doing'[g] # j
        /\ \A j \in finished, g \in HoodThreads : doing'[g] # j
    OBVIOUS
  <2>4. \A g \in HoodThreads : doing[g] # k
    OBVIOUS
  <2>5. ASSUME NEW f \in HoodThreads, NEW g \in HoodThreads,
               doing'[f] = doing'[g], doing'[f] # NoJob
        PROVE  f = g
    BY <2>5, <2>4
  <2> QED
    BY <2>1, <2>2, <2>3, <2>5
<1>3. LambdasCovered'
  <2>1. E' = E
    BY <1>b
  <2>2. Cardinality(queue') = Cardinality(queue) - 1
    BY <1>a, <1>b, FiniteCounts, FS_RemoveElement
  <2>3. lambdas \in Nat /\ Cardinality(queue) \in Nat /\ Cardinality(E) \in Nat
    BY FiniteCounts DEF PriorityTypeOK
  <2> HIDE DEF E
  <2>4. Cardinality(queue) = lambdas + Cardinality(E)
    BY DEF LambdasCovered, E
  <2>5. Cardinality(queue') = lambdas' + Cardinality(E')
    BY <1>b, <2>1, <2>2, <2>3, <2>4
  <2> QED
    BY <2>5 DEF LambdasCovered, E
<1> QED
  BY <1>1, <1>2, <1>3

\* The job goes from the thread to the finished ones.
LEMMA JobEndsInv == ASSUME PriorityInv, NEW h \in HoodThreads, JobEnds(h) PROVE PriorityInv'
<1> USE DEF JobEnds, PriorityInv
<1>0. /\ doing[h] \in Jobs
      /\ doing'[h] = NoJob /\ \A g \in HoodThreads : g # h => doing'[g] = doing[g]
  BY DEF PriorityTypeOK
<1>1. PriorityTypeOK'
  BY <1>0 DEF PriorityTypeOK
<1>2. JobPlaces'
  BY <1>0, PriorityAssumption DEF JobPlaces, PriorityTypeOK
<1>3. LambdasCovered'
  BY DEF LambdasCovered
<1> QED
  BY <1>1, <1>2, <1>3

\* Steps of the timers leave the executor alone.
LEMMA PriorityStutter == ASSUME PriorityInv, UNCHANGED priorityVars PROVE PriorityInv'
  BY DEF priorityVars, PriorityInv, PriorityTypeOK, JobPlaces, LambdasCovered

-----------------------------------------------------------------------------
\* Every step of the composition keeps both invariants.
LEMMA TimedStep == TimeInv /\ PriorityInv /\ [TimedNext]_timedVars => (TimeInv /\ PriorityInv)'
<1> SUFFICES ASSUME TimeInv, PriorityInv, [TimedNext]_timedVars
             PROVE  TimeInv' /\ PriorityInv'
  OBVIOUS
<1>1. ASSUME NEW k \in Jobs, Submits(k) PROVE TimeInv' /\ PriorityInv'
  BY <1>1, TimeStepInv, EmplaceInv, PriorityStutter DEF Submits
<1>2. ASSUME NEW k \in Jobs, Proceeds(k) PROVE TimeInv' /\ PriorityInv'
  BY <1>2, TimeStepInv, EmplaceInv, HandOverInv, PriorityStutter DEF Proceeds, Continue
<1>3. ASSUME NEW h \in HoodThreads, HoodRuns(h) PROVE TimeInv' /\ PriorityInv'
  BY <1>3, TimeStepInv, PopTopInv, JobEndsInv DEF HoodRuns, HoodStep
<1>4. ASSUME Tick \/ StopRequest \/ WorkRuns \/ StopJoin, UNCHANGED priorityVars
      PROVE  TimeInv' /\ PriorityInv'
  BY <1>4, TimeStepInv, PriorityStutter
<1>5. ASSUME UNCHANGED timedVars PROVE TimeInv' /\ PriorityInv'
  BY <1>5, TimeStepInv, PriorityStutter DEF timedVars
<1> QED
  BY <1>1, <1>2, <1>3, <1>4, <1>5 DEF TimedNext, KeeperStep, AllSettled

\* Both invariants hold in every state of timers and executor together.
THEOREM Invariance == TimedSpec => [](TimeInv /\ PriorityInv)
<1>1. TimedInit => TimeInv /\ PriorityInv
  BY TimeInitInv, PriorityInitInv DEF TimedInit
<1> QED
  BY <1>1, TimedStep, PTL DEF TimedSpec

\* No future of After completes before its time.
THEOREM NotEarly == TimedSpec => []NeverEarly
<1>1. TimeInv => NeverEarly
  BY DEF TimeInv
<1> QED
  BY <1>1, Invariance, PTL

\* A lambda never meets an empty queue.
THEOREM LambdaFindsJob == TimedSpec => []LambdasCovered
<1>1. PriorityInv => LambdasCovered
  BY DEF PriorityInv
<1> QED
  BY <1>1, Invariance, PTL

\* Jobs start once, and none before a job of higher priority whose Execute()
\* has returned.
THEOREM PriorityOrder == TimedSpec => HigherFirst
<1>1. ASSUME PriorityInv, [TimedNext]_timedVars,
             NEW h \in HoodThreads, doing[h] = NoJob, doing'[h] # NoJob
      PROVE  \E k \in Highest : doing'[h] = k /\ k \in queue
  <2>1. PICK g \in HoodThreads : PopTop(g)
    BY <1>1
    DEF TimedNext, timedVars, priorityVars, Submits, Emplace, Proceeds, Continue,
        HandOver, HoodRuns, HoodStep, JobEnds, KeeperStep, AllSettled, PriorityInv,
        PriorityTypeOK
  <2> QED
    BY <1>1, <2>1 DEF PopTop, Highest, PriorityInv, PriorityTypeOK
<1>2. ASSUME PriorityInv, [TimedNext]_timedVars PROVE StartsHighest
  BY <1>1, <1>2 DEF StartsHighest, Highest, Waits, PriorityInv, JobPlaces
<1>3. PriorityInv /\ [TimedNext]_timedVars => [StartsHighest]_priorityVars
  BY <1>2
<1> QED
  BY <1>3, Invariance, PTL DEF TimedSpec, HigherFirst

-----------------------------------------------------------------------------
(* The strand *)

\* A non-empty set of numbers has a least element: the induction principle of
\* the proofs below, in a form without an operator parameter.
LEMMA LeastNumber ==
    ASSUME NEW B, B \subseteq Nat, B # {}
    PROVE  \E m \in B : \A j \in B : m <= j
<1> DEFINE Less == OpToRel(<, Nat)
<1>1. IsWellFoundedOn(Less, Nat)
    BY NatLessThanWellFounded
<1>2. \A j, m \in Nat : j < m => <<j, m>> \in Less
    BY DEF OpToRel
<1> HIDE DEF Less
<1>3. PICK m \in B : \A j \in B : ~ (<<j, m>> \in Less)
    BY <1>1, WFMin
<1>4. ASSUME NEW j \in B PROVE m <= j
    <2>1. m \in Nat /\ j \in Nat
        OBVIOUS
    <2>2. ~ (j < m)
        BY <1>2, <1>3, <2>1
    <2> QED
        BY <2>1, <2>2
<1> QED
    BY <1>4

\* Linked for a given head and given pointers
Path(s, top, links) ==
    /\ IF s = <<>> THEN top = Null ELSE top = s[Len(s)] /\ links[s[1]] = Null
    /\ \A i \in 2..Len(s) : links[s[i]] = s[i - 1]

\* Walked from the same head, the shorter of two paths is the longer one: where
\* they differ first, the pointer before it was the same; and nullptr, at which
\* the shorter ends, is no node of the longer.
LEMMA PathsAgree ==
    ASSUME NEW top, NEW links, NEW s \in Seq(Nodes), NEW t \in Seq(Nodes),
           Path(s, top, links), Path(t, top, links), Len(s) <= Len(t)
    PROVE  s = t
<1> DEFINE Same(d) == s[Len(s) - d] = t[Len(t) - d]
           Bad == {d \in 0..Len(s) - 1 : ~ Same(d)}
<1>1. Len(s) \in Nat /\ Len(t) \in Nat
    OBVIOUS
<1>2. \A d \in 0..Len(s) - 1 : Same(d)
    <2>1. SUFFICES ASSUME Bad # {} PROVE FALSE
        OBVIOUS
    <2>2. Bad \subseteq Nat
        BY <1>1
    <2> HIDE DEF Bad
    <2>3. PICK d \in Bad : \A e \in Bad : d <= e
        BY <2>1, <2>2, LeastNumber
    <2>4. d \in 0..Len(s) - 1 /\ ~ Same(d)
        BY DEF Bad
    <2>5. CASE d = 0
        <3>1. Len(s) > 0 /\ Len(t) > 0 /\ s # <<>> /\ t # <<>>
            BY <1>1, <2>4
        <3>2. s[Len(s)] = t[Len(t)] /\ Len(s) - 0 = Len(s) /\ Len(t) - 0 = Len(t)
            BY <1>1, <3>1 DEF Path
        <3> QED
            BY <2>4, <2>5, <3>2
    <2>6. CASE d # 0
        <3>1. d \in 1..Len(s) - 1 /\ d - 1 \in 0..Len(s) - 1 /\ ~ (d <= d - 1)
            BY <1>1, <2>4, <2>6
        <3>2. s[Len(s) - (d - 1)] = t[Len(t) - (d - 1)]
            BY <2>3, <3>1 DEF Bad
        <3>3. /\ Len(s) - (d - 1) \in 2..Len(s) /\ Len(t) - (d - 1) \in 2..Len(t)
              /\ (Len(s) - (d - 1)) - 1 = Len(s) - d
              /\ (Len(t) - (d - 1)) - 1 = Len(t) - d
            BY <1>1, <3>1
        <3>4. /\ links[s[Len(s) - (d - 1)]] = s[Len(s) - d]
              /\ links[t[Len(t) - (d - 1)]] = t[Len(t) - d]
            BY <3>3 DEF Path
        <3> QED
            BY <2>4, <3>2, <3>4
    <2> QED
        BY <2>5, <2>6
<1>3. Len(s) = Len(t)
    <2>1. SUFFICES ASSUME Len(s) < Len(t) PROVE FALSE
        BY <1>1
    <2>2. t # <<>> /\ top \in Nodes
        BY <1>1, <2>1 DEF Path
    <2>3. s # <<>> /\ Len(s) \in 1..Len(s)
        BY <2>2, <1>1, StrandAssumption DEF Path
    <2>4. s[1] = t[Len(t) - Len(s) + 1]
        <3>1. Len(s) - 1 \in 0..Len(s) - 1 /\ Len(s) - (Len(s) - 1) = 1
              /\ Len(t) - (Len(s) - 1) = Len(t) - Len(s) + 1
            BY <1>1, <2>3
        <3> QED
            BY <1>2, <3>1
    <2>5. Len(t) - Len(s) + 1 \in 2..Len(t) /\ Len(t) - Len(s) \in 1..Len(t)
          /\ (Len(t) - Len(s) + 1) - 1 = Len(t) - Len(s)
        BY <1>1, <2>1, <2>3
    <2>6. links[s[1]] = t[Len(t) - Len(s)] /\ links[s[1]] = Null
        BY <2>3, <2>4, <2>5 DEF Path
    <2>7. t[Len(t) - Len(s)] \in Nodes
        BY <2>5
    <2> QED
        BY <2>6, <2>7, StrandAssumption
<1>4. \A i \in 1..Len(s) : s[i] = t[i]
    <2>1. SUFFICES ASSUME NEW i \in 1..Len(s) PROVE s[i] = t[i]
        OBVIOUS
    <2>2. Len(s) - i \in 0..Len(s) - 1 /\ Len(s) - (Len(s) - i) = i
          /\ Len(t) - (Len(s) - i) = i
        BY <1>1, <1>3
    <2> QED
        BY <1>2, <2>2
<1> QED
    BY <1>3, <1>4

\* The pointers determine what is on the stack.
LEMMA PathUnique ==
    ASSUME NEW top, NEW links, NEW s \in Seq(Nodes), NEW t \in Seq(Nodes),
           Path(s, top, links), Path(t, top, links)
    PROVE  s = t
<1>1. Len(s) \in Nat /\ Len(t) \in Nat
    OBVIOUS
<1> QED
    BY <1>1, PathsAgree

\* What OnStack is chosen from
Stacks == SeqOf(Nodes, Cardinality(Nodes))

\* Members of Stacks are sequences of nodes.
LEMMA StacksAreSeqs ==
    \A s \in Stacks : s \in Seq(Nodes)
<1>1. Cardinality(Nodes) \in Nat
    BY StrandAssumption, FS_CardinalityType
<1> QED
    BY <1>1 DEF Stacks, SeqOf

\* A path that visits no node twice is not longer than there are nodes.
LEMMA NodesBoundStacks ==
    ASSUME NEW s \in Seq(Nodes),
           \A i, j \in 1..Len(s) : s[i] = s[j] => i = j
    PROVE  s \in Stacks
<1>1. Cardinality(Nodes) \in Nat /\ IsFiniteSet(Nodes) /\ Len(s) \in Nat
    BY StrandAssumption, FS_CardinalityType
<1>2. s \in [1..Len(s) -> Nodes]
    OBVIOUS
<1>3. s \in Injection(1..Len(s), Nodes)
    BY <1>2 DEF Injection, IsInjective
<1>4. Cardinality(1..Len(s)) <= Cardinality(Nodes)
    BY <1>1, <1>3, FS_Injection
<1>5. Cardinality(1..Len(s)) = Len(s)
    <2>0. 1 \in Int /\ Len(s) \in Int
        BY <1>1
    <2>1. Cardinality(1..Len(s)) = IF 1 > Len(s) THEN 0 ELSE Len(s) - 1 + 1
        BY <2>0, FS_Interval, Zenon
    <2> QED
        BY <1>1, <2>1
<1>6. Len(s) \in 0..Cardinality(Nodes)
    BY <1>1, <1>4, <1>5
<1> QED
    BY <1>2, <1>6 DEF Stacks, SeqOf

\* The empty stack is one of them.
LEMMA EmptyStack == <<>> \in Stacks
<1>1. <<>> \in Seq(Nodes) /\ \A i, j \in 1..Len(<<>>) : <<>>[i] = <<>>[j] => i = j
    OBVIOUS
<1> QED
    BY <1>1, NodesBoundStacks

-----------------------------------------------------------------------------
\* The pointers lead through allocated nodes, each once, that hold tasks
Placed ==
    /\ OnStack \in Stacks /\ Linked(OnStack)
    /\ \A i, j \in 1..Len(OnStack) : OnStack[i] = OnStack[j] => i = j
    /\ \A i \in 1..Len(OnStack) : OnStack[i] \in allocated /\ data[OnStack[i]] \in Tasks

\* The node of a Push that is under way is its own, and not on the stack yet
Prepared ==
    \A k \in Tasks : sub[k] \in {"load", "cas"} =>
        /\ node[k] \in allocated /\ data[node[k]] = k
        /\ \A i \in 1..Len(OnStack) : OnStack[i] # node[k]

\* The three places of the one batch: with the caller that turned is_scheduled_
\* on, in the executor's queue, or at a thread
NobodyDrains == \A k \in Tasks : sub[k] # "drain"
NobodyWorks == \A w \in Workers : worker[w] = "idle"

DrainComes == \E k \in Tasks :
    /\ sub[k] = "drain" /\ \A j \in Tasks : sub[j] = "drain" => j = k
    /\ pool = <<>> /\ NobodyWorks
BatchWaits == NobodyDrains /\ Len(pool) = 1 /\ NobodyWorks
BatchRuns == \E w \in Workers :
    /\ worker[w] # "idle" /\ \A v \in Workers : worker[v] # "idle" => v = w
    /\ worker[w] \in {"clear", "drain"} => batch[w] = <<>>
    /\ NobodyDrains /\ pool = <<>>

\* is_scheduled_ says whether a batch exists
OneBatch ==
    IF is_scheduled THEN DrainComes \/ BatchWaits \/ BatchRuns
                    ELSE NobodyDrains /\ pool = <<>> /\ NobodyWorks

\* The inductive invariant of the strand
StrandInv == /\ StrandTypeOK /\ Placed /\ Prepared /\ OneBatch
             /\ order = started \o InBatch \o Chain

\* CHOOSE finds the path that is there.
LEMMA ChosenPath ==
    ASSUME NEW top, NEW links, NEW s \in Stacks, Path(s, top, links)
    PROVE  (CHOOSE t \in Stacks : Path(t, top, links)) = s
<1> DEFINE c == CHOOSE t \in Stacks : Path(t, top, links)
<1>1. c \in Stacks /\ Path(c, top, links)
    OBVIOUS
<1> HIDE DEF c
<1>2. c = s
    BY <1>1, StacksAreSeqs, PathUnique
<1> QED
    BY <1>2 DEF c

\* OnStack is the sequence the pointers link.
LEMMA OnStackNow ==
    ASSUME NEW s \in Stacks, Linked(s)
    PROVE  OnStack = s
<1>1. OnStack = CHOOSE t \in Stacks : Path(t, head, next)
    BY DEF OnStack, Stacks, Linked, Path
<1> QED
    BY <1>1, ChosenPath DEF Linked, Path

\* The same after a step.
LEMMA OnStackNext ==
    ASSUME NEW s \in Stacks, Path(s, head', next')
    PROVE  OnStack' = s /\ Linked(OnStack)'
<1>1. OnStack' = CHOOSE t \in Stacks : Path(t, head', next')
    BY DEF OnStack, Stacks, Linked, Path
<1>2. OnStack' = s
    BY <1>1, ChosenPath
<1> QED
    BY <1>2 DEF Linked, Path

\* Chain lists the tasks of the nodes on the stack.
LEMMA ChainType ==
    ASSUME Placed
    PROVE  /\ OnStack \in Seq(Nodes)
           /\ Chain \in Seq(Tasks) /\ Len(Chain) = Len(OnStack)
           /\ \A i \in 1..Len(OnStack) : Chain[i] = data[OnStack[i]]
<1>1. OnStack \in Seq(Nodes) /\ Len(OnStack) \in Nat
    BY StacksAreSeqs DEF Placed
<1>2. Chain = [i \in 1..Len(OnStack) |-> data[OnStack[i]]]
    BY DEF Chain
<1> QED
    BY <1>1, <1>2 DEF Placed

\* A step that leaves head_ and the nodes on the stack alone leaves the stack
\* as it is, whatever happens to the other nodes.
LEMMA StackKept ==
    ASSUME Placed, head' = head,
           \A i \in 1..Len(OnStack) :
               /\ next'[OnStack[i]] = next[OnStack[i]]
               /\ data'[OnStack[i]] = data[OnStack[i]]
               /\ OnStack[i] \in allocated'
    PROVE  OnStack' = OnStack /\ Chain' = Chain /\ Placed'
<1>1. OnStack \in Seq(Nodes) /\ Len(OnStack) \in Nat /\ OnStack \in Stacks
    BY ChainType DEF Placed
<1>2. Path(OnStack, head', next')
    <2>1. OnStack # <<>> => 1 \in 1..Len(OnStack)
        BY <1>1
    <2>2. \A i \in 2..Len(OnStack) : i \in 1..Len(OnStack)
        BY <1>1
    <2> QED
        BY <2>1, <2>2 DEF Placed, Linked, Path
<1> DEFINE s == OnStack
<1>3. OnStack' = s /\ Linked(OnStack)'
    BY <1>1, <1>2, OnStackNext
<1>4. Chain' = [i \in 1..Len(s) |-> data'[s[i]]] /\ Chain = [i \in 1..Len(s) |-> data[s[i]]]
    BY <1>3 DEF Chain
<1>5. Chain' = Chain
    BY <1>4
<1> QED
    BY <1>1, <1>3, <1>5 DEF Placed, Stacks

\* The active thread is the only one.
LEMMA RunningBatch ==
    ASSUME NEW at, NEW rest, NEW w \in Workers, at[w] # "idle",
           \A v \in Workers : at[v] # "idle" => v = w
    PROVE  /\ {u \in Workers : at[u] # "idle"} = {w}
           /\ (CHOOSE v \in {u \in Workers : at[u] # "idle"} : TRUE) = w
<1>1. {u \in Workers : at[u] # "idle"} = {w}
    OBVIOUS
<1>2. (CHOOSE v \in {w} : TRUE) = w
    OBVIOUS
<1> QED
    BY <1>1, <1>2

\* Thread w has the batch
Busy(w) == /\ worker[w] # "idle" /\ \A v \in Workers : worker[v] # "idle" => v = w
           /\ worker[w] \in {"clear", "drain"} => batch[w] = <<>>
           /\ NobodyDrains /\ pool = <<>> /\ is_scheduled

\* A thread that is not idle has the batch.
LEMMA OneWorks ==
    ASSUME OneBatch, NEW w \in Workers, worker[w] # "idle"
    PROVE  Busy(w) /\ InBatch = batch[w]
<1>1. Busy(w)
    BY DEF OneBatch, Busy, NobodyWorks, DrainComes, BatchWaits, BatchRuns
<1> QED
    BY <1>1, RunningBatch DEF Busy, InBatch, ActiveWorkers

\* And when a thread has it after a step, it is the one batch.
LEMMA OneWorksNext ==
    ASSUME NEW w \in Workers, Busy(w)'
    PROVE  OneBatch' /\ InBatch' = batch'[w]
<1>1. OneBatch'
    BY DEF Busy, OneBatch, BatchRuns
<1>2. /\ ActiveWorkers' = {w} /\ pool' = <<>>
      /\ (CHOOSE v \in ActiveWorkers' : TRUE) = w
    BY RunningBatch DEF Busy, ActiveWorkers
<1> QED
    BY <1>1, <1>2 DEF InBatch

\* Steps of Push do not touch the batch.
LEMMA BatchKept ==
    ASSUME OneBatch, UNCHANGED <<is_scheduled, pool, worker, batch>>,
           \A j \in Tasks : sub'[j] = "drain" <=> sub[j] = "drain"
    PROVE  OneBatch' /\ InBatch' = InBatch
<1>1. NobodyDrains' <=> NobodyDrains
    BY DEF NobodyDrains
<1>2. NobodyWorks' <=> NobodyWorks
    BY DEF NobodyWorks
<1>3. (DrainComes' <=> DrainComes) /\ (BatchWaits' <=> BatchWaits) /\ (BatchRuns' <=> BatchRuns)
    BY <1>1, <1>2 DEF DrainComes, BatchWaits, BatchRuns
<1> QED
    BY <1>1, <1>2, <1>3 DEF OneBatch, InBatch, ActiveWorkers

\* The batch is a sequence of tasks.
LEMMA BatchType ==
    ASSUME StrandTypeOK, OneBatch
    PROVE  InBatch \in Seq(Tasks)
<1>1. CASE pool # <<>>
    BY <1>1 DEF StrandTypeOK, InBatch
<1>2. CASE pool = <<>> /\ NobodyWorks
    BY <1>2 DEF InBatch, ActiveWorkers, NobodyWorks
<1>3. CASE pool = <<>> /\ ~ NobodyWorks
    <2>1. PICK w \in Workers : worker[w] # "idle"
        BY <1>3 DEF NobodyWorks
    <2> QED
        BY <2>1, OneWorks DEF StrandTypeOK
<1> QED
    BY <1>1, <1>2, <1>3

\* Push takes a fresh node: no node on the stack, none of another Push.
LEMMA AllocateStep ==
    ASSUME StrandInv, NEW k \in Tasks, PushAllocate(k)
    PROVE  StrandInv'
<1>1. PICK m \in Nodes \ allocated :
         node' = [node EXCEPT ![k] = m] /\ allocated' = allocated \cup {m}
         /\ data' = [data EXCEPT ![m] = k]
    BY DEF PushAllocate
<1>2. sub[k] = "new" /\ sub' = [sub EXCEPT ![k] = "load"]
    BY DEF PushAllocate, Goto
<1>3. UNCHANGED <<head, next, is_scheduled, pool, worker, batch, running, order, started>>
    BY DEF PushAllocate, workerVars
<1>4. StrandTypeOK'
    BY <1>1, <1>2, <1>3 DEF StrandInv, StrandTypeOK
<1>5. OnStack' = OnStack /\ Chain' = Chain /\ Placed'
    BY <1>1, <1>3, StackKept DEF StrandInv, StrandTypeOK, Placed
<1>6. Prepared'
    BY <1>1, <1>2, <1>5 DEF StrandInv, StrandTypeOK, Prepared, Placed
<1>7. OneBatch' /\ InBatch' = InBatch
    BY <1>2, <1>3, BatchKept DEF StrandInv, StrandTypeOK
<1> QED
    BY <1>3, <1>4, <1>5, <1>6, <1>7 DEF StrandInv

\* Push points its own node, which is not on the stack, to head_.
LEMMA LoadStep ==
    ASSUME StrandInv, NEW k \in Tasks, PushLoad(k)
    PROVE  StrandInv'
<1>1. /\ sub[k] = "load" /\ sub' = [sub EXCEPT ![k] = "cas"]
      /\ next' = [next EXCEPT ![node[k]] = head]
      /\ node[k] \in Nodes /\ \A i \in 1..Len(OnStack) : OnStack[i] # node[k]
    BY DEF PushLoad, Goto, StrandInv, StrandTypeOK, Prepared
<1>2. UNCHANGED <<head, data, allocated, is_scheduled, node, pool, worker, batch, running,
                  order, started>>
    BY DEF PushLoad, workerVars
<1>3. StrandTypeOK'
    BY <1>1, <1>2 DEF StrandInv, StrandTypeOK
<1>4. OnStack' = OnStack /\ Chain' = Chain /\ Placed'
    <2>1. OnStack \in Seq(Nodes) /\ Placed
        BY ChainType DEF StrandInv
    <2> QED
        BY <2>1, <1>1, <1>2, StackKept DEF StrandInv, StrandTypeOK, Placed
<1>5. Prepared'
    BY <1>1, <1>2, <1>4 DEF StrandInv, StrandTypeOK, Prepared
<1>6. OneBatch' /\ InBatch' = InBatch
    BY <1>1, <1>2, BatchKept DEF StrandInv, StrandTypeOK
<1> QED
    BY <1>2, <1>3, <1>4, <1>5, <1>6 DEF StrandInv

\* A node that points to the head extends the path.
LEMMA PushedPath ==
    ASSUME NEW s \in Seq(Nodes), NEW m \in Nodes, NEW links, links[m] = head,
           Path(s, head, links)
    PROVE  Path(Append(s, m), m, links)
<1> DEFINE t == Append(s, m)
<1>1. t # <<>> /\ Len(t) = Len(s) + 1 /\ t[Len(t)] = m /\ Len(s) \in Nat
      /\ \A i \in 1..Len(s) : t[i] = s[i]
    OBVIOUS
<1>2. CASE s = <<>>
    <2>1. Len(t) = 1 /\ t[1] = m /\ head = Null
        BY <1>1, <1>2 DEF Path
    <2> QED
        BY <1>1, <2>1 DEF Path
<1>3. CASE s # <<>>
    <2>1. 1 \in 1..Len(s) /\ t[1] = s[1] /\ Len(s) \in 1..Len(s)
        BY <1>1, <1>3
    <2>2. ASSUME NEW i \in 2..Len(t) PROVE links[t[i]] = t[i - 1]
        <3>1. CASE i = Len(t)
            BY <1>1, <1>3, <2>1, <3>1 DEF Path
        <3>2. CASE i # Len(t)
            <4>1. i \in 2..Len(s) /\ i - 1 \in 1..Len(s) /\ i \in 1..Len(s)
                BY <1>1, <3>2
            <4> QED
                BY <1>1, <4>1 DEF Path
        <3> QED
            BY <3>1, <3>2
    <2> QED
        BY <1>1, <1>3, <2>1, <2>2 DEF Path
<1> QED
    BY <1>2, <1>3

\* A CAS that succeeds adds the task to the stack's end and to order.  What
\* head_ was at the load does not matter, only that the node points to it now.
LEMMA CasStep ==
    ASSUME StrandInv, NEW k \in Tasks, PushCas(k)
    PROVE  StrandInv'
<1>1. sub[k] = "cas" /\ UNCHANGED <<next, data, allocated, is_scheduled, pool, worker, batch,
                                    running, started>>
    BY DEF PushCas, workerVars
<1>2. CASE head # next[node[k]] /\ sub' = [sub EXCEPT ![k] = "load"]
           /\ UNCHANGED <<head, order, node>>
    <2>1. StrandTypeOK'
        BY <1>1, <1>2 DEF StrandInv, StrandTypeOK
    <2>2. OnStack' = OnStack /\ Chain' = Chain /\ Placed'
        BY <1>1, <1>2, StackKept DEF StrandInv, Placed
    <2>3. Prepared'
        BY <1>1, <1>2, <2>2 DEF StrandInv, StrandTypeOK, Prepared
    <2>4. OneBatch' /\ InBatch' = InBatch
        BY <1>1, <1>2, BatchKept DEF StrandInv, StrandTypeOK
    <2> QED
        BY <1>1, <1>2, <2>1, <2>2, <2>3, <2>4 DEF StrandInv
<1>3. CASE /\ head = next[node[k]] /\ head' = node[k] /\ order' = Append(order, k)
           /\ sub' = [sub EXCEPT ![k] = "sched"] /\ node' = [node EXCEPT ![k] = Null]
    <2> DEFINE m == node[k]
               s == OnStack
               t == Append(s, m)
    <2>1. /\ m \in allocated /\ m \in Nodes /\ data[m] = k /\ next[m] = head
          /\ \A i \in 1..Len(s) : s[i] # m
        BY <1>1, <1>3 DEF StrandInv, StrandTypeOK, Prepared
    <2>2. s \in Seq(Nodes) /\ Chain \in Seq(Tasks) /\ Len(Chain) = Len(s)
          /\ \A i \in 1..Len(s) : Chain[i] = data[s[i]]
        BY ChainType DEF StrandInv
    <2>3. /\ t \in Seq(Nodes) /\ Len(t) = Len(s) + 1 /\ Len(s) \in Nat
          /\ \A i \in 1..Len(s) : t[i] = s[i]
          /\ t[Len(s) + 1] = m
        BY <2>1, <2>2
    <2> HIDE DEF m, s, t
    <2>4. \A i, j \in 1..Len(t) : t[i] = t[j] => i = j
        <3>1. \A i, j \in 1..Len(s) : s[i] = s[j] => i = j
            BY DEF StrandInv, Placed, s
        <3> QED
            BY <2>1, <2>3, <3>1
    <2>5. t \in Stacks
        BY <2>3, <2>4, NodesBoundStacks
    <2>6. Path(t, head', next')
        <3>1. Path(s, head, next)
            BY DEF StrandInv, Placed, Linked, Path, s
        <3> QED
            BY <1>1, <1>3, <2>1, <2>2, <3>1, PushedPath DEF m, t
    <2>7. OnStack' = t /\ Linked(OnStack)'
        BY <2>5, <2>6, OnStackNext
    <2>8. Placed'
        <3>1. \A i \in 1..Len(s) : s[i] \in allocated /\ data[s[i]] \in Tasks
            BY DEF StrandInv, Placed, s
        <3>2. \A i \in 1..Len(t) : t[i] \in allocated' /\ data'[t[i]] \in Tasks
            BY <1>1, <2>1, <2>3, <3>1
        <3> QED
            BY <2>4, <2>5, <2>7, <3>2 DEF Placed, Stacks
    <2>9. Prepared'
        <3>1. SUFFICES ASSUME NEW j \in Tasks, sub'[j] \in {"load", "cas"}
                       PROVE  /\ node'[j] \in allocated' /\ data'[node'[j]] = j
                              /\ \A i \in 1..Len(t) : t[i] # node'[j]
            BY <2>7 DEF Prepared
        <3>2. j # k /\ sub[j] \in {"load", "cas"} /\ node'[j] = node[j]
            BY <1>3, <3>1 DEF StrandInv, StrandTypeOK
        <3>3. /\ node[j] \in allocated /\ data[node[j]] = j
              /\ \A i \in 1..Len(s) : s[i] # node[j]
            BY <3>2 DEF StrandInv, Prepared, s
        <3>4. m # node[j]
            BY <2>1, <3>2, <3>3
        <3> QED
            BY <1>1, <2>3, <3>2, <3>3, <3>4
    <2>10. Chain' = Append(Chain, k)
        <3> DEFINE c == Append(Chain, k)
        <3>1. Chain' = [i \in 1..Len(t) |-> data[t[i]]]
            BY <1>1, <2>7 DEF Chain
        <3>2. /\ c \in Seq(Tasks) /\ Len(c) = Len(s) + 1
              /\ \A i \in 1..Len(s) : c[i] = Chain[i]
              /\ c[Len(s) + 1] = k
            BY <2>2, <2>3
        <3> HIDE DEF c
        <3>3. \A i \in 1..Len(t) : c[i] = data[t[i]]
            BY <2>1, <2>2, <2>3, <3>2
        <3>4. c = [i \in 1..Len(t) |-> c[i]]
            BY <2>3, <3>2
        <3>5. c = Chain'
            BY <3>1, <3>3, <3>4
        <3> QED
            BY <3>5 DEF c
    <2>11. OneBatch' /\ InBatch' = InBatch
        BY <1>1, <1>3, BatchKept DEF StrandInv, StrandTypeOK
    <2>12. StrandTypeOK'
        BY <1>1, <1>3, <2>1 DEF StrandInv, StrandTypeOK, m
    <2>13. order' = started' \o InBatch' \o Chain'
        <3>1. started \in Seq(Tasks) /\ InBatch \in Seq(Tasks) /\ order = started \o InBatch \o Chain
            BY BatchType DEF StrandInv, StrandTypeOK
        <3>2. started \o InBatch \o Append(Chain, k) = Append(started \o InBatch \o Chain, k)
            <4> DEFINE r == started \o InBatch
            <4>1. r \in Seq(Tasks)
                BY <3>1
            <4> HIDE DEF r
            <4>2. r \o Append(Chain, k) = Append(r \o Chain, k)
                BY <2>2, <4>1
            <4> QED
                BY <4>2 DEF r
        <3> QED
            BY <1>1, <1>3, <2>10, <2>11, <3>1, <3>2
    <2> QED
        BY <2>8, <2>9, <2>11, <2>12, <2>13 DEF StrandInv
<1> QED
    BY <1>2, <1>3 DEF PushCas

\* The exchange of is_scheduled_ creates the batch or finds that it exists.
LEMMA ScheduleStep ==
    ASSUME StrandInv, NEW k \in Tasks, Schedule(k)
    PROVE  StrandInv'
<1>1. /\ sub[k] = "sched" /\ sub' = [sub EXCEPT ![k] = IF is_scheduled THEN "end" ELSE "drain"]
      /\ is_scheduled' = TRUE
      /\ UNCHANGED <<head, next, data, allocated, node, pool, worker, batch, running, order,
                     started>>
    BY DEF Schedule, Goto, stack, workerVars
<1>2. StrandTypeOK'
    BY <1>1 DEF StrandInv, StrandTypeOK
<1>3. OnStack' = OnStack /\ Chain' = Chain /\ Placed'
    BY <1>1, StackKept DEF StrandInv, Placed
<1>4. Prepared'
    BY <1>1, <1>3 DEF StrandInv, StrandTypeOK, Prepared
<1>5. OneBatch' /\ InBatch' = InBatch
    <2>1. CASE is_scheduled
        BY <1>1, <2>1, BatchKept DEF StrandInv, StrandTypeOK
    <2>2. CASE ~ is_scheduled
        <3>1. NobodyDrains /\ pool' = <<>> /\ NobodyWorks'
            BY <1>1, <2>2 DEF StrandInv, OneBatch, NobodyWorks
        <3>2. DrainComes'
            BY <1>1, <2>2, <3>1 DEF StrandInv, StrandTypeOK, DrainComes, NobodyDrains
        <3> QED
            BY <1>1, <3>2 DEF OneBatch, InBatch, ActiveWorkers
    <2> QED
        BY <2>1, <2>2
<1> QED
    BY <1>1, <1>2, <1>3, <1>4, <1>5 DEF StrandInv

\* ExecuteFirstStack makes the stack the batch; nodes of others are not freed.
LEMMA TakeAllStep ==
    ASSUME StrandInv, TakeAll, pool = <<>>, InBatch = <<>>, NobodyWorks', NobodyDrains',
           is_scheduled, sub' \in [Tasks -> {"new", "load", "cas", "sched", "drain", "end"}],
           worker' \in [Workers -> {"idle", "batch", "task", "clear", "drain"}],
           UNCHANGED <<batch, running>>,
           \A j \in Tasks : sub'[j] \in {"load", "cas"} => sub[j] \in {"load", "cas"}
    PROVE  StrandInv'
<1> DEFINE s == OnStack
<1>1. /\ pool' = <<Chain>> /\ head' = Null /\ Free(Range(s))
      /\ UNCHANGED <<is_scheduled, node, order, started>>
    BY DEF TakeAll
<1>2. s \in Seq(Nodes) /\ Chain \in Seq(Tasks)
    BY ChainType DEF StrandInv
<1>3. StrandTypeOK'
    BY <1>1, <1>2 DEF StrandInv, StrandTypeOK, Free
<1>4. OnStack' = <<>> /\ Linked(OnStack)'
    <2>1. Path(<<>>, head', next')
        BY <1>1 DEF Path
    <2> QED
        BY <2>1, EmptyStack, OnStackNext
<1>5. Placed' /\ Chain' = <<>>
    BY <1>4, EmptyStack DEF Placed, Chain, Stacks
<1>6. Prepared'
    <2>1. SUFFICES ASSUME NEW j \in Tasks, sub'[j] \in {"load", "cas"}
                   PROVE  node'[j] \in allocated' /\ data'[node'[j]] = j
        BY <1>4 DEF Prepared
    <2>2. /\ node[j] \in allocated /\ node[j] \in Nodes /\ data[node[j]] = j
          /\ \A i \in 1..Len(s) : s[i] # node[j]
        BY <2>1 DEF StrandInv, StrandTypeOK, Prepared
    <2>3. node[j] \notin Range(s)
        BY <1>2, <2>2 DEF Range
    <2> QED
        BY <1>1, <2>2, <2>3 DEF Free
<1>7. OneBatch' /\ InBatch' = Chain
    BY <1>1 DEF OneBatch, BatchWaits, InBatch
<1>8. order' = started' \o InBatch' \o Chain'
    <2>1. started \in Seq(Tasks) /\ order = started \o <<>> \o Chain
        BY DEF StrandInv, StrandTypeOK
    <2>2. started \o <<>> = started /\ started \o Chain \in Seq(Tasks)
        BY <1>2, <2>1
    <2>3. started \o Chain \o <<>> = started \o Chain
        <3> DEFINE r == started \o Chain
        <3> HIDE DEF r
        <3>1. r \in Seq(Tasks) => r \o <<>> = r
            OBVIOUS
        <3> QED
            BY <2>2, <3>1 DEF r
    <2> QED
        BY <1>1, <1>5, <1>7, <2>1, <2>2, <2>3
<1> QED
    BY <1>3, <1>5, <1>6, <1>7, <1>8 DEF StrandInv

\* The caller of Execute takes the stack.
LEMMA DrainByCallerStep ==
    ASSUME StrandInv, NEW k \in Tasks, DrainByCaller(k)
    PROVE  StrandInv'
<1>1. /\ sub[k] = "drain" /\ sub' = [sub EXCEPT ![k] = "end"] /\ TakeAll
      /\ UNCHANGED <<worker, batch, running>>
    BY DEF DrainByCaller, Goto, workerVars
<1>2. /\ is_scheduled /\ pool = <<>> /\ NobodyWorks
      /\ \A j \in Tasks : sub[j] = "drain" => j = k
    BY <1>1 DEF StrandInv, OneBatch, NobodyDrains, DrainComes, BatchWaits, BatchRuns
<1>3. InBatch = <<>>
    BY <1>2 DEF InBatch, ActiveWorkers, NobodyWorks
<1>4. NobodyWorks' /\ NobodyDrains'
    BY <1>1, <1>2 DEF NobodyWorks, NobodyDrains, StrandInv, StrandTypeOK
<1> QED
    BY <1>1, <1>2, <1>3, <1>4, TakeAllStep DEF StrandInv, StrandTypeOK

\* The thread that has run the batch takes the stack again.
LEMMA DrainByWorkerStep ==
    ASSUME StrandInv, NEW w \in Workers, DrainByWorker(w)
    PROVE  StrandInv'
<1>1. /\ worker[w] = "drain" /\ worker' = [worker EXCEPT ![w] = "idle"] /\ TakeAll
      /\ UNCHANGED <<sub, batch, running>>
    BY DEF DrainByWorker, WGoto
<1>2. Busy(w) /\ InBatch = batch[w]
    BY <1>1, OneWorks DEF StrandInv
<1>3. is_scheduled /\ pool = <<>> /\ InBatch = <<>>
    BY <1>1, <1>2 DEF Busy
<1>4. NobodyWorks' /\ NobodyDrains'
    BY <1>1, <1>2 DEF NobodyWorks, NobodyDrains, Busy, StrandInv, StrandTypeOK
<1> QED
    BY <1>1, <1>3, <1>4, TakeAllStep DEF StrandInv, StrandTypeOK

\* The executor gives the batch to a thread.
LEMMA BatchStartsStep ==
    ASSUME StrandInv, NEW w \in Workers, BatchStarts(w)
    PROVE  StrandInv'
<1>1. /\ pool # <<>> /\ worker' = [worker EXCEPT ![w] = "batch"]
      /\ batch' = [batch EXCEPT ![w] = Head(pool)] /\ pool' = Tail(pool)
      /\ UNCHANGED <<head, next, data, allocated, is_scheduled, sub, node, running, order,
                     started>>
    BY DEF BatchStarts, WGoto, stack
<1>2. /\ is_scheduled /\ NobodyDrains /\ Len(pool) = 1 /\ NobodyWorks
    BY <1>1 DEF StrandInv, OneBatch, DrainComes, BatchWaits, BatchRuns
<1>3. /\ InBatch = Head(pool) /\ Head(pool) \in Seq(Tasks) /\ pool' = <<>>
    <2>1. pool \in Seq(Seq(Tasks)) /\ InBatch = Head(pool)
        BY <1>1 DEF InBatch, StrandInv, StrandTypeOK
    <2>2. Head(pool) \in Seq(Tasks) /\ Tail(pool) \in Seq(Seq(Tasks)) /\ Len(Tail(pool)) = 0
        BY <1>1, <1>2, <2>1
    <2>3. \A p \in Seq(Seq(Tasks)) : Len(p) = 0 => p = <<>>
        OBVIOUS
    <2> QED
        BY <1>1, <2>1, <2>2, <2>3
<1>4. StrandTypeOK'
    BY <1>1, <1>3 DEF StrandInv, StrandTypeOK
<1>5. OnStack' = OnStack /\ Chain' = Chain /\ Placed'
    BY <1>1, StackKept DEF StrandInv, Placed
<1>6. Prepared'
    BY <1>1, <1>5 DEF StrandInv, Prepared
<1>7. Busy(w)'
    BY <1>1, <1>2, <1>3 DEF Busy, NobodyDrains, NobodyWorks, StrandInv, StrandTypeOK
<1>8. OneBatch' /\ InBatch' = InBatch
    BY <1>1, <1>3, <1>7, OneWorksNext DEF StrandInv, StrandTypeOK
<1> QED
    BY <1>1, <1>4, <1>5, <1>6, <1>8 DEF StrandInv

\* The oldest task of the batch starts.
LEMMA TaskStartsStep ==
    ASSUME StrandInv, NEW w \in Workers, TaskStarts(w)
    PROVE  StrandInv'
<1> DEFINE b == batch[w]
<1>1. /\ b # <<>> /\ worker[w] = "batch" /\ worker' = [worker EXCEPT ![w] = "task"]
      /\ running' = [running EXCEPT ![w] = Head(b)]
      /\ batch' = [batch EXCEPT ![w] = Tail(b)]
      /\ started' = Append(started, Head(b))
      /\ UNCHANGED <<head, next, data, allocated, is_scheduled, sub, node, pool, order>>
    BY DEF TaskStarts, WGoto, stack
<1>2. Busy(w) /\ InBatch = b
    BY <1>1, OneWorks DEF StrandInv
<1>3. /\ b \in Seq(Tasks) /\ Head(b) \in Tasks /\ Tail(b) \in Seq(Tasks)
      /\ started \in Seq(Tasks) /\ Chain \in Seq(Tasks) /\ batch'[w] = Tail(b)
    BY <1>1, ChainType DEF StrandInv, StrandTypeOK
<1> HIDE DEF b
<1>4. StrandTypeOK'
    BY <1>1, <1>3 DEF StrandInv, StrandTypeOK
<1>5. OnStack' = OnStack /\ Chain' = Chain /\ Placed'
    BY <1>1, StackKept DEF StrandInv, Placed
<1>6. Prepared'
    BY <1>1, <1>5 DEF StrandInv, Prepared
<1>7. Busy(w)'
    BY <1>1, <1>2 DEF Busy, NobodyDrains, StrandInv, StrandTypeOK
<1>8. OneBatch' /\ InBatch' = Tail(b)
    BY <1>3, <1>7, OneWorksNext
<1>9. started \o b = Append(started, Head(b)) \o Tail(b)
    BY <1>1, <1>3
<1> QED
    BY <1>1, <1>2, <1>4, <1>5, <1>6, <1>8, <1>9 DEF StrandInv

\* A task ends, or the thread looks for more.
LEMMA TaskEndsStep ==
    ASSUME StrandInv, NEW w \in Workers, TaskEnds(w) \/ CheckEmpty(w)
    PROVE  StrandInv'
<1>1. /\ worker[w] # "idle" /\ running' \in [Workers -> Tasks \cup {Null}]
      /\ \E to \in {"batch", "clear", "drain"} :
            /\ worker' = [worker EXCEPT ![w] = to]
            /\ to \in {"clear", "drain"} => batch[w] = <<>>
      /\ UNCHANGED <<head, next, data, allocated, is_scheduled, sub, node, pool, batch, order,
                     started>>
    BY DEF TaskEnds, CheckEmpty, WGoto, stack, StrandInv, StrandTypeOK
<1>2. Busy(w) /\ InBatch = batch[w]
    BY <1>1, OneWorks DEF StrandInv
<1>3. StrandTypeOK'
    BY <1>1 DEF StrandInv, StrandTypeOK
<1>4. OnStack' = OnStack /\ Chain' = Chain /\ Placed'
    BY <1>1, StackKept DEF StrandInv, Placed
<1>5. Prepared'
    BY <1>1, <1>4 DEF StrandInv, Prepared
<1>6. Busy(w)'
    BY <1>1, <1>2 DEF Busy, NobodyDrains, StrandInv, StrandTypeOK
<1>7. OneBatch' /\ InBatch' = InBatch
    BY <1>1, <1>2, <1>6, OneWorksNext
<1> QED
    BY <1>1, <1>3, <1>4, <1>5, <1>7 DEF StrandInv

\* is_scheduled_ goes off when the batch is used up.
LEMMA ClearStep ==
    ASSUME StrandInv, NEW w \in Workers, ClearScheduled(w)
    PROVE  StrandInv'
<1>1. /\ worker[w] = "clear" /\ worker' = [worker EXCEPT ![w] = "idle"]
      /\ is_scheduled' = FALSE
      /\ UNCHANGED <<head, next, data, allocated, sub, node, pool, batch, running, order,
                     started>>
    BY DEF ClearScheduled, WGoto, stack
<1>2. Busy(w) /\ InBatch = batch[w]
    BY <1>1, OneWorks DEF StrandInv
<1>3. StrandTypeOK'
    BY <1>1 DEF StrandInv, StrandTypeOK
<1>4. OnStack' = OnStack /\ Chain' = Chain /\ Placed'
    BY <1>1, StackKept DEF StrandInv, Placed
<1>5. Prepared'
    BY <1>1, <1>4 DEF StrandInv, Prepared
<1>6. NobodyDrains' /\ pool' = <<>> /\ NobodyWorks' /\ InBatch = <<>>
    BY <1>1, <1>2 DEF Busy, NobodyDrains, NobodyWorks, StrandInv, StrandTypeOK
<1>7. OneBatch' /\ InBatch' = InBatch
    BY <1>1, <1>6 DEF OneBatch, InBatch, ActiveWorkers, NobodyWorks
<1> QED
    BY <1>1, <1>3, <1>4, <1>5, <1>7 DEF StrandInv

\* For all clients, tasks, threads and nodes, however addresses are reused:
\* pushes, exchanges and batches of the strand keep StrandInv.
THEOREM StrandInvariance == StrandSpec => []StrandInv
<1>1. StrandInit => StrandInv
    <2>1. SUFFICES ASSUME StrandInit PROVE StrandInv
        OBVIOUS
    <2>2. StrandTypeOK
        <3>1. <<>> \in Seq(Tasks) /\ <<>> \in Seq(Seq(Tasks))
            OBVIOUS
        <3>2. pool \in Seq(Seq(Tasks)) /\ order \in Seq(Tasks) /\ started \in Seq(Tasks)
              /\ batch \in [Workers -> Seq(Tasks)]
            BY <2>1, <3>1 DEF StrandInit
        <3> QED
            BY <2>1, <3>2 DEF StrandInit, StrandTypeOK
    <2>3. <<>> \in Stacks /\ Linked(<<>>)
        BY <2>1, EmptyStack DEF StrandInit, Linked
    <2>4. OnStack = <<>>
        BY <2>3, OnStackNow
    <2>5. Placed /\ Prepared /\ Chain = <<>>
        BY <2>1, <2>3, <2>4 DEF Placed, Prepared, Chain, StrandInit
    <2>6. OneBatch /\ InBatch = <<>>
        BY <2>1 DEF StrandInit, OneBatch, NobodyDrains, NobodyWorks, InBatch, ActiveWorkers
    <2>7. order = started \o InBatch \o Chain
        BY <2>1, <2>5, <2>6 DEF StrandInit
    <2> QED
        BY <2>2, <2>5, <2>6, <2>7 DEF StrandInv
<1>2. StrandInv /\ [StrandNext]_strandVars => StrandInv'
    <2>1. SUFFICES ASSUME StrandInv, [StrandNext]_strandVars PROVE StrandInv'
        OBVIOUS
    <2>2. ASSUME NEW k \in Tasks, PushAllocate(k) \/ Submit(k) PROVE StrandInv'
        BY <2>1, <2>2, AllocateStep, LoadStep, CasStep, ScheduleStep, DrainByCallerStep
        DEF Submit
    <2>3. ASSUME NEW w \in Workers, Work(w) PROVE StrandInv'
        BY <2>1, <2>3, BatchStartsStep, TaskStartsStep, TaskEndsStep, ClearStep,
           DrainByWorkerStep
        DEF Work
    <2>4. CASE UNCHANGED strandVars
        <3>1. /\ UNCHANGED <<head, next, data, allocated, is_scheduled, sub, node, pool>>
              /\ UNCHANGED <<worker, batch, running, order, started>>
            BY <2>4 DEF strandVars
        <3>2. StrandTypeOK'
            BY <2>1, <3>1 DEF StrandInv, StrandTypeOK
        <3>3. OnStack' = OnStack /\ Chain' = Chain /\ Placed'
            BY <2>1, <3>1, StackKept DEF StrandInv, Placed
        <3>4. Prepared'
            BY <2>1, <3>1, <3>3 DEF StrandInv, Prepared
        <3>5. OneBatch' /\ InBatch' = InBatch
            BY <2>1, <3>1, BatchKept DEF StrandInv
        <3> QED
            BY <2>1, <3>1, <3>2, <3>3, <3>4, <3>5 DEF StrandInv
    <2> QED
        BY <2>1, <2>2, <2>3, <2>4 DEF StrandNext, Quiet
<1> QED
    BY <1>1, <1>2, PTL DEF StrandSpec

\* One batch means at most one drain, one queued batch or one active thread.
LEMMA OneBatchAtMost ==
    ASSUME StrandTypeOK, OneBatch
    PROVE  NonConcurrent
<1> DEFINE D == {k \in Tasks : sub[k] = "drain"}
<1>0. /\ Cardinality({}) = 0
      /\ NonConcurrent <=> Cardinality(ActiveWorkers) + Len(pool) + Cardinality(D) <= 1
    BY FS_EmptySet DEF NonConcurrent
<1>1. CASE NobodyWorks /\ NobodyDrains /\ (pool = <<>> \/ Len(pool) = 1)
    <2>1. ActiveWorkers = {} /\ D = {}
        BY <1>1 DEF ActiveWorkers, NobodyWorks, NobodyDrains
    <2>2. Len(pool) = 0 \/ Len(pool) = 1
        BY <1>1
    <2> HIDE DEF D
    <2>3. Cardinality(ActiveWorkers) = 0 /\ Cardinality(D) = 0
        BY <1>0, <2>1
    <2>4. Cardinality(ActiveWorkers) + Len(pool) + Cardinality(D) <= 1
        BY <2>2, <2>3
    <2> QED
        BY <1>0, <2>4
<1>2. CASE DrainComes
    <2>1. PICK k \in Tasks : sub[k] = "drain" /\ \A j \in Tasks : sub[j] = "drain" => j = k
        BY <1>2 DEF DrainComes
    <2>2. D = {k} /\ ActiveWorkers = {} /\ pool = <<>>
        BY <1>2, <2>1 DEF DrainComes, ActiveWorkers, NobodyWorks
    <2>3. Cardinality({k}) = 1
        BY FS_Singleton
    <2> HIDE DEF D
    <2> QED
        BY <1>0, <2>2, <2>3
<1>3. CASE BatchRuns
    <2>1. PICK w \in Workers : worker[w] # "idle" /\ \A v \in Workers : worker[v] # "idle" => v = w
        BY <1>3 DEF BatchRuns
    <2>2. ActiveWorkers = {w} /\ D = {} /\ pool = <<>>
        BY <1>3, <2>1 DEF BatchRuns, ActiveWorkers, NobodyDrains
    <2>3. Cardinality({w}) = 1
        BY FS_Singleton
    <2> HIDE DEF D
    <2> QED
        BY <1>0, <2>2, <2>3
<1> QED
    BY <1>1, <1>2, <1>3 DEF OneBatch, BatchWaits

\* StrandExecutor runs its tasks one at a time and in the order of their
\* pushes, and loses none between stack, batch and start.
THEOREM StrandRunsInOrder == StrandSpec => []InOrder
<1>1. StrandInv => InOrder
    BY OneBatchAtMost DEF StrandInv, InOrder
<1> QED
    BY <1>1, StrandInvariance, PTL
=============================================================================
