------------------------- MODULE SharedStateProofs --------------------------
(***************************************************************************)
(* For every set of results: the protocol of SharedState never panics,     *)
(* never races on its plain fields, delivers at most once and only what    *)
(* was set, and runs callbacks on the executor.  The inductive invariant   *)
(* says what each value of state_ tells about both sides.                  *)
(***************************************************************************)
EXTENDS SharedState, TLAPS

P == pc["producer"]
C == pc["consumer"]

\* Nothing has been handed to anybody yet
Undelivered == consumed = <<>> /\ queued = <<>>

\* The result is at its consumer or on its way through the executor
Delivered == \/ consumed = <<given>> /\ queued = <<>>
             \/ consumed = <<>> /\ queued = <<given>>

\* How far the producer is before it has published the result
Unpublished == \/ P = "idle"  /\ given = NoResult /\ result = NoResult
               \/ P = "write" /\ given # NoResult /\ result = NoResult
               \/ P = "cas"   /\ given # NoResult /\ result = given

\* Side s takes the result: it alone moves it out and passes it on
Taking(s) ==
    \/ pc[s] = "move" /\ result = given /\ Undelivered
    \/ /\ pc[s] = "exec" /\ result = Moved /\ got[s] = given /\ Undelivered
       /\ op = "subscribe"
    \/ pc[s] = "end" /\ result = Moved /\ Delivered

InStart ==
    /\ Unpublished /\ Undelivered /\ ~polled
    /\ C \in {"idle", "block", "blocked", "has", "setcb", "cas"}

InOnlyResult ==
    /\ P \in {"notify", "end"} /\ given # NoResult /\ result = given
    /\ Undelivered
    /\ C \in {"idle", "block", "blocked", "has", "setcb", "cas", "store"}

InOnlyCallback ==
    /\ C = "end" /\ op = "subscribe" /\ Undelivered
    /\ Unpublished \/ (P = "store" /\ given # NoResult /\ result = given)

InDone ==
    /\ given # NoResult
    /\ \/ P \in {"notify", "end"} /\ Taking("consumer")
       \/ C = "end" /\ op = "subscribe" /\ Taking("producer")

\* A consumer that moves on to Execute is subscribing
Consistent ==
    /\ C \in {"has", "setcb", "cas"} => op = "subscribe"
    /\ C \in {"block", "blocked"} => op = "get"
    /\ C \in {"store", "move"} => op \in {"get", "subscribe"}

IInv == /\ TypeOK
        /\ state = Start        => InStart
        /\ state = OnlyResult   => InOnlyResult
        /\ state = OnlyCallback => InOnlyCallback
        /\ state = Done         => InDone
        /\ Consistent

-----------------------------------------------------------------------------
\* The sequences that the history and the executor's queue go through.
LEMMA SingletonFacts ==
  ASSUME NEW S, NEW x \in S
  PROVE  /\ <<>> \in Seq(S) /\ <<x>> \in Seq(S)
         /\ Append(<<>>, x) = <<x>>
         /\ Head(<<x>>) = x /\ Tail(<<x>>) = <<>>
         /\ <<x>> # <<>>
  OBVIOUS

\* At first neither side has begun.
LEMMA InitIInv == Init => IInv
<1> SUFFICES ASSUME Init PROVE IInv
  OBVIOUS
<1> USE DEF Init, P, C, Sides
<1>1. TypeOK
  <2>1. NoResult \in Content /\ <<>> \in Seq(Content)
    BY SingletonFacts DEF Content
  <2>2. pc \in [Sides -> PCs] /\ got \in [Sides -> Content]
    BY <2>1 DEF PCs
  <2>3. executor \in BOOLEAN /\ polled \in BOOLEAN
    BY Zenon
  <2>4. state \in 0..3
    BY DEF Start
  <2> QED
    BY <2>1, <2>2, <2>3, <2>4, Zenon DEF TypeOK, Content
<1>2. InStart
  BY DEF InStart, Unpublished, Undelivered
<1>3. Consistent
  BY DEF Consistent
<1> QED
  BY <1>1, <1>2, <1>3 DEF IInv, Start, OnlyResult, OnlyCallback, Done

\* Every step of either side keeps the invariant.
LEMMA NextIInv == IInv /\ [Next]_vars => IInv'
<1> SUFFICES ASSUME IInv, [Next]_vars PROVE IInv'
  OBVIOUS
<1> USE ResultAssumption
    DEF IInv, TypeOK, Sides, PCs, Content, Start, OnlyResult, OnlyCallback, Done,
        P, C, Goes
<1>1. ASSUME SetCall PROVE IInv'
  BY <1>1
  DEF SetCall, InStart, InOnlyResult, InOnlyCallback, InDone, Unpublished,
      Undelivered, Delivered, Taking, Consistent
<1>2. ASSUME SetEmplace PROVE IInv'
  BY <1>2
  DEF SetEmplace, InStart, InOnlyResult, InOnlyCallback, InDone, Unpublished,
      Undelivered, Delivered, Taking, Consistent
<1>3. ASSUME SetCas PROVE IInv'
  BY <1>3
  DEF SetCas, InStart, InOnlyResult, InOnlyCallback, InDone, Unpublished,
      Undelivered, Delivered, Taking, Consistent
<1>4. ASSUME SetNotify PROVE IInv'
  BY <1>4
  DEF SetNotify, InStart, InOnlyResult, InOnlyCallback, InDone, Unpublished,
      Undelivered, Delivered, Taking, Consistent
<1>5. ASSUME Via PROVE IInv'
  BY <1>5
  DEF Via, InStart, InOnlyResult, InOnlyCallback, InDone, Unpublished,
      Undelivered, Delivered, Taking, Consistent
<1>6. ASSUME IsReady PROVE IInv'
  BY <1>6
  DEF IsReady, InStart, InOnlyResult, InOnlyCallback, InDone, Unpublished,
      Undelivered, Delivered, Taking, Consistent
<1>7. ASSUME GetResult PROVE IInv'
  BY <1>7
  DEF GetResult, InStart, InOnlyResult, InOnlyCallback, InDone, Unpublished,
      Undelivered, Delivered, Taking, Consistent
<1>8. ASSUME BlockForResult PROVE IInv'
  BY <1>8
  DEF BlockForResult, InStart, InOnlyResult, InOnlyCallback, InDone, Unpublished,
      Undelivered, Delivered, Taking, Consistent
<1>9. ASSUME GetReadyResult PROVE IInv'
  BY <1>9
  DEF GetReadyResult, InStart, InOnlyResult, InOnlyCallback, InDone, Unpublished,
      Undelivered, Delivered, Taking, Consistent
<1>10. ASSUME Subscribe PROVE IInv'
  BY <1>10
  DEF Subscribe, InStart, InOnlyResult, InOnlyCallback, InDone, Unpublished,
      Undelivered, Delivered, Taking, Consistent
<1>11. ASSUME HasResult PROVE IInv'
  BY <1>11
  DEF HasResult, InStart, InOnlyResult, InOnlyCallback, InDone, Unpublished,
      Undelivered, Delivered, Taking, Consistent
<1>12. ASSUME SetCallback PROVE IInv'
  BY <1>12
  DEF SetCallback, InStart, InOnlyResult, InOnlyCallback, InDone, Unpublished,
      Undelivered, Delivered, Taking, Consistent
<1>13. ASSUME PassCallback PROVE IInv'
  BY <1>13
  DEF PassCallback, InStart, InOnlyResult, InOnlyCallback, InDone, Unpublished,
      Undelivered, Delivered, Taking, Consistent
<1>14. ASSUME NEW s \in Sides, StoreDone(s) PROVE IInv'
  BY <1>14, SingletonFacts
  DEF StoreDone, Gets, InStart, InOnlyResult, InOnlyCallback, InDone, Unpublished,
      Undelivered, Delivered, Taking, Consistent
<1>15. ASSUME NEW s \in Sides, MoveResult(s) PROVE IInv'
  <2> USE <1>15 DEF MoveResult, Gets, Undelivered
  <2>1. /\ state = Done /\ result = given /\ given \in Results
        /\ Undelivered /\ Consistent
    BY DEF InStart, InOnlyResult, InOnlyCallback, InDone, Unpublished, Taking
  <2>2. consumed' \in {<<>>, <<given>>} /\ (Gets(s) => consumed' = <<given>>)
    BY <2>1, SingletonFacts
  <2>3. TypeOK'
    BY <2>1, <2>2, SingletonFacts
  <2>4. InDone'
    <3>1. CASE s = "consumer"
      BY <2>1, <2>2, <3>1 DEF InDone, Taking, Delivered, Consistent
    <3>2. CASE s = "producer"
      BY <2>1, <2>2, <3>2 DEF InDone, Taking, Delivered, Consistent
    <3> QED
      BY <3>1, <3>2
  <2>5. Consistent'
    BY <2>1 DEF Consistent
  <2> QED
    BY <2>1, <2>3, <2>4, <2>5
<1>16. ASSUME NEW s \in Sides, Execute(s) PROVE IInv'
  <2> USE <1>16 DEF Execute, Undelivered
  <2>1. /\ state = Done /\ result = Moved /\ got[s] = given /\ given \in Results
        /\ Undelivered /\ Consistent
    BY DEF InStart, InOnlyResult, InOnlyCallback, InDone, Unpublished, Taking
  <2>2. Delivered'
    BY <2>1, SingletonFacts DEF Delivered
  <2>3. TypeOK'
    <3>1. /\ given' = given /\ <<given>> \in Seq(Content)
          /\ <<>> \in Seq(Content)
      BY <2>1, SingletonFacts
    <3>2. consumed' \in Seq(Content) /\ queued' \in Seq(Content)
      BY <2>2, <3>1, Zenon DEF Delivered
    <3> QED
      BY <3>2
  <2>4. InDone'
    <3>1. CASE s = "consumer"
      BY <2>1, <2>2, <3>1 DEF InDone, Taking
    <3>2. CASE s = "producer"
      BY <2>1, <2>2, <3>2 DEF InDone, Taking
    <3> QED
      BY <3>1, <3>2
  <2>5. Consistent'
    BY <2>1 DEF Consistent
  <2> QED
    BY <2>1, <2>3, <2>4, <2>5
<1>17. ASSUME ExecutorRuns PROVE IInv'
  <2> USE <1>17 DEF ExecutorRuns
  <2>1. /\ state = Done /\ given \in Results
        /\ consumed = <<>> /\ queued = <<given>>
    BY DEF InStart, InOnlyResult, InOnlyCallback, InDone, Unpublished, Taking,
           Undelivered, Delivered
  <2>2. consumed' = <<given>> /\ queued' = <<>>
    BY <2>1, SingletonFacts
  <2>3. TypeOK'
    BY <2>1, <2>2, SingletonFacts
  <2>4. InDone'
    BY <2>1, <2>2, SingletonFacts
    DEF InDone, Taking, Undelivered, Delivered
  <2> QED
    BY <2>1, <2>3, <2>4 DEF Consistent
<1>18. ASSUME UNCHANGED vars PROVE IInv'
  BY <1>18
  DEF vars, InStart, InOnlyResult, InOnlyCallback, InDone, Unpublished,
      Undelivered, Delivered, Taking, Consistent
<1> QED
  BY <1>1, <1>2, <1>3, <1>4, <1>5, <1>6, <1>7, <1>8, <1>9, <1>10, <1>11, <1>12, <1>13, <1>14, <1>15, <1>16, <1>17, <1>18
  DEF Next, ProducerStep, ConsumerStep, Take, Rest

\* The invariant holds in every reachable state of the contract.
THEOREM Invariance == Spec => []IInv
  BY InitIInv, NextIInv, PTL DEF Spec

-----------------------------------------------------------------------------
\* The fields and the control points keep their types.
THEOREM TypeCorrect == Spec => []TypeOK
  BY Invariance, PTL DEF IInv

\* Neither WHEELS_VERIFY of SharedState can fail.
LEMMA VerifyHolds == IInv => NoPanic
  BY DEF IInv, TypeOK, NoPanic, InStart, InOnlyResult, InOnlyCallback, InDone,
         Unpublished, Taking, Sides, P, C, Start, OnlyResult, OnlyCallback, Done

\* The consumer, or its callback, gets the result that was set, and once; and
\* neither WHEELS_VERIFY fails on the way.
THEOREM Delivery == Spec => []DeliversOnce
<1>1. IInv => DeliversOnce
  BY VerifyHolds
  DEF IInv, TypeOK, DeliversOnce, InStart, InOnlyResult, InOnlyCallback,
      InDone, Taking, Undelivered, Delivered, Start, OnlyResult, OnlyCallback,
      Done
<1> QED
  BY <1>1, Invariance, PTL

\* state_ orders all accesses to callback_, result_ and executor_.
THEOREM RaceFree == Spec => []NoDataRace
<1>1. IInv => NoDataRace
  BY DEF IInv, TypeOK, NoDataRace, InStart, InOnlyResult, InOnlyCallback, InDone,
         Unpublished, Taking, P, C, Start, OnlyResult, OnlyCallback, Done,
         TouchesResult, TouchesCallback, ReadsExecutor, MayWriteExecutor
<1> QED
  BY <1>1, Invariance, PTL

\* With an executor set, a subscribed callback runs there and nowhere else.
THEOREM OnExecutor == Spec => RunsOnExecutor
<1>1. ASSUME IInv, [Next]_vars, op = "subscribe", executor, consumed' # consumed
      PROVE  queued # <<>> /\ queued' = Tail(queued)
  BY <1>1
  DEF IInv, TypeOK, Next, ProducerStep, ConsumerStep, Take, Rest, vars, SetCall,
      SetEmplace, SetCas, SetNotify, Via, IsReady, GetResult, BlockForResult,
      GetReadyResult, Subscribe, HasResult, SetCallback, PassCallback,
      StoreDone, MoveResult, Gets, Execute, ExecutorRuns
<1>2. IInv /\ [Next]_vars => [CallbackRunsThere]_vars
  BY <1>1 DEF CallbackRunsThere
<1> QED
  BY <1>2, Invariance, PTL DEF Spec, RunsOnExecutor
-----------------------------------------------------------------------------
\* A consumer that sleeps on state_ sleeps before the producer's CAS, or is about
\* to be notified; one that has asked for nothing is idle
Awaited == /\ C = "idle" => op = "none"
           /\ C = "blocked" /\ state # Start => P = "notify"

\* Nobody is inside a call that can go on, and the executor has nothing to run
AtRest == P \in {"idle", "end"} /\ C \in {"idle", "blocked", "end"} /\ queued = <<>>

\* When everybody is at rest, a result that was set and asked for has arrived: no
\* wakeup of a blocked consumer and no callback is lost.
NothingLeftBehind == AtRest /\ given # NoResult /\ op # "none" => consumed = <<given>>

\* Only the producer's CAS ends the wait, and the notification follows it.
LEMMA AwaitedStep ==
  ASSUME IInv, Awaited, [Next]_vars
  PROVE  Awaited'
<1> USE DEF Awaited, P, C, Start, OnlyResult, OnlyCallback, Done
<1>0. TypeOK
  BY DEF IInv
<1>1. ASSUME SetCall \/ ProducerStep PROVE Awaited'
  BY <1>0, <1>1 DEF TypeOK, Sides, SetCall, ProducerStep, SetEmplace, SetCas, SetNotify, Goes
<1>2. ASSUME Via \/ IsReady \/ GetResult \/ GetReadyResult \/ Subscribe PROVE Awaited'
  BY <1>0, <1>2
  DEF TypeOK, Sides, Via, IsReady, GetResult, GetReadyResult, Subscribe, Goes
<1>3. ASSUME ConsumerStep PROVE Awaited'
  BY <1>0, <1>3
  DEF TypeOK, Sides, ConsumerStep, BlockForResult, HasResult, SetCallback, PassCallback, Goes
<1>4. ASSUME NEW s \in Sides, Take(s) PROVE Awaited'
  <2>1. s = "producer" /\ pc[s] = "store" => C # "blocked"
    BY <1>0 DEF IInv, TypeOK, InStart, InOnlyResult, InOnlyCallback, InDone, Unpublished,
                Taking
  <2> QED
    BY <1>0, <1>4, <2>1 DEF TypeOK, Sides, Take, StoreDone, MoveResult, Gets, Execute, Goes
<1>5. ASSUME ExecutorRuns \/ UNCHANGED vars PROVE Awaited'
  BY <1>5 DEF ExecutorRuns, vars
<1> QED
  BY <1>1, <1>2, <1>3, <1>4, <1>5 DEF Next, Rest

\* Whichever side comes second, and wherever the consumer sleeps, the result
\* does not stay behind: SetResult's notification and PassCallback's CAS see to it.
THEOREM ResultNotLost == Spec => []NothingLeftBehind
<1>1. Init => Awaited
  BY DEF Init, Awaited, Sides, P, C
<1>2. IInv /\ Awaited /\ [Next]_vars => Awaited'
  BY AwaitedStep
<1>3. IInv /\ Awaited => NothingLeftBehind
  BY DEF IInv, TypeOK, Awaited, AtRest, NothingLeftBehind, InStart, InOnlyResult,
         InOnlyCallback, InDone, Unpublished, Taking, Delivered, P, C, Start,
         OnlyResult, OnlyCallback, Done
<1> QED
  BY <1>1, <1>2, <1>3, Invariance, PTL DEF Spec
=============================================================================
