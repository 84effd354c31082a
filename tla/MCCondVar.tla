----------------------------- MODULE MCCondVar ------------------------------
(***************************************************************************)
(* The two users of wait and notify that stand alone, ConditionVariable    *)
(* and CyclicBarrier, checked by TLC.  They share nothing: one of them     *)
(* moves in a behaviour, the other stays in its initial state.             *)
(***************************************************************************)
EXTENDS ConditionVariable, CyclicBarrier

VARIABLE subject   \* "condvar" or "barrier"

condVarVars == <<subject, vars, barrierVars>>

CondVarInit == subject \in {"condvar", "barrier"} /\ Init /\ BarrierInit

CondVarStep(A) == subject = "condvar" /\ A /\ UNCHANGED <<subject, barrierVars>>

BarrierStep(A) == subject = "barrier" /\ A /\ UNCHANGED <<subject, vars>>

CondVarSpec ==
    /\ CondVarInit
    /\ [][CondVarStep(Next) \/ BarrierStep(BarrierNext)]_condVarVars
    /\ \A t \in Waiters : WF_condVarVars(CondVarStep(Waiter(t)))
    /\ \A t \in Notifiers : WF_condVarVars(CondVarStep(Notifier(t)))
    /\ \A t \in Participants : WF_condVarVars(BarrierStep(Recheck(t)))
=============================================================================
