------------------------------ MODULE PlanGate ------------------------------
(***************************************************************************)
(* What the agent runtime promises of the plans of one task, without        *)
(* coroutines, crashes or storage: a plan that asks for approval runs no    *)
(* step until a person approved it, the steps of a plan run in their order, *)
(* and an approval is requested once and resolved once.                     *)
(***************************************************************************)
EXTENDS Naturals

CONSTANTS Plans, Steps

VARIABLES gated, approval, performed

Init ==
    /\ gated = [p \in Plans |-> FALSE]
    /\ approval = [p \in Plans |-> "none"]
    /\ performed = [p \in Plans |-> [s \in Steps |-> 0]]

\* A new plan says that it needs approval.
Propose(p) ==
    /\ ~gated[p] /\ approval[p] = "none"
    /\ \A s \in Steps : performed[p][s] = 0
    /\ gated' = [gated EXCEPT ![p] = TRUE]
    /\ UNCHANGED <<approval, performed>>

Request(p) ==
    /\ gated[p] /\ approval[p] = "none"
    /\ approval' = [approval EXCEPT ![p] = "pending"]
    /\ UNCHANGED <<gated, performed>>

Resolve(p) ==
    /\ approval[p] = "pending"
    /\ \E v \in {"approved", "rejected"} :
         approval' = [approval EXCEPT ![p] = v]
    /\ UNCHANGED <<gated, performed>>

\* performed counts up to 2, which stands for more than once.
Perform(p, s) ==
    /\ gated[p] => approval[p] = "approved"
    /\ \A t \in 1..(s - 1) : performed[p][t] > 0
    /\ \E n \in {1, 2} : performed' = [performed EXCEPT ![p][s] = n]
    /\ performed'[p][s] >= performed[p][s]
    /\ UNCHANGED <<gated, approval>>

Next ==
    \E p \in Plans :
        \/ Propose(p) \/ Request(p) \/ Resolve(p)
        \/ \E s \in Steps : Perform(p, s)

Spec == Init /\ [][Next]_<<gated, approval, performed>>
=============================================================================
