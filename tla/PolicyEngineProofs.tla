------------------------- MODULE PolicyEngineProofs -------------------------
(***************************************************************************)
(* Theorems about the decisions of the policy engine.                       *)
(***************************************************************************)
EXTENDS PolicyEngine, TLAPS

LEMMA EscalationValues ==
    /\ ENV_ESCALATION \in [Environments -> 0..2]
    /\ \A e \in Environments : ENV_ESCALATION[e] = 2 <=> e = "production"
BY DEF ENV_ESCALATION, Environments

LEMMA BonusValues == OP_RISK_BONUS \in [Operations -> 0..2]
BY DEF OP_RISK_BONUS, Operations

\* The four branches that force an approval: each is kept by a move to an
\* environment that escalates at least as much.
LEMMA ForcedIsMonotone ==
    ASSUME NEW i \in PolicyInput, NEW e \in Environments,
           ENV_ESCALATION[i.environment] <= ENV_ESCALATION[e], Forced(i)
    PROVE  Forced([i EXCEPT !.environment = e])
<1> DEFINE j == [i EXCEPT !.environment = e]
<1>1. /\ j.environment = e /\ j.operation = i.operation /\ j.rollback = i.rollback
      /\ j.risk_level = i.risk_level /\ j.blast = i.blast
      /\ i.environment \in Environments /\ i.operation \in Operations
  BY DEF PolicyInput
<1>2. CASE i.environment = "production" /\ i.operation \in {"delete", "merge", "deploy"}
  <2>1. e = "production"
    BY <1>1, <1>2, EscalationValues
  <2> QED
    BY <1>1, <1>2, <2>1 DEF Forced
<1>3. CASE ENV_ESCALATION[i.environment] + OP_RISK_BONUS[i.operation] >= 2
  <2>1. ENV_ESCALATION[e] + OP_RISK_BONUS[i.operation] >= 2
    BY <1>1, <1>3, EscalationValues, BonusValues
  <2> QED
    BY <1>1, <2>1 DEF Forced
<1>4. CASE \/ ~i.rollback /\ i.risk_level \in {"high", "critical"}
           \/ i.blast # "none"
  BY <1>1, <1>4 DEF Forced
<1> QED
  BY <1>2, <1>3, <1>4 DEF Forced

\* Production is never the more lenient environment.
THEOREM ProductionIsStrictest == EvaluateIsMonotone
<1> SUFFICES ASSUME NEW i \in PolicyInput, NEW e \in Environments,
                    ENV_ESCALATION[i.environment] <= ENV_ESCALATION[e],
                    Evaluate(i).requires_approval
             PROVE  Evaluate([i EXCEPT !.environment = e]).requires_approval
  BY DEF EvaluateIsMonotone
<1> DEFINE j == [i EXCEPT !.environment = e]
<1>1. j.admin = i.admin /\ j.risk_level = i.risk_level
  BY DEF PolicyInput
<1>2. Forced(i) => Forced(j)
  BY ForcedIsMonotone
<1>3. ~i.admin /\ Mode(i) = "approval_required"
  BY DEF Evaluate
<1>4. Mode(j) = "approval_required"
  BY <1>1, <1>2, <1>3 DEF Mode
<1> QED
  BY <1>1, <1>3, <1>4 DEF Evaluate

\* So is what is asked for a tool: its manifest names production or nothing.
LEMMA DecisionIsMonotone ==
    ASSUME NEW tool, NEW admin \in BOOLEAN,
           NEW e \in Environments, NEW f \in Environments,
           ENV_ESCALATION[e] <= ENV_ESCALATION[f],
           CheckToolPermission(tool, e, admin).requires_approval
    PROVE  CheckToolPermission(tool, f, admin).requires_approval
<1> DEFINE i == InputFor(tool, e, admin)
<1>1. /\ i \in PolicyInput /\ i.environment = e
      /\ [i EXCEPT !.environment = f] = InputFor(tool, f, admin)
  BY DEF InputFor, PolicyInput, RiskOf, RiskLevels, Operations, BlastRadii
<1>2. CASE Evaluate(i).requires_approval
  <2>1. Evaluate([i EXCEPT !.environment = f]).requires_approval
    BY <1>1, <1>2, ProductionIsStrictest DEF EvaluateIsMonotone
  <2> QED
    BY <1>1, <2>1 DEF CheckToolPermission, Evaluate
<1>3. CASE RequiresApproval(tool, e)
  <2>1. e = "production"
    BY <1>3 DEF RequiresApproval
  <2>2. f = "production"
    BY <2>1, EscalationValues DEF Environments
  <2> QED
    BY <1>3, <2>2 DEF CheckToolPermission, RequiresApproval, Evaluate
<1> QED
  BY <1>2, <1>3 DEF CheckToolPermission, Evaluate

\* A registered tool asks in production unless an administrator uses it and
\* its manifest does not name production: exactly the six tools of the table
\* are asked for whoever created the task.
THEOREM AskedInProduction ==
    ASSUME NEW tool \in RegisteredTools, NEW admin \in BOOLEAN
    PROVE  CheckToolPermission(tool, "production", admin).requires_approval
             <=> (~admin \/ tool \in OnApproval)
<1> DEFINE i == InputFor(tool, "production", admin)
<1>1. i.admin = admin /\ i.environment = "production" /\ i.operation = "execute"
  BY DEF InputFor
<1>2. Forced(i)
  <2>1. ENV_ESCALATION["production"] = 2
    BY DEF ENV_ESCALATION, Environments
  <2>2. OP_RISK_BONUS["execute"] = 1
    BY DEF OP_RISK_BONUS, Operations
  <2> QED
    BY <1>1, <2>1, <2>2 DEF Forced
<1>3. Evaluate(i).requires_approval = ~admin
  BY <1>1, <1>2 DEF Evaluate, Mode
<1> QED
  BY <1>3 DEF CheckToolPermission, RequiresApproval, Evaluate
=============================================================================
